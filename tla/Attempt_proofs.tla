--------------------------- MODULE Attempt_proofs ---------------------------
(***************************************************************************)
(* Theorems of Attempt, for every value of its constants: of each of the   *)
(* components but logs and redaction (Logs_proofs) an inductive invariant, *)
(* which that component's steps keep and the others' leave alone.          *)
(***************************************************************************)
EXTENDS Attempt, SumTheorems

-----------------------------------------------------------------------------
(* Idempotency. *)

LEMMA KeysInitially == Init => Keys!IInv
<1> SUFFICES ASSUME Keys!Init PROVE Keys!IInv
  BY DEF Init
<1> QED
  BY RequestsAssumption DEF Keys!Init, Keys!IInv, Keys!TypeOK, Keys!KeyIsHeld,
     Keys!Holds, Keys!JobKeepsItsKey, Keys!AnswersAgree, Keys!NoKey, Keys!None,
     Keys!Conflict, Keys!Invalid, Keys!Failed

LEMMA KeysSteps ==
  ASSUME Keys!IInv, Keys!Next
  PROVE  Keys!IInv'
<1> DEFINE Row == [at : {"new", "read", "work", "abort", "write", "end"},
                   connected : BOOLEAN]
           KeyRow == [there : BOOLEAN, op : {"none", "create", "other"},
                      job : {0} \cup Requests]
           Told == {0, -1, -2, -3} \cup Requests
<1> USE DEF Keys!IInv, Keys!None, Keys!Conflict, Keys!Invalid, Keys!Failed
<1>0. /\ keysRequest \in [Requests -> Row] /\ key \in KeyRow
      /\ jobs \subseteq Requests /\ answer \in [Requests -> Told]
      /\ \A r \in Requests : r # 0 /\ r \notin {-1, -2, -3}
  BY RequestsAssumption DEF Keys!TypeOK
<1>1. ASSUME NEW r \in Requests, Keys!Claim(r)
      PROVE  Keys!IInv'
  <2>1. CASE key.there
    <3>1. /\ keysRequest' = [keysRequest EXCEPT ![r].at = "read"]
          /\ keysRequest[r].at = "new"
          /\ UNCHANGED <<key, jobs, answer>>
      BY <1>1, <2>1 DEF Keys!Claim, Keys!Insert, Keys!Goto, Keys!Waiting
    <3>2. Keys!TypeOK'
      BY <1>0, <3>1 DEF Keys!TypeOK
    <3>3. \A s \in Requests : /\ Keys!Holds(s)' <=> Keys!Holds(s)
                              /\ Keys!Holds(s) => keysRequest'[s] = keysRequest[s]
      BY <1>0, <3>1 DEF Keys!Holds
    <3>4. Keys!KeyIsHeld'
      BY <3>1, <3>3 DEF Keys!KeyIsHeld, Keys!Op
    <3> QED
      BY <3>1, <3>2, <3>4 DEF Keys!JobKeepsItsKey, Keys!AnswersAgree, Keys!Op
  <2>2. CASE ~key.there
    <3>1. /\ keysRequest' = [keysRequest EXCEPT ![r].at = "work"]
          /\ keysRequest[r].at = "new"
          /\ key' = [there |-> TRUE, op |-> Keys!Op(r), job |-> 0]
          /\ UNCHANGED <<jobs, answer>>
      BY <1>1, <2>2 DEF Keys!Claim, Keys!Insert, Keys!Goto, Keys!Waiting
    <3>2. Keys!TypeOK'
      BY <1>0, <3>1 DEF Keys!TypeOK, Keys!Op
    <3>3. (\A s \in Requests : ~Keys!Holds(s)) /\ jobs = {}
      BY <2>2 DEF Keys!KeyIsHeld, Keys!JobKeepsItsKey
    <3>4. \A s \in Requests : Keys!Holds(s)' => s = r /\ keysRequest'[s].at = "work"
      BY <1>0, <3>1, <3>3 DEF Keys!Holds
    <3>5. Keys!KeyIsHeld'
      BY <3>1, <3>3, <3>4 DEF Keys!KeyIsHeld, Keys!Op
    <3> QED
      BY <3>1, <3>2, <3>3, <3>5 DEF Keys!JobKeepsItsKey, Keys!AnswersAgree, Keys!Op
  <2> QED
    BY <2>1, <2>2
<1>2. ASSUME NEW r \in Requests, Keys!Read(r)
      PROVE  Keys!IInv'
  <2>1. /\ keysRequest' = [keysRequest EXCEPT ![r].at = "end"]
        /\ keysRequest[r].at = "read"
        /\ UNCHANGED <<key, jobs>>
        /\ \E a \in {0, -1, -3, key.job} :
             /\ answer' = [answer EXCEPT ![r] = a]
             /\ a \in Requests => a = key.job /\ a # 0 /\ key.op = Keys!Op(r)
    BY <1>0, <1>2 DEF Keys!Read, Keys!Reply, Keys!Replay
  <2>2. PICK a \in {0, -1, -3, key.job} :
          /\ answer' = [answer EXCEPT ![r] = a]
          /\ a \in Requests => a = key.job /\ a # 0 /\ key.op = Keys!Op(r)
    BY <2>1
  <2>3. Keys!TypeOK'
    BY <1>0, <2>1, <2>2 DEF Keys!TypeOK
  <2>4. \A s \in Requests : /\ Keys!Holds(s)' <=> Keys!Holds(s)
                            /\ Keys!Holds(s) => keysRequest'[s] = keysRequest[s]
    BY <1>0, <2>1 DEF Keys!Holds
  <2>5. Keys!KeyIsHeld'
    BY <2>1, <2>4 DEF Keys!KeyIsHeld, Keys!Op
  <2>6. a \in Requests => a \in jobs /\ Keys!Op(a) = Keys!Op(r)
    BY <1>0, <2>2 DEF Keys!JobKeepsItsKey
  <2>7. Keys!AnswersAgree'
    BY <1>0, <2>1, <2>2, <2>6 DEF Keys!AnswersAgree, Keys!Op
  <2> QED
    BY <2>1, <2>3, <2>5, <2>7 DEF Keys!JobKeepsItsKey, Keys!Op
<1>3. ASSUME NEW r \in Requests, Keys!Create(r)
      PROVE  Keys!IInv'
  <2>1. /\ keysRequest[r].at = "work" /\ UNCHANGED <<key, answer>>
        /\ \/ keysRequest' = [keysRequest EXCEPT ![r].at = "abort"] /\ jobs' = jobs
           \/ keysRequest' = [keysRequest EXCEPT ![r].at = "write"] /\ jobs' = jobs \cup {r}
    BY <1>3 DEF Keys!Create, Keys!Goto
  <2>2. /\ Keys!Holds(r) /\ jobs = {} /\ key.there /\ key.job = 0 /\ key.op = Keys!Op(r)
        /\ \A s \in Requests \ {r} : ~Keys!Holds(s)
    BY <2>1 DEF Keys!KeyIsHeld, Keys!Holds
  <2>3. Keys!TypeOK'
    BY <1>0, <2>1 DEF Keys!TypeOK
  <2>4. /\ \A s \in Requests \ {r} : ~Keys!Holds(s)'
        /\ jobs' = IF keysRequest'[r].at = "write" THEN {r} ELSE {}
    BY <1>0, <2>1, <2>2 DEF Keys!Holds
  <2>5. Keys!KeyIsHeld'
    BY <2>1, <2>2, <2>4 DEF Keys!KeyIsHeld, Keys!Op
  <2>6. Keys!JobKeepsItsKey'
    BY <2>1, <2>2, <2>4 DEF Keys!JobKeepsItsKey, Keys!Op
  <2> QED
    BY <2>1, <2>2, <2>3, <2>5, <2>6 DEF Keys!AnswersAgree, Keys!Op
<1>4. ASSUME NEW r \in Requests, Keys!Abort(r)
      PROVE  Keys!IInv'
  <2>1. /\ keysRequest[r].at = "abort" /\ jobs' = jobs
        /\ keysRequest' = [keysRequest EXCEPT ![r].at = "end"]
        /\ key' \in {key, [there |-> FALSE, op |-> "none", job |-> 0]}
        /\ \E a \in {0, -2} : answer' = [answer EXCEPT ![r] = a]
    BY <1>4 DEF Keys!Abort, Keys!Reply, Keys!NoKey
  <2>2. /\ jobs = {} /\ key.job = 0 /\ \A s \in Requests \ {r} : ~Keys!Holds(s)
    BY <2>1 DEF Keys!KeyIsHeld, Keys!Holds
  <2>3. Keys!TypeOK'
    <3>1. [there |-> FALSE, op |-> "none", job |-> 0] \in KeyRow
      OBVIOUS
    <3>2. key' \in KeyRow
      BY <1>0, <2>1, <3>1
    <3> QED
      BY <1>0, <2>1, <3>2 DEF Keys!TypeOK
  <2>4. \A s \in Requests : ~Keys!Holds(s)'
    BY <1>0, <2>1, <2>2 DEF Keys!Holds
  <2>5. Keys!AnswersAgree'
    BY <1>0, <2>1, <2>2 DEF Keys!AnswersAgree, Keys!Op
  <2> QED
    BY <2>1, <2>2, <2>3, <2>4, <2>5 DEF Keys!KeyIsHeld, Keys!JobKeepsItsKey
<1>5. ASSUME NEW r \in Requests, Keys!WriteAnswer(r)
      PROVE  Keys!IInv'
  <2>1. /\ keysRequest[r].at = "write" /\ jobs' = jobs
        /\ keysRequest' = [keysRequest EXCEPT ![r].at = "end"]
        /\ key' \in {key, [key EXCEPT !.job = r]}
        /\ \E a \in {0, r} : answer' = [answer EXCEPT ![r] = a]
    BY <1>5 DEF Keys!WriteAnswer, Keys!Complete, Keys!Reply
  <2>2. /\ jobs = {r} /\ key.there /\ key.op = Keys!Op(r)
        /\ \A s \in Requests \ {r} : ~Keys!Holds(s)
    BY <2>1 DEF Keys!KeyIsHeld, Keys!Holds
  <2>3. Keys!TypeOK'
    <3>1. [key EXCEPT !.job = r] \in KeyRow
      BY <1>0
    <3>2. key' \in KeyRow
      BY <1>0, <2>1, <3>1
    <3> QED
      BY <1>0, <2>1, <3>2 DEF Keys!TypeOK
  <2>4. \A s \in Requests : ~Keys!Holds(s)'
    BY <1>0, <2>1, <2>2 DEF Keys!Holds
  <2>5. key'.there /\ key'.op = Keys!Op(r) /\ key'.job \in {key.job, r}
    BY <1>0, <2>1, <2>2
  <2>6. Keys!AnswersAgree'
    BY <1>0, <2>1, <2>2 DEF Keys!AnswersAgree, Keys!Op
  <2>7. Keys!JobKeepsItsKey'
    BY <2>1, <2>2, <2>5 DEF Keys!JobKeepsItsKey, Keys!Op
  <2> QED
    BY <2>3, <2>4, <2>6, <2>7 DEF Keys!KeyIsHeld
<1>6. ASSUME NEW r \in Requests, Keys!HangUp(r)
      PROVE  Keys!IInv'
  <2>1. /\ keysRequest' = [keysRequest EXCEPT ![r].connected = FALSE]
        /\ UNCHANGED <<key, jobs, answer>>
    BY <1>6 DEF Keys!HangUp
  <2>2. Keys!TypeOK'
    BY <1>0, <2>1 DEF Keys!TypeOK
  <2>3. \A s \in Requests : keysRequest'[s].at = keysRequest[s].at
    BY <1>0, <2>1
  <2> QED
    BY <2>1, <2>2, <2>3 DEF Keys!KeyIsHeld, Keys!Holds, Keys!JobKeepsItsKey,
       Keys!AnswersAgree, Keys!Op
<1>7. ASSUME Keys!Dies
      PROVE  Keys!IInv'
  <2>1. UNCHANGED <<key, jobs, answer>>
    BY <1>7 DEF Keys!Dies
  <2>2. Keys!TypeOK'
    BY <1>0, <1>7 DEF Keys!TypeOK, Keys!Dies
  <2>3. \A s \in Requests : ~Keys!Holds(s)'
    BY <1>7 DEF Keys!Dies, Keys!Holds, Keys!Waiting
  <2> QED
    BY <2>1, <2>2, <2>3 DEF Keys!KeyIsHeld, Keys!JobKeepsItsKey,
       Keys!AnswersAgree, Keys!Op
<1> QED
  BY <1>1, <1>2, <1>3, <1>4, <1>5, <1>6, <1>7 DEF Keys!Next

(* However the tries of one operation overlap, are cut off and repeated,   *)
(* one job comes of them and every answer is of that job (ClaimIdempotency,*)
(* CompleteIdempotency, ReleaseIdempotency).                               *)
THEOREM OneKeyOneJob == Spec => []KeyGivesOneJob
<1>1. ASSUME Keys!IInv, [Next]_vars
      PROVE  Keys!IInv'
  <2>1. CASE part = "keys" /\ Keys!Next
    BY <1>1, <2>1, KeysSteps
  <2>2. CASE UNCHANGED keysVars
    BY <1>1, <2>2 DEF keysVars, Keys!IInv, Keys!TypeOK, Keys!KeyIsHeld, Keys!Holds,
       Keys!JobKeepsItsKey, Keys!AnswersAgree, Keys!Op
  <2> QED
    BY <1>1, <2>1, <2>2 DEF Next, vars
<1>2. ASSUME Keys!IInv
      PROVE  KeyGivesOneJob
  BY <1>2 DEF KeyGivesOneJob, Keys!OneJobPerKey, Keys!IInv, Keys!JobKeepsItsKey
<1> QED
  BY KeysInitially, <1>1, <1>2, PTL DEF Spec

-----------------------------------------------------------------------------
(* Node access. *)

(* What a step may change of a row of nodes.                               *)
TokenRow == [state : {"absent", "open", "used", "revoked", "expired"},
             node : NodeIds \cup {Nobody}]
NodeRow == [exists : BOOLEAN, deleted : BOOLEAN, token : Tokens \cup {Nobody},
            cred : (1 .. MaxIssued) \cup {Nobody, Revoked},
            prev : (1 .. MaxIssued) \cup {Nobody}, grace : BOOLEAN]
AgentRow == [up : BOOLEAN, node : NodeIds \cup {Nobody},
             cred : (1 .. MaxIssued) \cup {Nobody}]
DiskRow == [node : NodeIds \cup {Nobody}, cred : (1 .. MaxIssued) \cup {Nobody}]
CallRow == [at : {"none", "enroll", "store", "enrolled", "rotate", "rotated"},
            node : NodeIds \cup {Nobody}, cred : (1 .. MaxIssued) \cup {Nobody},
            token : Tokens \cup {Nobody}]

LEMMA AccessTypes ==
  Access!TypeOK <=>
    /\ token \in [Tokens -> TokenRow] /\ accessRow \in [NodeIds -> NodeRow]
    /\ accessAgent \in AgentRow /\ accessDisk \in DiskRow /\ call \in CallRow
    /\ issued \in 0 .. MaxIssued /\ accessCrashes \in 0 .. Crashes["access"]
    /\ unsaved \in 0 .. MaxIssued
BY DEF Access!TypeOK, Access!Credential, Access!Saved, TokenRow, NodeRow, AgentRow,
       DiskRow, CallRow

LEMMA AccessTypesPrime ==
  Access!TypeOK' <=>
    /\ token' \in [Tokens -> TokenRow] /\ accessRow' \in [NodeIds -> NodeRow]
    /\ accessAgent' \in AgentRow /\ accessDisk' \in DiskRow /\ call' \in CallRow
    /\ issued' \in 0 .. MaxIssued /\ accessCrashes' \in 0 .. Crashes["access"]
    /\ unsaved' \in 0 .. MaxIssued
BY DEF Access!TypeOK, Access!Credential, Access!Saved, TokenRow, NodeRow, AgentRow,
       DiskRow, CallRow

LEMMA AccessInitially == Init => Access!IInv
<1> SUFFICES ASSUME Access!Init PROVE Access!IInv
  BY DEF Init
<1> USE AccessAssumption DEF Access!Init
<1>1. Access!TypeOK
  BY DEF Access!TypeOK, Access!Credential, Access!Saved, Access!Nothing, Access!NoCall
<1>2. Access!TokensNameNodes /\ Access!DeletedKeepsNoCredential
  BY DEF Access!TokensNameNodes, Access!DeletedKeepsNoCredential
<1>3. Access!CopiesAreKept /\ Access!CallIsServed
  BY DEF Access!CopiesAreKept, Access!CallIsServed, Access!NoCall
<1> QED
  BY <1>1, <1>2, <1>3 DEF Access!IInv

(* The operators: tokens and deletion. *)
LEMMA OperatorSteps ==
  ASSUME Access!IInv,
         \/ \E t \in Tokens : Access!CreateToken(t) \/ Access!CloseToken(t)
         \/ \E n \in NodeIds : Access!DeleteNode(n) \/ Access!GraceEnds(n)
  PROVE  Access!IInv'
<1>0. /\ token \in [Tokens -> TokenRow] /\ accessRow \in [NodeIds -> NodeRow]
      /\ accessAgent \in AgentRow /\ accessDisk \in DiskRow /\ call \in CallRow
      /\ issued \in 0 .. MaxIssued /\ accessCrashes \in 0 .. Crashes["access"]
      /\ unsaved \in 0 .. MaxIssued
  BY AccessTypes DEF Access!IInv
<1>1. ASSUME NEW t \in Tokens, NEW s \in {"open", "revoked", "expired"},
             token[t].state # "used", token' = [token EXCEPT ![t].state = s],
             UNCHANGED <<accessRow, accessAgent, accessDisk, call, issued,
                         accessCrashes, unsaved>>
      PROVE  Access!IInv'
  <2>1. /\ token' \in [Tokens -> TokenRow]
        /\ \A u \in Tokens : token'[u].node = token[u].node
        /\ \A u \in Tokens \ {t} : token'[u] = token[u]
    BY <1>0, <1>1 DEF TokenRow
  <2>2. Access!TypeOK'
    BY <1>0, <1>1, <2>1, AccessTypesPrime
  <2>3. token[t].node = Nobody
    BY <1>1 DEF Access!IInv, Access!TokensNameNodes
  <2>4. Access!TokensNameNodes'
    <3>1. ASSUME NEW n \in NodeIds, accessRow[n].token # Nobody
          PROVE  token'[accessRow[n].token].node = n
      <4>1. accessRow[n].token \in Tokens
        BY <1>0, <3>1 DEF NodeRow
      <4> QED
        BY <2>1, <3>1, <4>1 DEF Access!IInv, Access!TokensNameNodes
    <3> QED
      BY <1>1, <2>1, <2>3, <3>1 DEF Access!IInv, Access!TokensNameNodes
  <2>5. Access!CallIsServed'
    <3>1. call.at = "store" => token'[call.token].node = token[call.token].node
      BY <2>1 DEF Access!IInv, Access!CallIsServed
    <3> QED
      BY <1>1, <3>1 DEF Access!IInv, Access!CallIsServed, Access!Credential
  <2>6. Access!DeletedKeepsNoCredential' /\ Access!CopiesAreKept' /\ unsaved' <= issued'
    BY <1>1 DEF Access!IInv, Access!DeletedKeepsNoCredential, Access!CopiesAreKept,
                Access!Kept, Access!Credential, Access!Nothing
  <2> QED
    BY <2>2, <2>4, <2>5, <2>6 DEF Access!IInv
<1>2. ASSUME NEW n \in NodeIds, NEW r \in NodeRow,
             accessRow' = [accessRow EXCEPT ![n] = r],
             r.exists = accessRow[n].exists, r.token = accessRow[n].token,
             \/ r.deleted /\ r.exists /\ r.cred = Revoked /\ r.prev = Nobody
             \/ /\ r.deleted = accessRow[n].deleted /\ r.cred = accessRow[n].cred
                /\ r.prev = accessRow[n].prev,
             UNCHANGED <<token, accessAgent, accessDisk, call, issued,
                         accessCrashes, unsaved>>
      PROVE  Access!IInv'
  <2>1. /\ accessRow' \in [NodeIds -> NodeRow] /\ accessRow'[n] = r
        /\ \A m \in NodeIds \ {n} : accessRow'[m] = accessRow[m]
    BY <1>0, <1>2
  <2>2. \A m \in NodeIds :
          /\ accessRow'[m].exists = accessRow[m].exists
          /\ accessRow'[m].token = accessRow[m].token
          /\ \/ /\ accessRow'[m].deleted /\ accessRow'[m].exists
                /\ accessRow'[m].cred = Revoked /\ accessRow'[m].prev = Nobody
             \/ /\ accessRow'[m].deleted = accessRow[m].deleted
                /\ accessRow'[m].cred = accessRow[m].cred
                /\ accessRow'[m].prev = accessRow[m].prev
    BY <1>2, <2>1
  <2>3. Access!TypeOK'
    BY <1>0, <1>2, <2>1, AccessTypesPrime
  <2>4. Access!TokensNameNodes'
    BY <1>2, <2>2 DEF Access!IInv, Access!TokensNameNodes
  <2>5. Access!DeletedKeepsNoCredential'
    BY <2>2 DEF Access!IInv, Access!DeletedKeepsNoCredential
  <2>6. \A m, c : Access!Kept(m, c) => Access!Kept(m, c)'
    BY <1>2, <2>2 DEF Access!Kept, Access!Credential
  <2>7. Access!CopiesAreKept'
    BY <1>2, <2>6 DEF Access!IInv, Access!CopiesAreKept, Access!Nothing
  <2>8. Access!CallIsServed'
    BY <1>2, <2>2 DEF Access!IInv, Access!CallIsServed, Access!Credential
  <2> QED
    BY <1>2, <2>3, <2>4, <2>5, <2>7, <2>8 DEF Access!IInv
<1>3. CASE \E t \in Tokens : Access!CreateToken(t) \/ Access!CloseToken(t)
  BY <1>1, <1>3 DEF Access!CreateToken, Access!CloseToken
<1>4. CASE \E n \in NodeIds : Access!DeleteNode(n)
  <2> PICK n \in NodeIds : Access!DeleteNode(n)
    BY <1>4
  <2> DEFINE r == [accessRow[n] EXCEPT !.deleted = TRUE, !.cred = Revoked,
                                       !.prev = Nobody, !.grace = FALSE]
  <2>1. /\ r \in NodeRow /\ r.exists /\ r.deleted /\ r.cred = Revoked /\ r.prev = Nobody
        /\ r.exists = accessRow[n].exists /\ r.token = accessRow[n].token
    BY <1>0 DEF Access!DeleteNode, NodeRow
  <2>2. /\ accessRow' = [accessRow EXCEPT ![n] = r]
        /\ UNCHANGED <<token, accessAgent, accessDisk, call, issued,
                       accessCrashes, unsaved>>
    BY <1>0 DEF Access!DeleteNode
  <2> HIDE DEF r
  <2> QED
    BY <1>2, <2>1, <2>2
<1>5. CASE \E n \in NodeIds : Access!GraceEnds(n)
  <2> PICK n \in NodeIds : Access!GraceEnds(n)
    BY <1>5
  <2> DEFINE r == [accessRow[n] EXCEPT !.grace = FALSE]
  <2>1. /\ r \in NodeRow /\ r.exists = accessRow[n].exists
        /\ r.token = accessRow[n].token /\ r.deleted = accessRow[n].deleted
        /\ r.cred = accessRow[n].cred /\ r.prev = accessRow[n].prev
    BY <1>0 DEF NodeRow
  <2>2. /\ accessRow' = [accessRow EXCEPT ![n] = r]
        /\ UNCHANGED <<token, accessAgent, accessDisk, call, issued,
                       accessCrashes, unsaved>>
    BY <1>0 DEF Access!GraceEnds
  <2> HIDE DEF r
  <2> QED
    BY <1>2, <2>1, <2>2
<1> QED
  BY <1>3, <1>4, <1>5

(* What only touches the call, the agent or its disk. *)
LEMMA AgentSteps ==
  ASSUME Access!IInv,
         \/ Access!StartSaved \/ \E t \in Tokens : Access!StartEnroll(t)
         \/ Access!Enrolled \/ Access!RotateAsked \/ Access!RotateRefused
         \/ Access!Rotated \/ Access!CallFails \/ Access!WriteFails \/ Access!Crash
  PROVE  Access!IInv'
<1> USE AccessAssumption
<1>0. /\ token \in [Tokens -> TokenRow] /\ accessRow \in [NodeIds -> NodeRow]
      /\ accessAgent \in AgentRow /\ accessDisk \in DiskRow /\ call \in CallRow
      /\ issued \in 0 .. MaxIssued /\ accessCrashes \in 0 .. Crashes["access"]
      /\ unsaved \in 0 .. MaxIssued
  BY AccessTypes DEF Access!IInv
<1>1. ASSUME UNCHANGED <<token, accessRow, issued>>, accessAgent' \in AgentRow,
             accessDisk' \in DiskRow, call' \in CallRow,
             accessCrashes' \in 0 .. Crashes["access"],
             unsaved' \in {0, unsaved},
             Access!CopiesAreKept', Access!CallIsServed'
      PROVE  Access!IInv'
  <2>1. Access!TypeOK'
    BY <1>0, <1>1, AccessTypesPrime
  <2>2. Access!TokensNameNodes' /\ Access!DeletedKeepsNoCredential'
    BY <1>1 DEF Access!IInv, Access!TokensNameNodes, Access!DeletedKeepsNoCredential,
                Access!Credential
  <2>3. unsaved' <= issued'
    BY <1>0, <1>1 DEF Access!IInv
  <2> QED
    BY <1>1, <2>1, <2>2, <2>3 DEF Access!IInv
<1>2. Access!NoCall \in CallRow /\ Access!Nothing \in DiskRow /\ Access!NoCall.at = "none"
  BY DEF Access!NoCall, CallRow, Access!Nothing, DiskRow
<1>3. ASSUME call' = Access!NoCall
      PROVE  Access!CallIsServed'
  BY <1>2, <1>3 DEF Access!CallIsServed
<1>4. CASE Access!StartSaved
  <2>1. /\ accessAgent' = [up |-> TRUE, node |-> accessDisk.node, cred |-> accessDisk.cred]
        /\ call' = Access!NoCall /\ accessDisk # Access!Nothing
        /\ UNCHANGED <<token, accessRow, accessDisk, call, issued, accessCrashes, unsaved>>
    BY <1>4 DEF Access!StartSaved
  <2>2. accessAgent' \in AgentRow
    BY <1>0, <2>1 DEF AgentRow, DiskRow
  <2>3. accessDisk = [node |-> accessDisk.node, cred |-> accessDisk.cred]
    BY <1>0 DEF DiskRow
  <2>4. Access!CopiesAreKept'
    BY <2>1, <2>3 DEF Access!IInv, Access!CopiesAreKept, Access!Kept, Access!Nothing,
                      Access!Credential
  <2> QED
    BY <1>0, <1>1, <1>3, <2>1, <2>2, <2>4
<1>5. ASSUME UNCHANGED <<token, accessRow, accessAgent, accessDisk, issued, accessCrashes,
                         unsaved>>,
             call' \in CallRow, Access!CallIsServed'
      PROVE  Access!IInv'
  <2>1. Access!CopiesAreKept'
    BY <1>5 DEF Access!IInv, Access!CopiesAreKept, Access!Kept, Access!Nothing,
                Access!Credential
  <2> QED
    BY <1>0, <1>1, <1>5, <2>1
<1>6. CASE \E t \in Tokens : Access!StartEnroll(t)
  <2> PICK t \in Tokens : Access!StartEnroll(t)
    BY <1>6
  <2>1. /\ call' = [Access!NoCall EXCEPT !.at = "enroll", !.token = t] /\ ~accessAgent.up
        /\ UNCHANGED <<token, accessRow, accessAgent, accessDisk, issued, accessCrashes,
                       unsaved>>
    BY DEF Access!StartEnroll
  <2>2. call' \in CallRow /\ call'.at = "enroll" /\ call'.token = t
    BY <2>1 DEF CallRow, Access!NoCall
  <2>3. Access!CallIsServed'
    BY <2>1, <2>2 DEF Access!CallIsServed
  <2> QED
    BY <1>5, <2>1, <2>2, <2>3
<1>7. CASE Access!RotateAsked
  <2>1. /\ call' = [Access!NoCall EXCEPT !.at = "rotate", !.node = accessAgent.node]
        /\ accessAgent.up /\ issued < MaxIssued
        /\ UNCHANGED <<token, accessRow, accessAgent, accessDisk, issued, accessCrashes,
                       unsaved>>
    BY <1>7 DEF Access!RotateAsked
  <2>2. call' \in CallRow /\ call'.at = "rotate" /\ call'.node = accessAgent.node
    BY <1>0, <2>1 DEF CallRow, AgentRow, Access!NoCall
  <2>3. Access!CallIsServed'
    BY <2>1, <2>2 DEF Access!CallIsServed
  <2> QED
    BY <1>5, <2>1, <2>2, <2>3
<1>8. CASE Access!RotateRefused \/ Access!CallFails
  BY <1>2, <1>3, <1>5, <1>8 DEF Access!RotateRefused, Access!CallFails
<1>9. CASE Access!Enrolled
  <2>1. /\ accessAgent' = [up |-> TRUE, node |-> call.node, cred |-> call.cred]
        /\ accessDisk' = [node |-> call.node, cred |-> call.cred]
        /\ call' = Access!NoCall /\ unsaved' = 0 /\ call.at = "enrolled"
        /\ UNCHANGED <<token, accessRow, issued, accessCrashes>>
    BY <1>9 DEF Access!Enrolled
  <2>2. accessAgent' \in AgentRow /\ accessDisk' \in DiskRow
    BY <1>0, <2>1 DEF AgentRow, DiskRow, CallRow
  <2>4. /\ accessAgent'.node = call.node /\ accessAgent'.cred = call.cred
        /\ accessDisk'.node = call.node /\ accessDisk'.cred = call.cred
    BY <2>1
  <2>5. Access!Kept(accessAgent.node, accessAgent.cred)'
        /\ Access!Kept(accessDisk.node, accessDisk.cred)'
    <3>1. Access!Kept(accessAgent.node, accessAgent.cred)'
      BY <2>1, <2>4 DEF Access!IInv, Access!CallIsServed, Access!Kept, Access!Credential
    <3>2. Access!Kept(accessDisk.node, accessDisk.cred)'
      BY <2>1, <2>4 DEF Access!IInv, Access!CallIsServed, Access!Kept, Access!Credential
    <3> QED
      BY <3>1, <3>2
  <2>6. Access!CopiesAreKept'
    BY <2>1, <2>4, <2>5 DEF Access!CopiesAreKept
  <2> QED
    BY <1>0, <1>1, <1>2, <1>3, <2>1, <2>2, <2>6
<1>10. CASE Access!Rotated
  <2>1. /\ accessAgent' = [accessAgent EXCEPT !.cred = call.cred]
        /\ accessDisk' = [node |-> call.node, cred |-> call.cred]
        /\ call' = Access!NoCall /\ unsaved' = 0 /\ call.at = "rotated"
        /\ UNCHANGED <<token, accessRow, issued, accessCrashes>>
    BY <1>10 DEF Access!Rotated, Access!SaveRotated
  <2>2. accessAgent' \in AgentRow /\ accessDisk' \in DiskRow
    BY <1>0, <2>1 DEF AgentRow, DiskRow, CallRow
  <2>4. /\ accessAgent'.node = call.node /\ accessAgent'.cred = call.cred
        /\ accessDisk'.node = call.node /\ accessDisk'.cred = call.cred
    BY <1>0, <2>1 DEF Access!IInv, Access!CallIsServed, AgentRow
  <2>5. Access!Kept(accessAgent.node, accessAgent.cred)'
        /\ Access!Kept(accessDisk.node, accessDisk.cred)'
    <3>1. Access!Kept(accessAgent.node, accessAgent.cred)'
      BY <2>1, <2>4 DEF Access!IInv, Access!CallIsServed, Access!Kept, Access!Credential
    <3>2. Access!Kept(accessDisk.node, accessDisk.cred)'
      BY <2>1, <2>4 DEF Access!IInv, Access!CallIsServed, Access!Kept, Access!Credential
    <3> QED
      BY <3>1, <3>2
  <2>6. Access!CopiesAreKept'
    BY <2>1, <2>4, <2>5 DEF Access!CopiesAreKept
  <2> QED
    BY <1>0, <1>1, <1>2, <1>3, <2>1, <2>2, <2>6
<1>11. CASE Access!WriteFails
  <2>1. /\ accessDisk' = Access!Nothing /\ call' = Access!NoCall
        /\ UNCHANGED <<token, accessRow, accessAgent, issued, accessCrashes, unsaved>>
    BY <1>11 DEF Access!WriteFails
  <2>2. Access!CopiesAreKept'
    BY <2>1 DEF Access!IInv, Access!CopiesAreKept, Access!Kept, Access!Nothing,
                Access!Credential
  <2> QED
    BY <1>0, <1>1, <1>2, <1>3, <2>1, <2>2
<1>12. CASE Access!Crash
  <2>1. /\ accessAgent' = [up |-> FALSE, node |-> Nobody, cred |-> Nobody]
        /\ call' = Access!NoCall /\ accessCrashes' = accessCrashes + 1
        /\ accessCrashes < Crashes["access"]
        /\ UNCHANGED <<token, accessRow, accessDisk, issued, unsaved>>
    BY <1>12 DEF Access!Crash
  <2>2. accessAgent' \in AgentRow /\ ~accessAgent'.up
    BY <2>1 DEF AgentRow
  <2>3. Access!CopiesAreKept'
    BY <2>1, <2>2 DEF Access!IInv, Access!CopiesAreKept, Access!Kept, Access!Nothing,
                      Access!Credential
  <2>4. accessCrashes' \in 0 .. Crashes["access"]
    BY <1>0, <2>1
  <2> QED
    BY <1>0, <1>1, <1>2, <1>3, <2>1, <2>2, <2>3, <2>4
<1> QED
  BY <1>4, <1>6, <1>7, <1>8, <1>9, <1>10, <1>11, <1>12

(* What the server does for an enrollment and for a rotation. *)
LEMMA ServerSteps ==
  ASSUME Access!IInv, Access!Consume \/ Access!StoreNode \/ Access!RotateStored
  PROVE  Access!IInv'
<1> USE AccessAssumption
<1>0. /\ token \in [Tokens -> TokenRow] /\ accessRow \in [NodeIds -> NodeRow]
      /\ accessAgent \in AgentRow /\ accessDisk \in DiskRow /\ call \in CallRow
      /\ issued \in 0 .. MaxIssued /\ accessCrashes \in 0 .. Crashes["access"]
      /\ unsaved \in 0 .. MaxIssued
  BY AccessTypes DEF Access!IInv
<1>1. Access!NoCall \in CallRow /\ Access!NoCall.at = "none"
  BY DEF Access!NoCall, CallRow
<1>2. ASSUME call' = Access!NoCall,
             UNCHANGED <<token, accessRow, accessAgent, accessDisk, issued, accessCrashes,
                         unsaved>>
      PROVE  Access!IInv'
  <2>1. Access!TypeOK'
    BY <1>0, <1>1, <1>2, AccessTypesPrime
  <2>2. Access!CallIsServed'
    BY <1>1, <1>2 DEF Access!CallIsServed
  <2> QED
    BY <1>2, <2>1, <2>2 DEF Access!IInv, Access!TokensNameNodes,
       Access!DeletedKeepsNoCredential, Access!CopiesAreKept, Access!Kept,
       Access!Nothing, Access!Credential
<1>3. CASE Access!Consume
  <2>1. ASSUME NEW n \in NodeIds, ~accessRow[n].exists,
               \A t \in Tokens : token[t].node # n,
               token[call.token].state = "open", call.at = "enroll",
               token' = [token EXCEPT ![call.token] = [state |-> "used", node |-> n]],
               call' = [call EXCEPT !.at = "store", !.node = n],
               UNCHANGED <<accessRow, accessAgent, accessDisk, issued, accessCrashes,
                           unsaved>>
        PROVE  Access!IInv'
    <3> DEFINE u == [state |-> "used", node |-> n]
               t == call.token
    <3>1. t \in Tokens /\ ~accessAgent.up
      BY <2>1 DEF Access!IInv, Access!CallIsServed
    <3>2. u \in TokenRow /\ u.state = "used" /\ u.node = n
      BY DEF TokenRow
    <3>3. token' = [token EXCEPT ![t] = u]
      BY <2>1
    <3> HIDE DEF u, t
    <3>4. /\ token' \in [Tokens -> TokenRow] /\ token'[t] = u
          /\ \A s \in Tokens \ {t} : token'[s] = token[s]
      BY <1>0, <3>1, <3>2, <3>3
    <3>5. /\ call' \in CallRow /\ call'.at = "store" /\ call'.node = n
          /\ call'.token = t
      BY <1>0, <2>1 DEF CallRow, t
    <3>6. Access!TypeOK'
      BY <1>0, <2>1, <3>4, <3>5, AccessTypesPrime
    <3>7. token[t].node = Nobody
      BY <2>1, <3>1 DEF Access!IInv, Access!TokensNameNodes, t
    <3>8. ASSUME NEW m \in NodeIds, accessRow[m].token # Nobody
          PROVE  accessRow[m].token \in Tokens \ {t}
      BY <1>0, <3>7, <3>8 DEF Access!IInv, Access!TokensNameNodes, NodeRow
    <3>9. Access!TokensNameNodes'
      <4>1. \A s \in Tokens : token'[s].node # Nobody =>
              /\ token'[s].state = "used"
              /\ \A v \in Tokens \ {s} : token'[v].node # token'[s].node
        BY <2>1, <3>2, <3>4 DEF Access!IInv, Access!TokensNameNodes
      <4>2. \A m \in NodeIds : accessRow[m].token # Nobody =>
              token'[accessRow[m].token].node = m
        BY <3>4, <3>8 DEF Access!IInv, Access!TokensNameNodes
      <4> QED
        BY <2>1, <4>1, <4>2 DEF Access!IInv, Access!TokensNameNodes, Access!Credential
    <3>10. Access!CallIsServed'
      BY <2>1, <3>1, <3>2, <3>4, <3>5 DEF Access!CallIsServed
    <3> QED
      BY <2>1, <3>6, <3>9, <3>10 DEF Access!IInv, Access!DeletedKeepsNoCredential,
         Access!CopiesAreKept, Access!Kept, Access!Nothing, Access!Credential
  <2> QED
    BY <1>2, <1>3, <2>1 DEF Access!Consume, Access!ConsumeEnrollmentToken
<1>4. CASE Access!StoreNode
  <2>1. ASSUME issued < MaxIssued, issued' = issued + 1, call.at = "store",
               accessRow' = [accessRow EXCEPT ![call.node] =
                 [@ EXCEPT !.exists = TRUE, !.token = call.token, !.cred = issued + 1]],
               call' = [call EXCEPT !.at = "enrolled", !.cred = issued + 1],
               UNCHANGED <<token, accessAgent, accessDisk, accessCrashes, unsaved>>
        PROVE  Access!IInv'
    <3> DEFINE n == call.node
               t == call.token
               r == [accessRow[n] EXCEPT !.exists = TRUE, !.token = t, !.cred = issued + 1]
    <3>1. /\ n \in NodeIds /\ ~accessRow[n].exists /\ token[t].node = n
          /\ t \in Tokens /\ ~accessAgent.up
      BY <2>1 DEF Access!IInv, Access!CallIsServed
    <3>2. ~accessRow[n].deleted
      BY <3>1 DEF Access!IInv, Access!TokensNameNodes
    <3>3. issued + 1 \in 1 .. MaxIssued
      BY <1>0, <2>1
    <3>4. /\ r \in NodeRow /\ r.exists /\ ~r.deleted /\ r.token = t
          /\ r.cred = issued + 1
      BY <1>0, <3>1, <3>2, <3>3 DEF NodeRow
    <3>5. accessRow' = [accessRow EXCEPT ![n] = r]
      BY <1>0, <2>1, <3>1
    <3>6. /\ call' \in CallRow /\ call'.at = "enrolled" /\ call'.node = n
          /\ call'.token = t /\ call'.cred = issued + 1
      BY <1>0, <2>1, <3>3 DEF CallRow
    <3> HIDE DEF n, t, r
    <3>7. /\ accessRow' \in [NodeIds -> NodeRow] /\ accessRow'[n] = r
          /\ \A m \in NodeIds \ {n} : accessRow'[m] = accessRow[m]
      BY <1>0, <3>1, <3>4, <3>5
    <3>8. Access!TypeOK'
      BY <1>0, <2>1, <3>3, <3>6, <3>7, AccessTypesPrime
    <3>9. Access!TokensNameNodes'
      <4>1. ASSUME NEW m \in NodeIds
            PROVE  /\ accessRow'[m].token # Nobody =>
                        accessRow'[m].exists /\ token[accessRow'[m].token].node = m
                   /\ accessRow'[m].deleted => accessRow'[m].exists
                   /\ accessRow'[m].exists /\ ~accessRow'[m].deleted =>
                        accessRow'[m].cred \in 1 .. MaxIssued
        <5>1. CASE m = n
          BY <3>1, <3>3, <3>4, <3>7, <5>1
        <5>2. CASE m # n
          BY <3>7, <5>2 DEF Access!IInv, Access!TokensNameNodes, Access!Credential
        <5> QED
          BY <5>1, <5>2
      <4> QED
        BY <2>1, <4>1 DEF Access!IInv, Access!TokensNameNodes, Access!Credential
    <3>10. Access!DeletedKeepsNoCredential'
      BY <3>4, <3>7 DEF Access!IInv, Access!DeletedKeepsNoCredential
    <3>11. \A m, c : Access!Kept(m, c) => Access!Kept(m, c)'
      BY <2>1, <3>1, <3>7 DEF Access!Kept, Access!Credential
    <3>12. Access!CopiesAreKept'
      BY <2>1, <3>11 DEF Access!IInv, Access!CopiesAreKept, Access!Nothing
    <3>13. Access!CallIsServed'
      BY <2>1, <3>1, <3>3, <3>4, <3>6, <3>7 DEF Access!CallIsServed, Access!Credential
    <3> QED
      BY <1>0, <2>1, <3>8, <3>9, <3>10, <3>12, <3>13 DEF Access!IInv
  <2> QED
    BY <1>2, <1>4, <2>1 DEF Access!StoreNode
<1>5. CASE Access!RotateStored
  <2> DEFINE n == call.node
             r == [accessRow[n] EXCEPT !.prev = accessRow[n].cred, !.cred = issued + 1,
                                       !.grace = TRUE]
  <2>1. /\ call.at = "rotate" /\ ~accessRow[n].deleted
        /\ accessRow' = [accessRow EXCEPT ![n].prev = accessRow[n].cred,
                            ![n].cred = issued + 1, ![n].grace = TRUE]
        /\ issued' = issued + 1 /\ unsaved' = unsaved + 1
        /\ call' = [call EXCEPT !.at = "rotated", !.cred = issued + 1]
        /\ UNCHANGED <<token, accessAgent, accessDisk, accessCrashes>>
    BY <1>5 DEF Access!RotateStored, Access!RotateNodeCredential
  <2>2. /\ accessAgent.up /\ n = accessAgent.node /\ issued < MaxIssued
    BY <2>1 DEF Access!IInv, Access!CallIsServed
  <2>3. n \in NodeIds /\ accessRow[n].exists
    BY <2>2 DEF Access!IInv, Access!CopiesAreKept, Access!Kept
  <2>4. issued + 1 \in 1 .. MaxIssued /\ accessRow[n].cred \in 1 .. MaxIssued
    BY <1>0, <2>1, <2>2, <2>3 DEF Access!IInv, Access!TokensNameNodes, Access!Credential
  <2>5. /\ r \in NodeRow /\ r.exists /\ ~r.deleted /\ r.token = accessRow[n].token
        /\ r.cred = issued + 1 /\ r.prev = accessRow[n].cred
    BY <1>0, <2>1, <2>3, <2>4 DEF NodeRow
  <2>6. accessRow' = [accessRow EXCEPT ![n] = r]
    BY <1>0, <2>1, <2>3
  <2>7. /\ call' \in CallRow /\ call'.at = "rotated" /\ call'.node = n
        /\ call'.cred = issued + 1
    BY <1>0, <2>1, <2>4 DEF CallRow
  <2> HIDE DEF n, r
  <2>8. /\ accessRow' \in [NodeIds -> NodeRow] /\ accessRow'[n] = r
        /\ \A m \in NodeIds \ {n} : accessRow'[m] = accessRow[m]
    BY <1>0, <2>3, <2>5, <2>6
  <2>9. unsaved' <= issued' /\ unsaved' \in 0 .. MaxIssued /\ issued' \in 0 .. MaxIssued
    BY <1>0, <2>1, <2>2 DEF Access!IInv
  <2>10. Access!TypeOK'
    BY <1>0, <2>1, <2>7, <2>8, <2>9, AccessTypesPrime
  <2>11. Access!TokensNameNodes'
    <3>1. \A m \in NodeIds : /\ accessRow'[m].token = accessRow[m].token
                            /\ accessRow'[m].exists = accessRow[m].exists
                            /\ accessRow'[m].deleted = accessRow[m].deleted
      BY <2>1, <2>3, <2>5, <2>8
    <3> QED
      BY <2>1, <2>4, <2>5, <2>8, <3>1 DEF Access!IInv, Access!TokensNameNodes,
                                          Access!Credential
  <2>12. Access!DeletedKeepsNoCredential'
    BY <2>5, <2>8 DEF Access!IInv, Access!DeletedKeepsNoCredential
  <2>13. \A m, c : m = n /\ Access!Kept(m, c) => Access!Kept(m, c)'
    BY <1>0, <2>1, <2>3, <2>5, <2>8 DEF Access!Kept, Access!Credential
  <2>14. Access!CopiesAreKept'
    BY <2>1, <2>2, <2>13 DEF Access!IInv, Access!CopiesAreKept, Access!Nothing
  <2>15. Access!CallIsServed'
    BY <2>1, <2>2, <2>3, <2>4, <2>5, <2>7, <2>8 DEF Access!CallIsServed, Access!Credential
  <2> QED
    BY <2>9, <2>10, <2>11, <2>12, <2>14, <2>15 DEF Access!IInv
<1> QED
  BY <1>3, <1>4, <1>5

(* An enrollment token brings one node into the registry however often an  *)
(* agent tries again, a deleted node gets no credential again, and an      *)
(* agent keeps its access through a lost answer to a rotation and through  *)
(* its own death (ConsumeEnrollmentToken, RotateNodeCredential,            *)
(* rotateCredential, DeleteNode).                                          *)
THEOREM AccessOutlivesFaults == Spec => []AccessIsKept
<1>1. ASSUME Access!IInv, [Next]_vars
      PROVE  Access!IInv'
  <2>1. CASE part = "access" /\ Access!Next
    BY <1>1, <2>1, OperatorSteps, AgentSteps, ServerSteps DEF Access!Next
  <2>2. CASE UNCHANGED accessVars
    BY <1>1, <2>2 DEF accessVars, Access!IInv, Access!TypeOK, Access!Credential,
       Access!Saved, Access!TokensNameNodes, Access!DeletedKeepsNoCredential,
       Access!CopiesAreKept, Access!Kept, Access!Nothing, Access!CallIsServed
  <2> QED
    BY <1>1, <2>1, <2>2 DEF Next, vars
<1>2. ASSUME Access!IInv
      PROVE  AccessIsKept
  <2>0. accessRow \in [NodeIds -> NodeRow] /\ unsaved \in 0 .. MaxIssued
    BY <1>2, AccessTypes DEF Access!IInv
  <2>1. Access!OneNodePerToken
    BY <1>2 DEF Access!IInv, Access!TokensNameNodes, Access!OneNodePerToken
  <2>2. \A n, c : Access!Kept(n, c) => c # Nobody
    BY AccessAssumption DEF Access!Kept, Access!Credential
  <2>3. Access!OneLostReplyIsSurvived
    <3> SUFFICES ASSUME accessAgent.up, unsaved <= 1,
                        ~accessRow[accessAgent.node].deleted,
                        unsaved = 1 => accessRow[accessAgent.node].grace
                 PROVE  Access!NodeByCredential(accessAgent.node, accessAgent.cred)
      BY DEF Access!OneLostReplyIsSurvived
    <3>1. Access!Kept(accessAgent.node, accessAgent.cred) /\ unsaved \in {0, 1}
      BY <1>2, <2>0 DEF Access!IInv, Access!CopiesAreKept
    <3> QED
      BY <2>2, <3>1 DEF Access!Kept, Access!NodeByCredential
  <2>4. Access!AccessSurvivesRestart
    BY <1>2 DEF Access!IInv, Access!CopiesAreKept, Access!AccessSurvivesRestart
  <2> QED
    BY <1>2, <2>1, <2>3, <2>4 DEF AccessIsKept, Access!IInv
<1> QED
  BY AccessInitially, <1>1, <1>2, PTL DEF Spec

-----------------------------------------------------------------------------
(* The event log. *)

EventsAgent == [at : {"ready", "append", "update", "reply", "off"}, sequence : Nat,
                step : 0 .. 5, result : {"SUCCEEDED", "FAILED"}]

(* What an execution reports is a status or nothing. *)
LEMMA StepsAreStatuses ==
  ASSUME NEW r \in {"SUCCEEDED", "FAILED"}, NEW s \in 0 .. 4
  PROVE  Events!Steps(r)[s + 1] \in Events!JobStatus \cup {Events!NoStatus}
<1>1. s + 1 \in {1, 2, 3, 4, 5}
  OBVIOUS
<1>2. /\ Events!Steps(r)[1] = "PULLING_IMAGE" /\ Events!Steps(r)[2] = "STARTING"
      /\ Events!Steps(r)[3] = "RUNNING" /\ Events!Steps(r)[4] = Events!NoStatus
      /\ Events!Steps(r)[5] = r
  BY DEF Events!Steps
<1> QED
  BY <1>1, <1>2 DEF Events!JobStatus

(* What a step that leaves the log alone has to see to. *)
LEMMA LogUntouched ==
  ASSUME Events!IInv, UNCHANGED <<log, extra>>, status' \in Events!JobStatus,
         eventsAgent' \in EventsAgent,
         eventsJournal' \in [sequence : Nat, step : 0 .. 5],
         viewer' \in [after : Nat, status : Events!JobStatus],
         eventsFaults' \in 0 .. Faults["events"], acked' \in 0 .. 5, died' \in BOOLEAN,
         died => died', acked <= acked',
         Events!AcknowledgedIsLogged', Events!NumbersAreUsedUp',
         Events!StepsAreAcknowledged', Events!OnlyOneIsAhead', Events!AloneItIsItself'
  PROVE  Events!IInv'
<1>1. Events!TypeOK'
  BY DEF Events!IInv, Events!TypeOK, EventsAgent, Events!Result, Events!Row
<1>2. Events!OneNumbering' /\ Events!NoEventTwice'
  BY DEF Events!IInv, Events!OneNumbering, Events!NoEventTwice
<1> QED
  BY <1>1, <1>2 DEF Events!IInv

(* What an append of a new row has to see to. *)
LEMMA LogGrows ==
  ASSUME Events!IInv, NEW row \in Events!Row, row.sequence = Len(log) + 1,
         log' = Append(log, row)
  PROVE  /\ log' \in Seq(Events!Row) /\ Len(log') = Len(log) + 1
         /\ log'[Len(log) + 1] = row /\ \A i \in 1 .. Len(log) : log'[i] = log[i]
         /\ DOMAIN log = 1 .. Len(log) /\ DOMAIN log' = 1 .. (Len(log) + 1)
         /\ Len(log) \in Nat
         /\ Events!OneNumbering'
<1>1. log \in Seq(Events!Row)
  BY DEF Events!IInv, Events!TypeOK
<1>2. /\ log' \in Seq(Events!Row) /\ Len(log') = Len(log) + 1
      /\ log'[Len(log) + 1] = row /\ \A i \in 1 .. Len(log) : log'[i] = log[i]
      /\ DOMAIN log = 1 .. Len(log) /\ DOMAIN log' = 1 .. (Len(log) + 1)
      /\ Len(log) \in Nat
  BY <1>1
<1>3. \A i \in 1 .. Len(log) : log[i].sequence = i
  BY <1>2 DEF Events!IInv, Events!OneNumbering
<1>4. Events!OneNumbering'
  BY <1>2, <1>3 DEF Events!OneNumbering
<1> QED
  BY <1>2, <1>4

LEMMA EventsInitially == Init => Events!IInv
<1> SUFFICES ASSUME Events!Init PROVE Events!IInv
  BY DEF Init
<1> USE FaultsAssumption
<1> DEFINE r == [from |-> "server", sequence |-> 1, step |-> 0, status |-> "QUEUED"]
<1>1. r \in Events!Row /\ r.from = "server" /\ r.sequence = 1 /\ r.step = 0
  BY DEF Events!Row, Events!JobStatus
<1>2. /\ log = <<r>> /\ status = "ASSIGNED"
      /\ extra = 0 /\ eventsFaults = 0 /\ acked = 0 /\ died = FALSE
      /\ \E q \in {"SUCCEEDED", "FAILED"} : eventsAgent =
           [at |-> "ready", sequence |-> Len(log), step |-> 0, result |-> q]
      /\ eventsJournal = [sequence |-> Len(log), step |-> 0]
  BY DEF Events!Init, Events!Given, Events!Result
<1> HIDE DEF r
<1>3. log \in Seq(Events!Row) /\ Len(log) = 1 /\ DOMAIN log = 1 .. 1 /\ log[1] = r
  BY <1>1, <1>2
<1>4. /\ eventsAgent \in EventsAgent /\ eventsAgent.at = "ready"
      /\ eventsAgent.sequence = 1 /\ eventsAgent.step = 0
  BY <1>2, <1>3 DEF EventsAgent
<1>5. /\ eventsJournal \in [sequence : Nat, step : 0 .. 5]
      /\ eventsJournal.sequence = 1 /\ eventsJournal.step = 0
  BY <1>2, <1>3
<1>10. /\ status \in Events!JobStatus /\ viewer \in [after : Nat, status : Events!JobStatus]
       /\ extra \in 0 .. MaxServerEvents /\ eventsFaults \in 0 .. Faults["events"]
       /\ acked = 0 /\ extra = 0 /\ died \in BOOLEAN
  <2>1. viewer = [after |-> 0, status |-> "QUEUED"]
    BY DEF Events!Init
  <2>2. viewer \in [after : Nat, status : Events!JobStatus]
    BY <2>1 DEF Events!JobStatus
  <2>3. /\ status = "ASSIGNED" /\ extra = 0 /\ eventsFaults = 0 /\ acked = 0
        /\ died = FALSE
    BY <1>2
  <2>4. status \in Events!JobStatus
    BY <2>3 DEF Events!JobStatus
  <2>5. extra \in 0 .. MaxServerEvents /\ eventsFaults \in 0 .. Faults["events"]
    BY <2>3
  <2>6. died \in BOOLEAN
    BY <1>2
  <2> QED
    BY <2>2, <2>3, <2>4, <2>5, <2>6
<1>6. Events!TypeOK
  BY <1>3, <1>4, <1>5, <1>10 DEF Events!TypeOK, EventsAgent, Events!Result
<1>7. Events!OneNumbering /\ Events!NoEventTwice /\ Events!AcknowledgedIsLogged
  BY <1>1, <1>3, <1>10 DEF Events!OneNumbering, Events!NoEventTwice,
                           Events!AcknowledgedIsLogged
<1>8. Events!NumbersAreUsedUp /\ Events!StepsAreAcknowledged
  BY <1>3, <1>4, <1>5, <1>10 DEF Events!NumbersAreUsedUp, Events!StepsAreAcknowledged
<1>9. Events!OnlyOneIsAhead /\ Events!AloneItIsItself
  BY <1>1, <1>3, <1>4 DEF Events!OnlyOneIsAhead, Events!AloneItIsItself
<1> QED
  BY <1>6, <1>7, <1>8, <1>9 DEF Events!IInv

LEMMA EventsSteps ==
  ASSUME Events!IInv, Events!Next
  PROVE  Events!IInv'
<1> USE FaultsAssumption
<1>0. /\ log \in Seq(Events!Row) /\ status \in Events!JobStatus
      /\ eventsAgent \in EventsAgent
      /\ eventsJournal \in [sequence : Nat, step : 0 .. 5]
      /\ viewer \in [after : Nat, status : Events!JobStatus]
      /\ extra \in 0 .. MaxServerEvents /\ eventsFaults \in 0 .. Faults["events"]
      /\ acked \in 0 .. 5 /\ died \in BOOLEAN
      /\ Len(log) \in Nat /\ DOMAIN log = 1 .. Len(log)
  BY DEF Events!IInv, Events!TypeOK, EventsAgent, Events!Result
<1>00. /\ eventsAgent \in EventsAgent /\ eventsJournal.sequence \in Nat
       /\ eventsJournal.step \in 0 .. 5
       /\ extra \in 0 .. MaxServerEvents /\ eventsFaults \in 0 .. Faults["events"]
       /\ acked \in 0 .. 5 /\ died \in BOOLEAN /\ Len(log) \in Nat
  BY <1>0
<1>01. \A i \in 1 .. Len(log) : log[i] \in Events!Row
  BY <1>0
<1>02. \A r \in Events!Row :
         r.step \in 0 .. 5 /\ (r.status # Events!NoStatus => r.status \in Events!JobStatus)
  BY DEF Events!Row
<1>03. log # <<>> => Len(log) >= 1
  <2>1. log \in Seq(Events!Row)
    BY <1>0
  <2> QED
    BY <2>1
<1>1. CASE Events!Send
  <2>1. /\ eventsAgent.at = "ready" /\ eventsAgent.step < 5
        /\ UNCHANGED <<log, status, eventsJournal, viewer, extra, eventsFaults, acked, died>>
    BY <1>1 DEF Events!Send
  <2>2. /\ eventsAgent' \in EventsAgent /\ eventsAgent'.at = "append"
        /\ eventsAgent'.sequence = eventsAgent.sequence
        /\ eventsAgent'.step = eventsAgent.step
    BY <1>0, <1>1 DEF EventsAgent, Events!Send
  <2>3. /\ Events!AcknowledgedIsLogged' /\ Events!NumbersAreUsedUp'
        /\ Events!StepsAreAcknowledged' /\ Events!OnlyOneIsAhead'
        /\ Events!AloneItIsItself'
    BY <2>1, <2>2 DEF Events!IInv, Events!AcknowledgedIsLogged, Events!NumbersAreUsedUp,
       Events!StepsAreAcknowledged, Events!OnlyOneIsAhead, Events!AloneItIsItself
  <2>4. acked <= acked'
    BY <1>00, <2>1
  <2> QED
    BY <1>0, <2>1, <2>2, <2>3, <2>4, LogUntouched
<1>2. CASE Events!AgentUpdate
  <2>1. /\ eventsAgent.at = "update"
        /\ status' = status \/ Events!CanTransition(status, status')
        /\ UNCHANGED <<log, eventsJournal, viewer, extra, eventsFaults, acked, died>>
    BY <1>2 DEF Events!AgentUpdate
  <2>2. /\ eventsAgent' \in EventsAgent /\ eventsAgent'.at \in {"reply", "ready"}
        /\ eventsAgent'.sequence = eventsAgent.sequence
        /\ eventsAgent'.step = eventsAgent.step
    <3>1. \/ eventsAgent' = [eventsAgent EXCEPT !.at = "reply"]
          \/ eventsAgent' = [eventsAgent EXCEPT !.at = "ready"]
      BY <1>2 DEF Events!AgentUpdate
    <3>2. CASE eventsAgent' = [eventsAgent EXCEPT !.at = "reply"]
      BY <1>00, <3>2 DEF EventsAgent
    <3>3. CASE eventsAgent' = [eventsAgent EXCEPT !.at = "ready"]
      BY <1>00, <3>3 DEF EventsAgent
    <3> QED
      BY <3>1, <3>2, <3>3
  <2>3. /\ Events!AcknowledgedIsLogged' /\ Events!NumbersAreUsedUp'
        /\ Events!StepsAreAcknowledged' /\ Events!OnlyOneIsAhead'
        /\ Events!AloneItIsItself'
    BY <2>1, <2>2 DEF Events!IInv, Events!AcknowledgedIsLogged, Events!NumbersAreUsedUp,
       Events!StepsAreAcknowledged, Events!OnlyOneIsAhead, Events!AloneItIsItself
  <2>5. acked <= acked'
    BY <1>00, <2>1
  <2>4. status' \in Events!JobStatus
    <3>1. \A s \in Events!JobStatus : Events!Allowed[s] \subseteq Events!JobStatus
      BY DEF Events!Allowed, Events!JobStatus, Events!Terminal
    <3> QED
      BY <1>0, <2>1, <3>1 DEF Events!CanTransition
  <2> QED
    BY <1>0, <2>1, <2>2, <2>3, <2>4, <2>5, LogUntouched
<1>3. CASE Events!Acked
  <2> DEFINE n == eventsAgent.sequence + 1
             s == eventsAgent.step + 1
  <2>1. /\ eventsAgent.at = "reply"
        /\ acked' = IF s > acked THEN s ELSE acked
        /\ UNCHANGED <<log, status, viewer, extra, eventsFaults, died>>
    BY <1>3 DEF Events!Acked, Events!Number
  <2>2. eventsAgent.step \in 0 .. 4 /\ eventsAgent.sequence \in Nat
    BY <1>0, <2>1 DEF Events!IInv, Events!StepsAreAcknowledged, EventsAgent
  <2>3. /\ eventsAgent' \in EventsAgent /\ eventsAgent'.at = "ready"
        /\ eventsAgent'.sequence = n /\ eventsAgent'.step = s
        /\ eventsJournal' \in [sequence : Nat, step : 0 .. 5]
        /\ eventsJournal'.sequence = n /\ eventsJournal'.step = s
    <3>1. eventsAgent' = [eventsAgent EXCEPT !.at = "ready", !.sequence = n, !.step = s]
      BY <1>3 DEF Events!Acked, Events!Number
    <3>2. eventsJournal' = [sequence |-> n, step |-> s]
      BY <1>3 DEF Events!Acked, Events!Number
    <3>3. n \in Nat /\ s \in 0 .. 5
      BY <2>2
    <3> HIDE DEF n, s
    <3>4. /\ eventsAgent' \in EventsAgent /\ eventsAgent'.at = "ready"
          /\ eventsAgent'.sequence = n /\ eventsAgent'.step = s
      BY <1>00, <3>1, <3>3 DEF EventsAgent
    <3> QED
      BY <3>2, <3>3, <3>4
  <2>4. acked' \in 0 .. 5 /\ acked <= acked' /\ s <= acked'
    <3>1. s \in 0 .. 5
      BY <2>2
    <3> QED
      BY <1>00, <2>1, <3>1
  <2>5. Events!NumbersAreUsedUp' /\ Events!StepsAreAcknowledged'
    BY <1>0, <2>1, <2>2, <2>3, <2>4 DEF Events!IInv, Events!NumbersAreUsedUp,
                                        Events!StepsAreAcknowledged
  <2>6. Events!OnlyOneIsAhead'
    <3>1. ASSUME ~died, NEW i \in 1 .. Len(log), log[i].from = "agent"
          PROVE  log[i].step <= s
      <4>1. log[i].step \in 0 .. 5
        <5>1. log[i] \in Events!Row
          BY <1>01
        <5> QED
          BY <1>02, <5>1
      <4> QED
        BY <1>0, <2>2, <3>1, <4>1 DEF Events!IInv, Events!OnlyOneIsAhead
    <3> QED
      BY <1>0, <2>1, <2>3, <3>1 DEF Events!OnlyOneIsAhead
  <2>7. Events!AloneItIsItself'
    BY <1>0, <2>1, <2>2, <2>3, <2>5 DEF Events!IInv, Events!AloneItIsItself
  <2>8. Events!AcknowledgedIsLogged'
    <3> SUFFICES ASSUME extra = 0, NEW a \in 1 .. acked', a > acked
                 PROVE  \E i \in DOMAIN log : log[i].step = a
      BY <1>0, <2>1 DEF Events!IInv, Events!AcknowledgedIsLogged
    <3>1. a = s
      BY <1>0, <2>1, <2>2 DEF Events!IInv, Events!StepsAreAcknowledged
    <3>2. Len(log) = n
      BY <1>0, <2>1, <2>2 DEF Events!IInv, Events!NumbersAreUsedUp, Events!AloneItIsItself
    <3> QED
      BY <1>0, <2>2, <3>1, <3>2 DEF Events!IInv, Events!AloneItIsItself
  <2> QED
    BY <1>0, <2>1, <2>3, <2>4, <2>5, <2>6, <2>7, <2>8, LogUntouched
<1>4. CASE Events!TryLost \/ Events!Crash
  <2>1. /\ eventsFaults < Faults["events"] /\ eventsFaults' = eventsFaults + 1
        /\ died => died'
        /\ UNCHANGED <<log, status, eventsJournal, viewer, extra, acked>>
    BY <1>4 DEF Events!TryLost, Events!Crash
  <2>2. /\ eventsAgent' \in EventsAgent
        /\ eventsAgent'.at = "ready" \/ (eventsAgent'.at = "off" /\ died'
             /\ eventsAgent.step < 5)
        /\ eventsAgent'.sequence = eventsAgent.sequence
        /\ eventsAgent'.step = eventsAgent.step
    <3>1. CASE Events!TryLost
      BY <1>00, <3>1 DEF EventsAgent, Events!TryLost
    <3>2. CASE Events!Crash
      <4>1. eventsAgent.step < 5 /\ died'
        BY <1>00, <3>2 DEF EventsAgent, Events!Crash
      <4>2. /\ eventsAgent' \in EventsAgent /\ eventsAgent'.at = "off"
            /\ eventsAgent'.sequence = eventsAgent.sequence
            /\ eventsAgent'.step = eventsAgent.step
        BY <1>00, <3>2 DEF EventsAgent, Events!Crash
      <4> QED
        BY <4>1, <4>2
    <3> QED
      BY <1>4, <3>1, <3>2
  <2>3. /\ Events!AcknowledgedIsLogged' /\ Events!NumbersAreUsedUp'
        /\ Events!StepsAreAcknowledged' /\ Events!OnlyOneIsAhead'
        /\ Events!AloneItIsItself'
    BY <2>1, <2>2 DEF Events!IInv, Events!AcknowledgedIsLogged, Events!NumbersAreUsedUp,
       Events!StepsAreAcknowledged, Events!OnlyOneIsAhead, Events!AloneItIsItself
  <2>4. eventsFaults' \in 0 .. Faults["events"] /\ acked <= acked'
    BY <1>00, <2>1
  <2>5. died' \in BOOLEAN
    BY <1>00, <1>4 DEF Events!TryLost, Events!Crash
  <2> QED
    BY <1>0, <2>1, <2>2, <2>3, <2>4, <2>5, LogUntouched
<1>5. CASE Events!Restart
  <2>1. /\ eventsAgent.at = "off" /\ eventsJournal.step >= 2
        /\ UNCHANGED <<log, status, eventsJournal, viewer, extra, eventsFaults, acked, died>>
    BY <1>5 DEF Events!Restart
  <2>2. /\ eventsAgent' \in EventsAgent /\ eventsAgent'.at = "ready"
        /\ eventsAgent'.sequence = eventsAgent.sequence /\ eventsAgent'.step = 2
        /\ eventsAgent.step \in 2 .. 4 /\ died /\ eventsAgent.step <= acked
    <3>1. /\ eventsAgent.step \in 2 .. 4 /\ died /\ eventsAgent.step <= acked
          /\ eventsJournal.sequence = eventsAgent.sequence
      BY <1>00, <2>1 DEF EventsAgent, Events!IInv, Events!NumbersAreUsedUp, Events!StepsAreAcknowledged
    <3>2. /\ eventsAgent' \in EventsAgent /\ eventsAgent'.at = "ready"
          /\ eventsAgent'.sequence = eventsJournal.sequence /\ eventsAgent'.step = 2
      <4> DEFINE n == eventsJournal.sequence
                 s == 2
      <4>1. eventsAgent' = [eventsAgent EXCEPT !.at = "ready", !.sequence = n, !.step = s]
        BY <1>5 DEF Events!Restart
      <4>2. n \in Nat /\ s \in 0 .. 5
        BY <1>00
      <4> HIDE DEF n, s
      <4>3. /\ eventsAgent' \in EventsAgent /\ eventsAgent'.at = "ready"
            /\ eventsAgent'.sequence = n /\ eventsAgent'.step = s
        BY <1>00, <4>1, <4>2 DEF EventsAgent
      <4> QED
        BY <4>3 DEF n, s
    <3> QED
      BY <3>1, <3>2
  <2>3. /\ Events!AcknowledgedIsLogged' /\ Events!NumbersAreUsedUp'
        /\ Events!StepsAreAcknowledged' /\ Events!OnlyOneIsAhead'
    <3>1. Events!AcknowledgedIsLogged'
      BY <2>1 DEF Events!IInv, Events!AcknowledgedIsLogged
    <3>2. Events!NumbersAreUsedUp'
      BY <2>1, <2>2 DEF Events!IInv, Events!NumbersAreUsedUp
    <3>3. Events!StepsAreAcknowledged'
      BY <1>00, <2>1, <2>2 DEF Events!IInv, Events!StepsAreAcknowledged
    <3>4. Events!OnlyOneIsAhead'
      BY <2>1, <2>2 DEF Events!OnlyOneIsAhead
    <3> QED
      BY <3>1, <3>2, <3>3, <3>4
  <2>4. Events!AloneItIsItself'
    BY <1>0, <2>1, <2>2 DEF Events!IInv, Events!AloneItIsItself
  <2>5. acked <= acked'
    BY <1>00, <2>1
  <2> QED
    BY <1>0, <2>1, <2>2, <2>3, <2>4, <2>5, LogUntouched
<1>9. CASE Events!Redelivered
  <2>1. /\ eventsAgent.at = "off"
        /\ eventsJournal' = [sequence |-> Len(log), step |-> 0]
        /\ UNCHANGED <<log, status, viewer, extra, eventsFaults, acked, died>>
    BY <1>9 DEF Events!Redelivered, Events!Given
  <2>2. /\ eventsAgent' \in EventsAgent /\ eventsAgent'.at = "ready"
        /\ eventsAgent'.sequence = Len(log) /\ eventsAgent'.step = 0
    <3> DEFINE n == Len(log)
               s == 0
    <3>1. eventsAgent' = [eventsAgent EXCEPT !.at = "ready", !.sequence = n, !.step = s]
      BY <1>9 DEF Events!Redelivered, Events!Given
    <3>2. n \in Nat /\ s \in 0 .. 5
      BY <1>00
    <3> HIDE DEF n, s
    <3>3. /\ eventsAgent' \in EventsAgent /\ eventsAgent'.at = "ready"
          /\ eventsAgent'.sequence = n /\ eventsAgent'.step = s
      BY <1>00, <3>1, <3>2 DEF EventsAgent
    <3> QED
      BY <3>3 DEF n, s
  <2>3. /\ eventsJournal' \in [sequence : Nat, step : 0 .. 5]
        /\ eventsJournal'.sequence = Len(log) /\ eventsJournal'.step = 0
    <3> DEFINE n == Len(log)
    <3>1. n \in Nat /\ eventsJournal' = [sequence |-> n, step |-> 0]
      BY <1>00, <2>1
    <3> HIDE DEF n
    <3>2. /\ eventsJournal' \in [sequence : Nat, step : 0 .. 5]
          /\ eventsJournal'.sequence = n /\ eventsJournal'.step = 0
      BY <3>1
    <3> QED
      BY <3>2 DEF n
  <2>4. died
    BY <2>1 DEF Events!IInv, Events!StepsAreAcknowledged
  <2>5. /\ Events!AcknowledgedIsLogged' /\ Events!NumbersAreUsedUp'
        /\ Events!StepsAreAcknowledged' /\ Events!OnlyOneIsAhead'
    <3>1. Events!AcknowledgedIsLogged'
      BY <2>1 DEF Events!IInv, Events!AcknowledgedIsLogged
    <3>2. Events!NumbersAreUsedUp'
      BY <1>00, <2>1, <2>2, <2>3 DEF Events!NumbersAreUsedUp
    <3>3. Events!StepsAreAcknowledged'
      BY <1>00, <2>1, <2>2, <2>3 DEF Events!StepsAreAcknowledged
    <3>4. Events!OnlyOneIsAhead'
      BY <2>1, <2>4 DEF Events!OnlyOneIsAhead
    <3> QED
      BY <3>1, <3>2, <3>3, <3>4
  <2>6. Events!AloneItIsItself'
    BY <1>00, <2>1, <2>2 DEF Events!AloneItIsItself
  <2>7. acked <= acked'
    BY <1>00, <2>1
  <2> QED
    BY <1>0, <2>1, <2>2, <2>3, <2>5, <2>6, <2>7, LogUntouched
<1>6. CASE Events!View
  <2>1. /\ viewer' \in [after : Nat, status : Events!JobStatus]
        /\ UNCHANGED <<log, status, eventsAgent, eventsJournal, extra, eventsFaults,
                       acked, died>>
    <3> DEFINE shown == {i \in viewer.after + 1 .. Len(log) : log[i].status # Events!NoStatus}
    <3>1. \/ viewer' = [viewer EXCEPT !.after = Len(log)]
          \/ \E i \in shown : viewer' = [after |-> Len(log), status |-> log[i].status]
      BY <1>6 DEF Events!View
    <3>2. ASSUME NEW i \in shown
          PROVE  log[i].status \in Events!JobStatus
      <4>1. viewer.after \in Nat /\ Len(log) \in Nat
        BY <1>0
      <4>2. i \in 1 .. Len(log) /\ log[i].status # Events!NoStatus
        BY <4>1
      <4>3. log[i] \in Events!Row
        BY <1>01, <4>2
      <4> QED
        BY <1>02, <4>2, <4>3
    <3> HIDE DEF shown
    <3>3. viewer' \in [after : Nat, status : Events!JobStatus]
      BY <1>0, <3>1, <3>2
    <3> QED
      BY <1>6, <3>3 DEF Events!View
  <2>2. /\ Events!AcknowledgedIsLogged' /\ Events!NumbersAreUsedUp'
        /\ Events!StepsAreAcknowledged' /\ Events!OnlyOneIsAhead'
        /\ Events!AloneItIsItself'
    BY <2>1 DEF Events!IInv, Events!AcknowledgedIsLogged, Events!NumbersAreUsedUp,
       Events!StepsAreAcknowledged, Events!OnlyOneIsAhead, Events!AloneItIsItself
  <2>3. acked <= acked'
    BY <1>00, <2>1
  <2> QED
    BY <1>0, <2>1, <2>2, <2>3, LogUntouched
<1>7. CASE Events!ServerEvent
  <2> DEFINE row == [from |-> "server", sequence |-> Events!HighestSequence + 1,
                     step |-> 0, status |-> status]
  <2>1. /\ extra < MaxServerEvents /\ extra' = extra + 1 /\ log' = Append(log, row)
        /\ UNCHANGED <<status, eventsAgent, eventsJournal, viewer, eventsFaults, acked, died>>
    BY <1>7 DEF Events!ServerEvent, Events!AppendServerEvent
  <2>2. Events!HighestSequence = Len(log)
    <3>1. Events!Sequences = 1 .. Len(log)
      BY <1>0 DEF Events!IInv, Events!OneNumbering, Events!Sequences
    <3>2. CASE log = <<>>
      BY <3>2 DEF Events!HighestSequence
    <3>3. CASE log # <<>>
      <4> DEFINE m == Len(log)
      <4>1. m \in Nat /\ m \in 1 .. m
        BY <1>00, <1>03, <3>3
      <4> HIDE DEF m
      <4>2. \A x \in 1 .. m : (\A y \in 1 .. m : x >= y) => x = m
        BY <4>1
      <4>3. (CHOOSE x \in 1 .. m : \A y \in 1 .. m : x >= y) = m
        BY <4>1, <4>2
      <4>4. Events!Sequences = 1 .. m
        BY <3>1 DEF m
      <4>5. Events!HighestSequence = m
        BY <3>3, <4>3, <4>4 DEF Events!HighestSequence, Events!Max
      <4> QED
        BY <4>5 DEF m
    <3> QED
      BY <3>2, <3>3
  <2>3. row \in Events!Row /\ row.from = "server" /\ row.sequence = Len(log) + 1
    <3>1. status \in Events!JobStatus \cup {Events!NoStatus} /\ Len(log) + 1 \in Nat
      BY <1>0, <1>00
    <3>2. row = [from |-> "server", sequence |-> Len(log) + 1, step |-> 0,
                 status |-> status]
      BY <2>2
    <3> HIDE DEF row
    <3> QED
      BY <3>1, <3>2 DEF Events!Row
  <2> HIDE DEF row
  <2>4. /\ log' \in Seq(Events!Row) /\ Len(log') = Len(log) + 1
        /\ log'[Len(log) + 1] = row /\ \A i \in 1 .. Len(log) : log'[i] = log[i]
        /\ DOMAIN log' = 1 .. (Len(log) + 1) /\ Events!OneNumbering'
    BY <2>1, <2>3, LogGrows
  <2>5. extra' \in 0 .. MaxServerEvents /\ extra' # 0
    BY <1>0, <2>1
  <2>6. Events!TypeOK'
    BY <1>0, <2>1, <2>4, <2>5 DEF Events!TypeOK, EventsAgent, Events!Result
  <2>7. Events!NoEventTwice'
    BY <1>0, <2>1, <2>3, <2>4 DEF Events!IInv, Events!NoEventTwice
  <2>8. Events!NumbersAreUsedUp' /\ Events!StepsAreAcknowledged'
    BY <1>0, <2>1, <2>4 DEF Events!IInv, Events!NumbersAreUsedUp,
                            Events!StepsAreAcknowledged, EventsAgent
  <2>9. Events!OnlyOneIsAhead'
    BY <1>0, <2>1, <2>3, <2>4 DEF Events!IInv, Events!OnlyOneIsAhead
  <2> QED
    BY <2>4, <2>5, <2>6, <2>7, <2>8, <2>9 DEF Events!IInv, Events!AcknowledgedIsLogged,
                                              Events!AloneItIsItself
<1>8. CASE Events!AgentAppend
  <2> DEFINE n == eventsAgent.sequence + 1
             s == eventsAgent.step + 1
             row == [from |-> "agent", sequence |-> n, step |-> s,
                     status |-> Events!Event]
  <2>1. /\ eventsAgent.at = "append"
        /\ log' = IF n \in Events!Sequences THEN log ELSE Append(log, row)
        /\ UNCHANGED <<status, eventsJournal, viewer, extra, eventsFaults, acked, died>>
    BY <1>8 DEF Events!AgentAppend, Events!AppendEvent, Events!Number
  <2>2. /\ eventsAgent.step \in 0 .. 4 /\ eventsAgent.sequence \in Nat
        /\ eventsAgent.sequence <= Len(log)
    <3>1. eventsAgent.step < 5 /\ eventsAgent.sequence <= Len(log)
      BY <2>1 DEF Events!IInv, Events!StepsAreAcknowledged, Events!NumbersAreUsedUp
    <3>2. eventsAgent.step \in 0 .. 5 /\ eventsAgent.sequence \in Nat
      BY <1>00 DEF EventsAgent
    <3> QED
      BY <3>1, <3>2
  <2>3. /\ eventsAgent' \in EventsAgent /\ eventsAgent'.at \in {"reply", "update"}
        /\ eventsAgent'.sequence = eventsAgent.sequence
        /\ eventsAgent'.step = eventsAgent.step
    <3> DEFINE next == IF Events!Event = Events!NoStatus THEN "reply" ELSE "update"
    <3>1. eventsAgent' = [eventsAgent EXCEPT !.at = next]
      BY <1>8 DEF Events!AgentAppend
    <3>2. next \in {"reply", "update"}
      OBVIOUS
    <3> HIDE DEF next
    <3> QED
      BY <1>00, <3>1, <3>2 DEF EventsAgent
  <2>4. Events!Sequences = 1 .. Len(log)
    BY <1>0 DEF Events!IInv, Events!OneNumbering, Events!Sequences
  <2>5. row \in Events!Row /\ row.from = "agent" /\ row.sequence = n /\ row.step = s
    <3>1. Events!Event \in Events!JobStatus \cup {Events!NoStatus}
      <4>1. eventsAgent.result \in {"SUCCEEDED", "FAILED"}
        BY <1>00 DEF EventsAgent
      <4> QED
        BY <2>2, <4>1, StepsAreStatuses DEF Events!Event
    <3>2. n \in Nat /\ s \in 0 .. 5
      BY <2>2
    <3> HIDE DEF n, s
    <3> QED
      BY <3>1, <3>2 DEF Events!Row
  <2> HIDE DEF row
  <2>6. CASE n <= Len(log)
    <3>1. log' = log
      BY <2>1, <2>2, <2>4, <2>6
    <3>2. /\ Events!AcknowledgedIsLogged' /\ Events!NumbersAreUsedUp'
          /\ Events!StepsAreAcknowledged' /\ Events!OnlyOneIsAhead'
          /\ Events!AloneItIsItself'
      <4>1. /\ Events!AcknowledgedIsLogged' /\ Events!OnlyOneIsAhead'
            /\ Events!AloneItIsItself'
        BY <1>00, <2>1, <2>2, <2>3, <2>6, <3>1 DEF Events!IInv,
           Events!AcknowledgedIsLogged, Events!OnlyOneIsAhead, Events!AloneItIsItself
      <4>2. Events!NumbersAreUsedUp'
        BY <1>00, <2>1, <2>2, <2>3, <2>6, <3>1 DEF Events!IInv, Events!NumbersAreUsedUp
      <4>3. Events!StepsAreAcknowledged'
        BY <2>1, <2>2, <2>3 DEF Events!IInv, Events!StepsAreAcknowledged
      <4> QED
        BY <4>1, <4>2, <4>3
    <3>3. acked <= acked'
      BY <1>00, <2>1
    <3> QED
      BY <1>0, <2>1, <2>3, <3>1, <3>2, <3>3, LogUntouched
  <2>7. CASE n > Len(log)
    <3>1. log' = Append(log, row) /\ n = Len(log) + 1
      BY <1>00, <2>1, <2>2, <2>4, <2>7
    <3>2. /\ log' \in Seq(Events!Row) /\ Len(log') = n
          /\ log'[n] = row /\ \A i \in 1 .. Len(log) : log'[i] = log[i]
          /\ DOMAIN log' = 1 .. n /\ Events!OneNumbering'
      BY <2>5, <3>1, LogGrows
    <3>3. Events!TypeOK'
      BY <1>0, <2>1, <2>3, <3>2 DEF Events!TypeOK, EventsAgent, Events!Result
    <3>4. ASSUME ~died, NEW i \in 1 .. Len(log), log[i].from = "agent"
          PROVE  log[i].step < s /\ log[i].step <= eventsAgent.step
      <4>1. log[i].step \in 0 .. 5
        <5>1. log[i] \in Events!Row
          BY <1>01
        <5> QED
          BY <1>02, <5>1
      <4> QED
        <5>1. i # eventsAgent.sequence + 1
          BY <1>00, <2>2, <3>1
        <5>2. i \in DOMAIN log
          BY <1>0
        <5>3. log[i].step <= eventsAgent.step
          BY <3>4, <5>1, <5>2 DEF Events!IInv, Events!OnlyOneIsAhead
        <5> QED
          BY <2>2, <4>1, <5>3
    <3>5. Events!NoEventTwice'
      <4> SUFFICES ASSUME ~died, NEW i \in 1 .. n, NEW k \in 1 .. n, i < k,
                          log'[i].from = "agent", log'[k].from = "agent"
                   PROVE  log'[i].step < log'[k].step
        BY <2>1, <3>2 DEF Events!NoEventTwice
      <4>1. CASE k = n
        BY <1>0, <2>2, <2>5, <3>1, <3>2, <3>4, <4>1
      <4>2. CASE k < n
        BY <1>0, <2>2, <3>1, <3>2, <4>2 DEF Events!IInv, Events!NoEventTwice
      <4> QED
        BY <2>2, <4>1, <4>2
    <3>6. Events!OnlyOneIsAhead'
      <4> SUFFICES ASSUME ~died, NEW i \in 1 .. n, log'[i].from = "agent"
                   PROVE  \/ log'[i].step <= eventsAgent.step
                          \/ i = n /\ log'[i].step = s
        BY <2>1, <2>3, <3>2 DEF Events!OnlyOneIsAhead
      <4>1. CASE i = n
        BY <2>5, <3>2, <4>1
      <4>2. CASE i # n
        BY <1>0, <3>1, <3>2, <3>4, <4>2
      <4> QED
        BY <4>1, <4>2
    <3>7. Events!NumbersAreUsedUp' /\ Events!StepsAreAcknowledged'
      BY <1>00, <2>1, <2>2, <2>3, <3>1, <3>2 DEF Events!IInv, Events!NumbersAreUsedUp,
                                                Events!StepsAreAcknowledged
    <3>8. Events!AcknowledgedIsLogged'
      BY <1>0, <2>1, <3>1, <3>2 DEF Events!IInv, Events!AcknowledgedIsLogged
    <3>9. Events!AloneItIsItself'
      BY <2>1, <2>2, <2>3, <2>5, <3>2 DEF Events!AloneItIsItself
    <3> QED
      BY <3>2, <3>3, <3>5, <3>6, <3>7, <3>8, <3>9 DEF Events!IInv
  <2> QED
    BY <1>0, <2>2, <2>6, <2>7
<1> QED
  BY <1>1, <1>2, <1>3, <1>4, <1>5, <1>6, <1>7, <1>8, <1>9 DEF Events!Next

(* The two numberings of a job's events make one without gap or            *)
(* repetition, an agent that lives logs no event twice and none out of     *)
(* order, and what it is told was logged is in the log when no event of    *)
(* the server's took its number (AppendEvent, AppendServerEvent, sendEvent)*)
THEOREM EventsOnce == Spec => []EventsAreLoggedOnce
<1>1. ASSUME Events!IInv, [Next]_vars
      PROVE  Events!IInv'
  <2>1. CASE part = "events" /\ Events!Next
    BY <1>1, <2>1, EventsSteps
  <2>2. CASE UNCHANGED eventsVars
    BY <1>1, <2>2 DEF eventsVars, Events!IInv, Events!TypeOK, Events!OneNumbering,
       Events!NoEventTwice, Events!AcknowledgedIsLogged, Events!NumbersAreUsedUp,
       Events!StepsAreAcknowledged, Events!OnlyOneIsAhead, Events!AloneItIsItself
  <2> QED
    BY <1>1, <2>1, <2>2 DEF Next, vars
<1>2. Events!IInv => EventsAreLoggedOnce
  BY DEF Events!IInv, EventsAreLoggedOnce
<1> QED
  BY EventsInitially, <1>1, <1>2, PTL DEF Spec

-----------------------------------------------------------------------------
(* Checkpoints: types. *)

IsPass(p) ==
  /\ p \in [at : {"idle", "file", "send", "stat", "complete", "record"},
            sync : Syncs \cup {0}, todo : SUBSET CheckpointFiles,
            file : CheckpointFiles \cup {0}, size : Nat, write : 0 .. MaxWrites,
            offset : Nat, manifest : {p.manifest}]
  /\ Checkpointing!IsManifest(p.manifest)

LEMMA UnitsOf ==
  ASSUME NEW S, NEW c \in Seq(S)
  PROVE  /\ Len(c) \in Nat /\ DOMAIN c = 1 .. Len(c)
         /\ \A k \in 1 .. Len(c) : c[k] \in S
OBVIOUS

LEMMA PassFields ==
  ASSUME NEW p, IsPass(p)
  PROVE  /\ p.at \in {"idle", "file", "send", "stat", "complete", "record"}
         /\ p.sync \in Syncs \cup {0} /\ p.todo \in SUBSET CheckpointFiles
         /\ p.file \in CheckpointFiles \cup {0} /\ p.size \in Nat
         /\ p.write \in 0 .. MaxWrites /\ p.offset \in Nat
         /\ Checkpointing!IsManifest(p.manifest)
BY DEF IsPass

LEMMA PassGoesTo ==
  ASSUME NEW p, IsPass(p), NEW q,
         NEW a \in {"idle", "file", "send", "stat", "complete", "record"},
         q = [p EXCEPT !.at = a]
  PROVE  /\ IsPass(q) /\ q.at = a /\ q.sync = p.sync /\ q.todo = p.todo
         /\ q.file = p.file /\ q.size = p.size /\ q.write = p.write
         /\ q.offset = p.offset /\ q.manifest = p.manifest
BY DEF IsPass

MovesOn(p, q, a, o) == q = [p EXCEPT !.offset = o, !.at = a]
LEMMA PassSends ==
  ASSUME NEW p, IsPass(p), NEW q, NEW a \in {"send", "stat"}, NEW o \in Nat,
         MovesOn(p, q, a, o)
  PROVE  /\ IsPass(q) /\ q.at = a /\ q.sync = p.sync /\ q.todo = p.todo
         /\ q.file = p.file /\ q.size = p.size /\ q.write = p.write
         /\ q.offset = o /\ q.manifest = p.manifest
BY DEF IsPass, MovesOn

Takes(p, q, a, f, n, o, w) ==
  q = [p EXCEPT !.at = a, !.file = f, !.size = n, !.offset = o, !.write = w]
LEMMA PassTakes ==
  ASSUME NEW p, IsPass(p), NEW q, NEW a \in {"send", "stat"}, NEW o \in Nat,
         NEW f \in CheckpointFiles, NEW n \in Nat, NEW w \in 0 .. MaxWrites,
         Takes(p, q, a, f, n, o, w)
  PROVE  /\ IsPass(q) /\ q.at = a /\ q.sync = p.sync /\ q.todo = p.todo
         /\ q.file = f /\ q.size = n /\ q.write = w
         /\ q.offset = o /\ q.manifest = p.manifest
BY DEF IsPass, Takes

Lists(p, q, t, m) ==
  q = [p EXCEPT !.at = "file", !.todo = t, !.file = 0, !.manifest = m]
LEMMA PassLists ==
  ASSUME NEW p, IsPass(p), NEW q, NEW t \in SUBSET CheckpointFiles, NEW m,
         Checkpointing!IsManifest(m), Lists(p, q, t, m)
  PROVE  /\ IsPass(q) /\ q.at = "file" /\ q.sync = p.sync /\ q.todo = t
         /\ q.manifest = m
<1> DEFINE z == 0
<1>1. q = [p EXCEPT !.at = "file", !.todo = t, !.file = z, !.manifest = m]
  BY DEF Lists
<1>2. z \in CheckpointFiles \cup {0}
  OBVIOUS
<1> HIDE DEF z
<1> QED
  BY <1>1, <1>2 DEF IsPass

LEMMA NoPassIsOne ==
  /\ IsPass(Checkpointing!NoPass) /\ Checkpointing!NoPass.at = "idle"
  /\ Checkpointing!NoPass.todo = {}
  /\ Checkpointing!IsManifest(Checkpointing!NoFiles)
  /\ Checkpointing!IsDirectory(Checkpointing!NoFiles)
  /\ DOMAIN Checkpointing!NoFiles = {}
  /\ Checkpointing!NoPass.manifest = Checkpointing!NoFiles
<1>1. DOMAIN Checkpointing!NoFiles = {}
  BY DEF Checkpointing!NoFiles
<1>2. Checkpointing!NoFiles \in [{} -> Nat] /\ Checkpointing!NoFiles \in [{} -> Checkpointing!Content]
  BY DEF Checkpointing!NoFiles
<1>3. /\ Checkpointing!IsManifest(Checkpointing!NoFiles)
      /\ Checkpointing!IsDirectory(Checkpointing!NoFiles)
  BY <1>1, <1>2 DEF Checkpointing!IsManifest, Checkpointing!IsDirectory
<1> DEFINE m == Checkpointing!NoFiles
<1>4. Checkpointing!NoPass = [at |-> "idle", sync |-> 0, todo |-> {}, file |-> 0,
        size |-> 0, write |-> 0, offset |-> 0, manifest |-> m]
  BY DEF Checkpointing!NoPass
<1> HIDE DEF m
<1>5. Checkpointing!IsManifest(m)
  BY <1>3 DEF m
<1>6. 0 \in 0 .. MaxWrites
  BY CheckpointsAssumption
<1>7. /\ IsPass(Checkpointing!NoPass) /\ Checkpointing!NoPass.at = "idle"
      /\ Checkpointing!NoPass.todo = {} /\ Checkpointing!NoPass.manifest = m
  BY <1>4, <1>5, <1>6 DEF IsPass
<1> QED
  BY <1>1, <1>3, <1>7 DEF m

CheckpointTypes ==
  /\ checkpointsDisk \in [CheckpointFiles ->
       {Checkpointing!Absent} \cup Checkpointing!Content]
  /\ writes \in 0 .. MaxWrites /\ checkpointsFaults \in 0 .. Faults["checkpoints"]
  /\ DOMAIN sync = Syncs /\ DOMAIN staging = Syncs /\ DOMAIN promoted = Syncs
  /\ \A i \in Syncs : /\ sync[i].state \in {"none", "pending", "confirmed"}
                      /\ Checkpointing!IsManifest(sync[i].manifest)
                      /\ Checkpointing!IsDirectory(staging[i])
                      /\ Checkpointing!IsDirectory(promoted[i].files)
                      /\ promoted[i].there \in BOOLEAN
  /\ IsPass(checkpointsPass)
  /\ active \in BOOLEAN /\ rounds \in [Syncs -> 0 .. 2] /\ tainted \subseteq Syncs

LEMMA CheckpointTypesHold ==
  /\ Checkpointing!TypeOK <=> CheckpointTypes /\ Checkpointing!Used <= Limit["checkpoints"]
  /\ Checkpointing!TypeOK' <=>
       CheckpointTypes' /\ Checkpointing!Used' <= Limit["checkpoints"]
BY DEF Checkpointing!TypeOK, CheckpointTypes, IsPass

(* What is stored of one sync, and of all. *)
LEMMA CheckpointSums ==
  ASSUME NEW F, NEW S
  PROVE  Checkpointing!SumFunctionOnSet(F, S) = SumFunctionOnSet(F, S)
BY DEF Checkpointing!SumFunctionOnSet, Checkpointing!FoldFunctionOnSet,
       Checkpointing!MapThenFoldSet, SumFunctionOnSet, FoldFunctionOnSet, MapThenFoldSet

LEMMA DirectorySizes ==
  ASSUME NEW d, Checkpointing!IsDirectory(d)
  PROVE  /\ IsFiniteSet(DOMAIN d)
         /\ \A f \in DOMAIN d : d[f] \in Checkpointing!Content /\ Len(d[f]) \in Nat
                                /\ Checkpointing!SizesOf(d)[f] = Len(d[f])
         /\ Checkpointing!Size(d) = SumFunctionOnSet(Checkpointing!SizesOf(d), DOMAIN d)
         /\ Checkpointing!Size(d) \in Nat
<1>1. IsFiniteSet(DOMAIN d)
  BY CheckpointsAssumption, FS_Subset DEF Checkpointing!IsDirectory
<1>2. \A f \in DOMAIN d : d[f] \in Checkpointing!Content
  BY DEF Checkpointing!IsDirectory
<1>3. \A f \in DOMAIN d : Len(d[f]) \in Nat
  BY <1>2 DEF Checkpointing!Content
<1>4. \A f \in DOMAIN d : Checkpointing!SizesOf(d)[f] = Len(d[f])
  BY DEF Checkpointing!SizesOf
<1>5. Checkpointing!Size(d) = SumFunctionOnSet(Checkpointing!SizesOf(d), DOMAIN d)
  BY CheckpointSums DEF Checkpointing!Size
<1>6. SumFunctionOnSet(Checkpointing!SizesOf(d), DOMAIN d) \in Nat
  BY <1>1, <1>3, <1>4, SumType
<1> QED
  BY <1>1, <1>2, <1>3, <1>4, <1>5, <1>6

(* A directory in which one file is written. *)
LEMMA DirectoryWritten ==
  ASSUME NEW d, Checkpointing!IsDirectory(d), NEW f \in CheckpointFiles,
         NEW c \in Checkpointing!Content, NEW e,
         e = [g \in DOMAIN d \cup {f} |-> IF g = f THEN c ELSE d[g]]
  PROVE  /\ Checkpointing!IsDirectory(e) /\ DOMAIN e = DOMAIN d \cup {f} /\ e[f] = c
         /\ \A g \in DOMAIN d \ {f} : e[g] = d[g]
         /\ f \in DOMAIN d =>
              Checkpointing!Size(e) + Len(d[f]) = Checkpointing!Size(d) + Len(c)
         /\ f \notin DOMAIN d => Checkpointing!Size(e) = Checkpointing!Size(d) + Len(c)
<1>1. /\ DOMAIN e = DOMAIN d \cup {f} /\ e[f] = c
      /\ \A g \in DOMAIN d \ {f} : e[g] = d[g]
  OBVIOUS
<1>2. /\ DOMAIN d \subseteq CheckpointFiles
      /\ \A g \in DOMAIN d : d[g] \in Checkpointing!Content
  BY DEF Checkpointing!IsDirectory
<1>3. e \in [DOMAIN e -> Checkpointing!Content]
  BY <1>1, <1>2
<1>4. Checkpointing!IsDirectory(e)
  BY <1>1, <1>2, <1>3 DEF Checkpointing!IsDirectory
<1> DEFINE D == Checkpointing!SizesOf(d)
           E == Checkpointing!SizesOf(e)
<1>5. /\ IsFiniteSet(DOMAIN d) /\ \A g \in DOMAIN d : D[g] = Len(d[g]) /\ D[g] \in Nat
      /\ Checkpointing!Size(d) = SumFunctionOnSet(D, DOMAIN d)
  BY DirectorySizes
<1>6. /\ \A g \in DOMAIN e : E[g] = Len(e[g]) /\ E[g] \in Nat
      /\ Checkpointing!Size(e) = SumFunctionOnSet(E, DOMAIN e)
  BY <1>4, DirectorySizes
<1> HIDE DEF D, E
<1>7. CASE f \in DOMAIN d
  <2>1. DOMAIN e = DOMAIN d
    BY <1>1, <1>7
  <2>3. \A y \in DOMAIN d : D[y] \in Nat /\ E[y] \in Nat
    BY <1>5, <1>6, <2>1
  <2>4. \A y \in DOMAIN d \ {f} : D[y] = E[y]
    BY <1>1, <1>5, <1>6, <2>1
  <2>2. SumFunctionOnSet(E, DOMAIN d) + D[f] = SumFunctionOnSet(D, DOMAIN d) + E[f]
    BY <1>5, <1>7, <2>3, <2>4, SumChanged
  <2> QED
    BY <1>1, <1>4, <1>5, <1>6, <1>7, <2>1, <2>2
<1>8. CASE f \notin DOMAIN d
  <2>3. \A y \in DOMAIN d \cup {f} : E[y] \in Nat
    BY <1>1, <1>6
  <2>4. \A y \in DOMAIN d : E[y] = D[y]
    BY <1>1, <1>5, <1>6, <1>8
  <2>1. SumFunctionOnSet(E, DOMAIN d \cup {f}) = SumFunctionOnSet(E, DOMAIN d) + E[f]
    BY <1>5, <1>8, <2>3, SumAdd
  <2>2. SumFunctionOnSet(E, DOMAIN d) = SumFunctionOnSet(D, DOMAIN d)
    BY <1>5, <2>4, SumOfEqual
  <2> QED
    BY <1>1, <1>4, <1>5, <1>6, <1>8, <2>1, <2>2
<1> QED
  BY <1>7, <1>8

LEMMA UsedType == CheckpointTypes => Checkpointing!Used \in Nat
<1> SUFFICES ASSUME CheckpointTypes PROVE Checkpointing!Used \in Nat
  OBVIOUS
<1> DEFINE F == [k \in Syncs |-> Checkpointing!Size(staging[k])
                                 + Checkpointing!Size(promoted[k].files)]
<1>1. \A k \in Syncs : /\ Checkpointing!IsDirectory(staging[k])
                       /\ Checkpointing!IsDirectory(promoted[k].files)
  BY DEF CheckpointTypes
<1>2. \A k \in Syncs : /\ Checkpointing!Size(staging[k]) \in Nat
                       /\ Checkpointing!Size(promoted[k].files) \in Nat
  BY <1>1, DirectorySizes
<1>3. \A k \in Syncs : F[k] \in Nat
  BY <1>2
<1>4. Checkpointing!Used = SumFunctionOnSet(F, Syncs)
  BY CheckpointSums DEF Checkpointing!Used
<1> HIDE DEF F
<1> QED
  BY <1>3, <1>4, CheckpointsAssumption, SumType

(* What is stored changes by what one sync's directories change by. *)
LEMMA UsedChanges ==
  ASSUME CheckpointTypes, DOMAIN staging' = Syncs, DOMAIN promoted' = Syncs,
         NEW i \in Syncs,
         Checkpointing!IsDirectory(staging'[i]),
         Checkpointing!IsDirectory(promoted'[i].files),
         \A k \in Syncs \ {i} : staging'[k] = staging[k] /\ promoted'[k] = promoted[k],
         NEW n \in Int,
         Checkpointing!Size(staging'[i]) + Checkpointing!Size(promoted'[i].files) =
           Checkpointing!Size(staging[i]) + Checkpointing!Size(promoted[i].files) + n
  PROVE  Checkpointing!Used \in Nat /\ Checkpointing!Used' = Checkpointing!Used + n
<1> DEFINE F == [k \in Syncs |-> Checkpointing!Size(staging[k])
                                 + Checkpointing!Size(promoted[k].files)]
           G == [k \in Syncs |-> Checkpointing!Size(staging'[k])
                                 + Checkpointing!Size(promoted'[k].files)]
<1>1. \A k \in Syncs : /\ Checkpointing!Size(staging[k]) \in Nat
                       /\ Checkpointing!Size(promoted[k].files) \in Nat
                       /\ Checkpointing!Size(staging'[k]) \in Nat
                       /\ Checkpointing!Size(promoted'[k].files) \in Nat
  <2>1. \A k \in Syncs : /\ Checkpointing!IsDirectory(staging[k])
                         /\ Checkpointing!IsDirectory(promoted[k].files)
    BY DEF CheckpointTypes
  <2>2. \A k \in Syncs : /\ Checkpointing!IsDirectory(staging'[k])
                         /\ Checkpointing!IsDirectory(promoted'[k].files)
    BY <2>1
  <2> QED
    BY <2>1, <2>2, DirectorySizes
<1>2. /\ Checkpointing!Used = SumFunctionOnSet(F, Syncs)
      /\ Checkpointing!Used' = SumFunctionOnSet(G, Syncs)
  BY CheckpointSums DEF Checkpointing!Used
<1>3. \A k \in Syncs : F[k] \in Nat /\ G[k] \in Nat
  BY <1>1
<1>4. \A k \in Syncs \ {i} : F[k] = G[k]
  OBVIOUS
<1>5. G[i] = F[i] + n
  OBVIOUS
<1> HIDE DEF F, G
<1>6. SumFunctionOnSet(G, Syncs) + F[i] = SumFunctionOnSet(F, Syncs) + G[i]
  BY <1>3, <1>4, CheckpointsAssumption, SumChanged
<1>7. SumFunctionOnSet(F, Syncs) \in Nat /\ SumFunctionOnSet(G, Syncs) \in Nat
  BY <1>3, CheckpointsAssumption, SumType
<1>8. F[i] \in Nat /\ G[i] \in Nat
  BY <1>3
<1>9. SumFunctionOnSet(G, Syncs) = SumFunctionOnSet(F, Syncs) + n
  BY <1>5, <1>6, <1>7, <1>8
<1> QED
  BY <1>2, <1>7, <1>9

-----------------------------------------------------------------------------
(* Checkpoints: the steps of the pass. *)

(* What the parts of the invariant about rows, directories and files need  *)
(* while these stay as they are.                                           *)
LEMMA StoreUntouched ==
  ASSUME Checkpointing!IInv, IsPass(checkpointsPass'),
         UNCHANGED <<checkpointsDisk, writes, sync, staging, promoted, active, rounds>>,
         checkpointsFaults' \in 0 .. Faults["checkpoints"],
         tainted \subseteq tainted', tainted' \subseteq Syncs
  PROVE  /\ Checkpointing!TypeOK' /\ Checkpointing!ConfirmedIsPromoted'
         /\ Checkpointing!ManifestIsOfGeneration' /\ Checkpointing!FilesAreWhole'
         /\ Checkpointing!WritesAreWhole' /\ Checkpointing!NothingBefore'
<1>1. CheckpointTypes /\ Checkpointing!Used <= Limit["checkpoints"]
  BY CheckpointTypesHold DEF Checkpointing!IInv
<1>2. CheckpointTypes'
  BY <1>1 DEF CheckpointTypes
<1>3. Checkpointing!Used' = Checkpointing!Used
  BY DEF Checkpointing!Used
<1>4. Checkpointing!TypeOK'
  BY <1>1, <1>2, <1>3, CheckpointTypesHold
<1>5. Checkpointing!ConfirmedIsPromoted' /\ Checkpointing!ManifestIsOfGeneration'
  BY DEF Checkpointing!IInv, Checkpointing!ConfirmedIsPromoted,
         Checkpointing!ManifestIsOfGeneration, Checkpointing!Confirmed
<1>6. Checkpointing!FilesAreWhole' /\ Checkpointing!WritesAreWhole'
      /\ Checkpointing!NothingBefore'
  BY DEF Checkpointing!IInv, Checkpointing!FilesAreWhole, Checkpointing!WritesAreWhole,
         Checkpointing!NothingBefore
<1> QED
  BY <1>4, <1>5, <1>6

LEMMA GivenUp ==
  ASSUME Checkpointing!IInv, checkpointsPass' = Checkpointing!NoPass,
         UNCHANGED <<checkpointsDisk, writes, sync, staging, promoted, active, rounds>>,
         checkpointsFaults' \in 0 .. Faults["checkpoints"],
         tainted \subseteq tainted', tainted' \subseteq Syncs,
         checkpointsPass.at = "record" => checkpointsPass.sync \in tainted'
  PROVE  Checkpointing!IInv'
<1>1. /\ IsPass(checkpointsPass') /\ checkpointsPass'.at = "idle"
      /\ checkpointsPass'.todo = {}
  BY NoPassIsOne
<1>2. Checkpointing!PassGoesOn'
  BY <1>1 DEF Checkpointing!PassGoesOn
<1>3. Checkpointing!PromotedIsRecorded'
  BY <1>1 DEF Checkpointing!IInv, Checkpointing!PromotedIsRecorded
<1>4. /\ Checkpointing!StagedIsListed' /\ Checkpointing!ListedIsWhole'
      /\ Checkpointing!SentIsRecent'
  BY <1>1 DEF Checkpointing!StagedIsListed, Checkpointing!ListedIsWhole,
              Checkpointing!SentIsRecent, Checkpointing!FirstPass
<1> QED
  BY <1>1, <1>2, <1>3, <1>4, StoreUntouched DEF Checkpointing!IInv

LEMMA NextFileStep ==
  ASSUME Checkpointing!IInv, Checkpointing!NextFile
  PROVE  Checkpointing!IInv'
<1> DEFINE s == checkpointsPass.sync
<1>1. CheckpointTypes /\ IsPass(checkpointsPass)
  BY CheckpointTypesHold DEF Checkpointing!IInv, CheckpointTypes
<1>2. /\ checkpointsPass.at = "file"
      /\ UNCHANGED <<checkpointsDisk, writes, sync, staging, promoted, active,
                     checkpointsFaults, rounds, tainted>>
  BY DEF Checkpointing!NextFile
<1>3. /\ checkpointsFaults' \in 0 .. Faults["checkpoints"]
      /\ tainted \subseteq tainted' /\ tainted' \subseteq Syncs
  BY <1>1, <1>2 DEF CheckpointTypes
<1>4. CASE checkpointsPass.todo = {}
           /\ checkpointsPass' = [checkpointsPass EXCEPT !.at = "complete"]
  <2>1. /\ IsPass(checkpointsPass') /\ checkpointsPass'.at = "complete"
        /\ checkpointsPass'.sync = checkpointsPass.sync /\ checkpointsPass'.todo = {}
        /\ checkpointsPass'.manifest = checkpointsPass.manifest
    BY <1>1, <1>4, PassGoesTo
  <2>2. Checkpointing!PassGoesOn' /\ Checkpointing!PromotedIsRecorded'
    BY <1>2, <2>1 DEF Checkpointing!IInv, Checkpointing!PassGoesOn,
                      Checkpointing!PromotedIsRecorded
  <2>3. /\ Checkpointing!StagedIsListed' /\ Checkpointing!ListedIsWhole'
        /\ Checkpointing!SentIsRecent'
    BY <1>2, <2>1 DEF Checkpointing!IInv, Checkpointing!StagedIsListed,
       Checkpointing!ListedIsWhole, Checkpointing!SentIsRecent, Checkpointing!FirstPass,
       Checkpointing!Sending
  <2> QED
    BY <1>2, <1>3, <2>1, <2>2, <2>3, StoreUntouched DEF Checkpointing!IInv
<1>5. CASE checkpointsPass' = Checkpointing!NoPass
  BY <1>2, <1>3, <1>5, GivenUp
<1>6. ASSUME NEW f \in checkpointsPass.todo,
             checkpointsDisk[f] # Checkpointing!Absent,
             NEW a, NEW n, NEW w,
             a = IF checkpointsDisk[f] = <<>> THEN "stat" ELSE "send",
             n = Len(checkpointsDisk[f]), w = Checkpointing!Written(checkpointsDisk[f]),
             Takes(checkpointsPass, checkpointsPass', a, f, n, 0, w)
      PROVE  Checkpointing!IInv'
  <2>1. f \in CheckpointFiles /\ f \notin DOMAIN checkpointsPass.manifest
    BY <1>1, PassFields DEF Checkpointing!IInv, Checkpointing!PassGoesOn
  <2>2. checkpointsDisk[f] \in Seq(1 .. MaxWrites)
    BY <1>1, <1>6, <2>1 DEF CheckpointTypes, Checkpointing!Content
  <2>3. /\ n \in Nat /\ a \in {"send", "stat"}
        /\ n = 0 => a = "stat" /\ w = 0
        /\ n > 0 => w \in 1 .. MaxWrites
    <3> DEFINE d == checkpointsDisk[f]
    <3>1. d \in Seq(1 .. MaxWrites) /\ n = Len(d) /\ w = Checkpointing!Written(d)
      BY <1>6, <2>2
    <3>2. a = IF d = <<>> THEN "stat" ELSE "send"
      BY <1>6
    <3> HIDE DEF d
    <3>3. n \in Nat /\ (n = 0 <=> d = <<>>) /\ (n > 0 => n \in DOMAIN d)
      BY <3>1
    <3>4. n > 0 => /\ d[n] \in 1 .. MaxWrites
                   /\ w = d[n]
      <4>1. n > 0 => d[n] \in 1 .. MaxWrites
        BY <3>1, <3>3, UnitsOf
      <4>2. n > 0 => w = d[n]
        BY <3>1, <3>3 DEF Checkpointing!Written
      <4> QED
        BY <4>1, <4>2
    <3> QED
      BY <3>1, <3>2, <3>3, <3>4 DEF Checkpointing!Written
  <2>4. w \in 0 .. MaxWrites /\ w <= writes
    <3>1. writes \in 0 .. MaxWrites
      BY <1>1 DEF CheckpointTypes
    <3>2. n > 0 => w <= writes
      <4>1. n > 0 => n \in DOMAIN checkpointsDisk[f] /\ w = checkpointsDisk[f][n]
        BY <1>6, <2>2 DEF Checkpointing!Written
      <4> QED
        BY <1>6, <2>1, <4>1 DEF Checkpointing!IInv, Checkpointing!WritesAreWhole
    <3> QED
      BY <2>3, <3>1, <3>2, CheckpointsAssumption
  <2>5. /\ IsPass(checkpointsPass') /\ checkpointsPass'.at = a
        /\ checkpointsPass'.sync = checkpointsPass.sync
        /\ checkpointsPass'.todo = checkpointsPass.todo
        /\ checkpointsPass'.file = f /\ checkpointsPass'.size = n
        /\ checkpointsPass'.write = w
        /\ checkpointsPass'.manifest = checkpointsPass.manifest
    <3>1. 0 \in Nat
      OBVIOUS
    <3> QED
      BY <1>1, <1>6, <2>1, <2>3, <2>4, <3>1, PassTakes
  <2>6. Checkpointing!PassGoesOn' /\ Checkpointing!PromotedIsRecorded'
    BY <1>2, <2>3, <2>5 DEF Checkpointing!IInv, Checkpointing!PassGoesOn,
                            Checkpointing!PromotedIsRecorded
  <2>7. Checkpointing!StagedIsListed' /\ Checkpointing!ListedIsWhole'
    BY <1>2, <2>5 DEF Checkpointing!IInv, Checkpointing!StagedIsListed,
       Checkpointing!ListedIsWhole, Checkpointing!FirstPass, Checkpointing!Sending
  <2>8. Checkpointing!SentIsRecent'
    <3> SUFFICES ASSUME Checkpointing!FirstPass'
                 PROVE  /\ n = 0 => a = "stat"
                        /\ f \notin DOMAIN staging[s]
                        /\ n > 0 => w > 0
                        /\ w <= writes
      BY <1>2, <1>6, <2>3, <2>5 DEF Checkpointing!SentIsRecent, Checkpointing!File
    <3>1. f \notin DOMAIN staging[s]
      BY <1>2, <2>1, <2>5 DEF Checkpointing!IInv, Checkpointing!StagedIsListed,
         Checkpointing!FirstPass, Checkpointing!Sending
    <3> QED
      BY <2>3, <2>4, <3>1
  <2> QED
    BY <1>2, <1>3, <2>5, <2>6, <2>7, <2>8, StoreUntouched DEF Checkpointing!IInv
<1> QED
  BY <1>4, <1>5, <1>6 DEF Checkpointing!NextFile, Checkpointing!GiveUp, Takes

LEMMA StatStep ==
  ASSUME Checkpointing!IInv, Checkpointing!Stat
  PROVE  Checkpointing!IInv'
<1> DEFINE s == checkpointsPass.sync
           f == checkpointsPass.file
           m == [g \in DOMAIN checkpointsPass.manifest \cup {f} |->
                   IF g = f THEN checkpointsPass.size ELSE checkpointsPass.manifest[g]]
           t == checkpointsPass.todo \ {f}
<1>1. CheckpointTypes /\ IsPass(checkpointsPass)
  BY CheckpointTypesHold DEF Checkpointing!IInv, CheckpointTypes
<1>2. /\ checkpointsPass.at = "stat"
      /\ UNCHANGED <<checkpointsDisk, writes, sync, staging, promoted, active,
                     checkpointsFaults, rounds, tainted>>
  BY DEF Checkpointing!Stat
<1>3. /\ checkpointsFaults' \in 0 .. Faults["checkpoints"]
      /\ tainted \subseteq tainted' /\ tainted' \subseteq Syncs
  BY <1>1, <1>2 DEF CheckpointTypes
<1>4. CASE checkpointsPass' = Checkpointing!NoPass
  BY <1>2, <1>3, <1>4, GivenUp
<1>5. CASE Checkpointing!Unchanged
  <2>1. checkpointsPass' = [checkpointsPass EXCEPT !.at = "file", !.todo = t,
                                                   !.file = 0, !.manifest = m]
    BY <1>5 DEF Checkpointing!Stat, Checkpointing!File
  <2>2. /\ s \in Syncs /\ f \in checkpointsPass.todo
        /\ f \in CheckpointFiles
        /\ DOMAIN checkpointsPass.manifest \subseteq CheckpointFiles
        /\ t \in SUBSET CheckpointFiles /\ checkpointsPass.size \in Nat
        /\ \A g \in DOMAIN checkpointsPass.manifest : checkpointsPass.manifest[g] \in Nat
    BY <1>1, <1>2, PassFields DEF Checkpointing!IInv, Checkpointing!PassGoesOn,
       Checkpointing!IsManifest
  <2>3. DOMAIN m = DOMAIN checkpointsPass.manifest \cup {f}
    OBVIOUS
  <2>4. Checkpointing!IsManifest(m)
    BY <2>2, <2>3 DEF Checkpointing!IsManifest
  <2> HIDE DEF m
  <2>5. /\ IsPass(checkpointsPass') /\ checkpointsPass'.at = "file"
        /\ checkpointsPass'.sync = checkpointsPass.sync /\ checkpointsPass'.todo = t
        /\ checkpointsPass'.manifest = m
    <3>1. t \in SUBSET CheckpointFiles
      BY <2>2
    <3>2. Lists(checkpointsPass, checkpointsPass', t, m)
      BY <2>1 DEF Lists
    <3> HIDE DEF t
    <3> QED
      BY <1>1, <2>4, <3>1, <3>2, PassLists
  <2>6. Checkpointing!PassGoesOn' /\ Checkpointing!PromotedIsRecorded'
    BY <1>2, <2>3, <2>5 DEF Checkpointing!IInv, Checkpointing!PassGoesOn,
                            Checkpointing!PromotedIsRecorded
  <2>7. Checkpointing!StagedIsListed' /\ Checkpointing!SentIsRecent'
    BY <1>2, <2>3, <2>5 DEF Checkpointing!IInv, Checkpointing!StagedIsListed,
       Checkpointing!SentIsRecent, Checkpointing!FirstPass, Checkpointing!Sending,
       Checkpointing!File
  <2>8. Checkpointing!ListedIsWhole'
    <3> SUFFICES ASSUME Checkpointing!FirstPass', f \in DOMAIN staging[s]
                 PROVE  Checkpointing!OfOneWrite(staging[s][f])
      BY <1>2, <2>3, <2>5 DEF Checkpointing!IInv, Checkpointing!ListedIsWhole,
                              Checkpointing!FirstPass
    <3> DEFINE d == checkpointsDisk[f]
               w == checkpointsPass.write
               c == staging[s][f]
    <3>1. /\ checkpointsPass.size # 0
          /\ \A k \in DOMAIN c :
               /\ w <= c[k]
               /\ d \notin {Checkpointing!Absent, <<>>} => c[k] <= Checkpointing!Written(d)
      BY <1>2, <2>5 DEF Checkpointing!IInv, Checkpointing!SentIsRecent,
         Checkpointing!FirstPass, Checkpointing!Sending, Checkpointing!File
    <3>2. /\ d # Checkpointing!Absent /\ Len(d) = checkpointsPass.size
          /\ Checkpointing!Written(d) = w
      BY <1>5 DEF Checkpointing!Unchanged, Checkpointing!File
    <3>3. d # <<>>
      BY <3>1, <3>2
    <3>4. c \in Seq(1 .. MaxWrites) /\ w \in 0 .. MaxWrites
      BY <1>1, <2>2, PassFields DEF CheckpointTypes, Checkpointing!IsDirectory,
                                    Checkpointing!Content
    <3> HIDE DEF c, d, w
    <3>5. \A k \in DOMAIN c : c[k] \in 1 .. MaxWrites
      BY <3>4, UnitsOf
    <3>6. \A k \in DOMAIN c : c[k] = w
      BY <3>1, <3>2, <3>3, <3>4, <3>5
    <3> QED
      BY <3>6 DEF Checkpointing!OfOneWrite, c
  <2> QED
    BY <1>2, <1>3, <2>5, <2>6, <2>7, <2>8, StoreUntouched DEF Checkpointing!IInv
<1> QED
  BY <1>4, <1>5 DEF Checkpointing!Stat, Checkpointing!GiveUp

-----------------------------------------------------------------------------
(* Checkpoints: the initial state, the program, the end of the attempt. *)

LEMMA CheckpointsInitially == Init => Checkpointing!IInv
<1> SUFFICES ASSUME Checkpointing!Init PROVE Checkpointing!IInv
  BY DEF Init
<1>1. /\ DOMAIN sync = Syncs /\ DOMAIN staging = Syncs /\ DOMAIN promoted = Syncs
      /\ \A i \in Syncs : /\ sync[i].state = "none"
                           /\ sync[i].manifest = Checkpointing!NoFiles
                           /\ staging[i] = Checkpointing!NoFiles
                           /\ promoted[i].files = Checkpointing!NoFiles
                           /\ promoted[i].there = FALSE
  BY DEF Checkpointing!Init
<1>2. /\ checkpointsPass = Checkpointing!NoPass /\ active = TRUE
      /\ checkpointsFaults = 0 /\ tainted = {} /\ writes = 0
      /\ checkpointsDisk = [f \in CheckpointFiles |-> Checkpointing!Absent]
      /\ rounds = [i \in Syncs |-> 0]
  BY DEF Checkpointing!Init
<1>3. CheckpointTypes
  <2>1. 0 \in 0 .. MaxWrites /\ 0 \in 0 .. Faults["checkpoints"] /\ 0 \in 0 .. 2
    BY CheckpointsAssumption
  <2>2. checkpointsDisk \in [CheckpointFiles ->
          {Checkpointing!Absent} \cup Checkpointing!Content]
    BY <1>2
  <2> QED
    BY <1>1, <1>2, <2>1, <2>2, NoPassIsOne DEF CheckpointTypes
<1>4. Checkpointing!Used = 0
  <2> DEFINE F == [k \in Syncs |-> Checkpointing!Size(staging[k])
                                   + Checkpointing!Size(promoted[k].files)]
  <2>1. Checkpointing!Size(Checkpointing!NoFiles) = 0
    BY NoPassIsOne, DirectorySizes, SumEmpty
  <2>2. \A k \in Syncs : F[k] = 0
    BY <1>1, <2>1
  <2>3. Checkpointing!Used = SumFunctionOnSet(F, Syncs)
    BY CheckpointSums DEF Checkpointing!Used
  <2> HIDE DEF F
  <2> QED
    BY <2>2, <2>3, CheckpointsAssumption, SumOfNone
<1>5. Checkpointing!TypeOK
  BY <1>3, <1>4, CheckpointTypesHold, CheckpointsAssumption
<1>6. /\ Checkpointing!ConfirmedIsPromoted /\ Checkpointing!ManifestIsOfGeneration
      /\ Checkpointing!FilesAreWhole /\ Checkpointing!PromotedIsRecorded
      /\ Checkpointing!NothingBefore
  BY <1>1 DEF Checkpointing!ConfirmedIsPromoted, Checkpointing!ManifestIsOfGeneration,
     Checkpointing!FilesAreWhole, Checkpointing!PromotedIsRecorded,
     Checkpointing!NothingBefore, Checkpointing!Confirmed
<1>7. Checkpointing!PassGoesOn /\ Checkpointing!WritesAreWhole
  BY <1>2, NoPassIsOne DEF Checkpointing!PassGoesOn, Checkpointing!WritesAreWhole
<1>8. /\ Checkpointing!StagedIsListed /\ Checkpointing!ListedIsWhole
      /\ Checkpointing!SentIsRecent
  BY <1>2, NoPassIsOne DEF Checkpointing!StagedIsListed, Checkpointing!ListedIsWhole,
     Checkpointing!SentIsRecent, Checkpointing!FirstPass
<1> QED
  BY <1>5, <1>6, <1>7, <1>8 DEF Checkpointing!IInv

(* A file is rewritten or removed: it is of one write, and of a later one  *)
(* than any unit that was read from it.                                    *)
LEMMA WriteStep ==
  ASSUME Checkpointing!IInv, NEW f \in CheckpointFiles, NEW c,
         c = Checkpointing!Absent \/ c \in Checkpointing!Content,
         c # Checkpointing!Absent => \A k \in DOMAIN c : c[k] = writes + 1,
         writes < MaxWrites, writes' = writes + 1,
         checkpointsDisk' = [checkpointsDisk EXCEPT ![f] = c],
         UNCHANGED <<sync, staging, promoted, checkpointsPass, active, checkpointsFaults,
                     rounds, tainted>>
  PROVE  Checkpointing!IInv'
<1>1. CheckpointTypes /\ Checkpointing!Used <= Limit["checkpoints"]
  BY CheckpointTypesHold DEF Checkpointing!IInv
<1>2. writes \in 0 .. MaxWrites /\ writes' \in 0 .. MaxWrites
  BY <1>1, CheckpointsAssumption DEF CheckpointTypes
<1>3. checkpointsDisk' \in [CheckpointFiles ->
        {Checkpointing!Absent} \cup Checkpointing!Content]
  BY <1>1 DEF CheckpointTypes
<1>4. Checkpointing!TypeOK'
  <2>1. Checkpointing!Used' = Checkpointing!Used
    BY DEF Checkpointing!Used
  <2>2. CheckpointTypes'
    BY <1>1, <1>2, <1>3 DEF CheckpointTypes
  <2> QED
    BY <1>1, <2>1, <2>2, CheckpointTypesHold
<1>5. /\ Checkpointing!ConfirmedIsPromoted' /\ Checkpointing!ManifestIsOfGeneration'
      /\ Checkpointing!FilesAreWhole' /\ Checkpointing!PromotedIsRecorded'
      /\ Checkpointing!NothingBefore'
  BY DEF Checkpointing!IInv, Checkpointing!ConfirmedIsPromoted,
     Checkpointing!ManifestIsOfGeneration, Checkpointing!FilesAreWhole,
     Checkpointing!PromotedIsRecorded, Checkpointing!NothingBefore, Checkpointing!Confirmed
<1>6. Checkpointing!PassGoesOn' /\ Checkpointing!StagedIsListed'
      /\ Checkpointing!ListedIsWhole'
  BY DEF Checkpointing!IInv, Checkpointing!PassGoesOn, Checkpointing!StagedIsListed,
     Checkpointing!ListedIsWhole, Checkpointing!FirstPass, Checkpointing!Sending,
     Checkpointing!File
<1>7. c # Checkpointing!Absent /\ c # <<>> => Checkpointing!Written(c) = writes + 1
  <2> SUFFICES ASSUME c \in Checkpointing!Content, c # <<>>,
                      \A k \in DOMAIN c : c[k] = writes + 1
               PROVE  Checkpointing!Written(c) = writes + 1
    OBVIOUS
  <2>1. Len(c) \in DOMAIN c
    BY DEF Checkpointing!Content
  <2> QED
    BY <2>1 DEF Checkpointing!Written
<1>8. Checkpointing!WritesAreWhole'
  <2> SUFFICES ASSUME NEW g \in CheckpointFiles,
                      checkpointsDisk'[g] # Checkpointing!Absent,
                      NEW k \in DOMAIN checkpointsDisk'[g]
               PROVE  /\ checkpointsDisk'[g][k] = Checkpointing!Written(checkpointsDisk'[g])
                      /\ checkpointsDisk'[g][k] <= writes'
    BY DEF Checkpointing!WritesAreWhole
  <2>1. CASE g = f
    <3>1. checkpointsDisk'[g] = c
      BY <1>1, <2>1 DEF CheckpointTypes
    <3>2. c \in Checkpointing!Content /\ c[k] = writes + 1 /\ c # <<>>
      BY <3>1 DEF Checkpointing!Content
    <3> QED
      BY <1>2, <1>7, <3>1, <3>2
  <2>2. CASE g # f
    <3>1. checkpointsDisk'[g] = checkpointsDisk[g]
      BY <1>1, <2>2 DEF CheckpointTypes
    <3>2. /\ checkpointsDisk[g][k] = Checkpointing!Written(checkpointsDisk[g])
          /\ checkpointsDisk[g][k] <= writes
      BY <3>1 DEF Checkpointing!IInv, Checkpointing!WritesAreWhole
    <3>3. checkpointsDisk[g][k] \in Nat
      <4>1. checkpointsDisk[g] \in Seq(1 .. MaxWrites)
        BY <1>1, <3>1 DEF CheckpointTypes, Checkpointing!Content
      <4>2. \A n \in DOMAIN checkpointsDisk[g] : checkpointsDisk[g][n] \in 1 .. MaxWrites
        BY <4>1, UnitsOf
      <4> QED
        BY <3>1, <4>2
    <3> QED
      BY <1>2, <3>1, <3>2, <3>3
  <2> QED
    BY <2>1, <2>2
<1>9. Checkpointing!SentIsRecent'
  <2> DEFINE s == checkpointsPass.sync
             h == checkpointsPass.file
             d == checkpointsDisk'[h]
             w == checkpointsPass.write
             staged == staging[s][h]
  <2> SUFFICES ASSUME Checkpointing!FirstPass, Checkpointing!Sending
               PROVE  /\ w <= writes'
                      /\ d \notin {Checkpointing!Absent, <<>>} =>
                           w <= Checkpointing!Written(d)
                      /\ h \in DOMAIN staging[s] => \A k \in DOMAIN staged :
                           /\ staged[k] <= writes'
                           /\ d \notin {Checkpointing!Absent, <<>>} =>
                                staged[k] <= Checkpointing!Written(d)
    BY DEF Checkpointing!IInv, Checkpointing!SentIsRecent, Checkpointing!FirstPass,
           Checkpointing!Sending, Checkpointing!File
  <2>1. /\ w <= writes
        /\ checkpointsDisk[h] \notin {Checkpointing!Absent, <<>>} =>
             w <= Checkpointing!Written(checkpointsDisk[h])
        /\ h \in DOMAIN staging[s] => \A k \in DOMAIN staged :
             /\ staged[k] <= writes
             /\ checkpointsDisk[h] \notin {Checkpointing!Absent, <<>>} =>
                  staged[k] <= Checkpointing!Written(checkpointsDisk[h])
    BY DEF Checkpointing!IInv, Checkpointing!SentIsRecent, Checkpointing!File
  <2>2. IsPass(checkpointsPass) /\ s \in Syncs /\ h \in CheckpointFiles
    BY <1>1, PassFields DEF CheckpointTypes, Checkpointing!IInv, Checkpointing!PassGoesOn,
       Checkpointing!FirstPass, Checkpointing!Sending
  <2>3. w \in Nat
    BY <2>2, PassFields
  <2>4. h \in DOMAIN staging[s] => \A k \in DOMAIN staged : staged[k] \in Nat
    <3> SUFFICES ASSUME h \in DOMAIN staging[s]
                 PROVE  \A k \in DOMAIN staged : staged[k] \in Nat
      OBVIOUS
    <3>1. staged \in Seq(1 .. MaxWrites)
      BY <1>1, <2>2 DEF CheckpointTypes, Checkpointing!IsDirectory, Checkpointing!Content
    <3> HIDE DEF staged
    <3>2. \A k \in DOMAIN staged : staged[k] \in 1 .. MaxWrites
      BY <3>1, UnitsOf
    <3> QED
      BY <3>2
  <2>5. IF h = f THEN d = c ELSE d = checkpointsDisk[h]
    BY <1>1, <2>2 DEF CheckpointTypes
  <2> HIDE DEF d, w, staged
  <2> QED
    BY <1>2, <1>7, <2>1, <2>3, <2>4, <2>5
<1> QED
  BY <1>4, <1>5, <1>6, <1>8, <1>9 DEF Checkpointing!IInv

LEMMA ProgramSteps ==
  ASSUME Checkpointing!IInv, NEW f \in CheckpointFiles,
         Checkpointing!WriteFile(f) \/ Checkpointing!RemoveFile(f)
  PROVE  Checkpointing!IInv'
<1>1. CASE Checkpointing!WriteFile(f)
  <2>1. PICK n \in 0 .. 2 :
          checkpointsDisk' = [checkpointsDisk EXCEPT ![f] = [k \in 1 .. n |-> writes + 1]]
    BY <1>1 DEF Checkpointing!WriteFile
  <2> DEFINE c == [k \in 1 .. n |-> writes + 1]
  <2>2. writes + 1 \in 1 .. MaxWrites
    BY <1>1, CheckpointTypesHold, CheckpointsAssumption DEF CheckpointTypes,
       Checkpointing!IInv, Checkpointing!WriteFile
  <2>3. c \in Seq(1 .. MaxWrites) /\ \A k \in DOMAIN c : c[k] = writes + 1
    BY <2>2
  <2> HIDE DEF c
  <2>4. c \in Checkpointing!Content
    BY <2>3 DEF Checkpointing!Content
  <2>5. checkpointsDisk' = [checkpointsDisk EXCEPT ![f] = c]
    BY <2>1 DEF c
  <2> QED
    BY <1>1, <2>3, <2>4, <2>5, WriteStep DEF Checkpointing!WriteFile
<1>2. CASE Checkpointing!RemoveFile(f)
  BY <1>2, WriteStep DEF Checkpointing!RemoveFile
<1> QED
  BY <1>1, <1>2

LEMMA InactiveStep ==
  ASSUME Checkpointing!IInv, Checkpointing!Inactive
  PROVE  Checkpointing!IInv'
<1>1. CheckpointTypes /\ Checkpointing!Used <= Limit["checkpoints"]
  BY CheckpointTypesHold DEF Checkpointing!IInv
<1>2. active' = FALSE /\ UNCHANGED <<checkpointsDisk, writes, sync, staging, promoted,
        checkpointsPass, checkpointsFaults, rounds, tainted>>
  BY DEF Checkpointing!Inactive
<1>3. CheckpointTypes' /\ Checkpointing!Used' = Checkpointing!Used
  BY <1>1, <1>2 DEF CheckpointTypes, Checkpointing!Used
<1>4. Checkpointing!TypeOK'
  BY <1>1, <1>3, CheckpointTypesHold
<1> QED
  BY <1>2, <1>4 DEF Checkpointing!IInv, Checkpointing!ConfirmedIsPromoted,
     Checkpointing!ManifestIsOfGeneration, Checkpointing!FilesAreWhole,
     Checkpointing!PromotedIsRecorded, Checkpointing!NothingBefore, Checkpointing!Confirmed,
     Checkpointing!PassGoesOn, Checkpointing!StagedIsListed, Checkpointing!ListedIsWhole,
     Checkpointing!SentIsRecent, Checkpointing!WritesAreWhole, Checkpointing!FirstPass,
     Checkpointing!Sending, Checkpointing!File

LEMMA RequestStep ==
  ASSUME Checkpointing!IInv, NEW i \in Syncs, Checkpointing!Request(i)
  PROVE  Checkpointing!IInv'
<1>1. CheckpointTypes /\ Checkpointing!Used <= Limit["checkpoints"]
  BY CheckpointTypesHold DEF Checkpointing!IInv
<1> DEFINE r == [state |-> "pending", manifest |-> Checkpointing!NoFiles]
<1>2. /\ sync[i].state = "none" /\ sync' = [sync EXCEPT ![i] = r]
      /\ UNCHANGED <<checkpointsDisk, writes, staging, promoted, checkpointsPass, active,
                     checkpointsFaults, rounds, tainted>>
  BY DEF Checkpointing!Request
<1>3. r.state = "pending" /\ Checkpointing!IsManifest(r.manifest)
  BY NoPassIsOne
<1> HIDE DEF r
<1>4. /\ DOMAIN sync' = Syncs /\ sync'[i] = r
      /\ \A k \in Syncs \ {i} : sync'[k] = sync[k]
  BY <1>1, <1>2 DEF CheckpointTypes
<1>5. CheckpointTypes' /\ Checkpointing!Used' = Checkpointing!Used
  BY <1>1, <1>2, <1>3, <1>4 DEF CheckpointTypes, Checkpointing!Used
<1>6. Checkpointing!TypeOK'
  BY <1>1, <1>5, CheckpointTypesHold
<1>7. /\ Checkpointing!ConfirmedIsPromoted' /\ Checkpointing!ManifestIsOfGeneration'
      /\ Checkpointing!PromotedIsRecorded'
  BY <1>2, <1>3, <1>4 DEF Checkpointing!IInv, Checkpointing!ConfirmedIsPromoted,
     Checkpointing!ManifestIsOfGeneration, Checkpointing!Confirmed,
     Checkpointing!PromotedIsRecorded
<1>8. Checkpointing!PassGoesOn'
  BY <1>2, <1>3, <1>4 DEF Checkpointing!IInv, Checkpointing!PassGoesOn
<1> QED
  BY <1>2, <1>6, <1>7, <1>8 DEF Checkpointing!IInv, Checkpointing!FilesAreWhole,
     Checkpointing!NothingBefore, Checkpointing!StagedIsListed,
     Checkpointing!ListedIsWhole, Checkpointing!SentIsRecent,
     Checkpointing!WritesAreWhole, Checkpointing!FirstPass, Checkpointing!Sending,
     Checkpointing!File

(* A pass begins: before the first one over a sync nothing was staged.     *)
LEMMA BeginStep ==
  ASSUME Checkpointing!IInv, NEW i \in Syncs, Checkpointing!Begin(i)
  PROVE  Checkpointing!IInv'
<1>1. CheckpointTypes /\ Checkpointing!Used <= Limit["checkpoints"]
  BY CheckpointTypesHold DEF Checkpointing!IInv
<1> DEFINE t == Checkpointing!Names(checkpointsDisk)
           p == Checkpointing!NoPass
<1>2. /\ checkpointsPass = p /\ sync[i].state = "pending"
      /\ checkpointsPass' = [p EXCEPT !.at = "file", !.sync = i, !.todo = t]
      /\ rounds' = [rounds EXCEPT ![i] = IF rounds[i] < 2 THEN rounds[i] + 1 ELSE 2]
      /\ UNCHANGED <<checkpointsDisk, writes, sync, staging, promoted, active,
                     checkpointsFaults, tainted>>
  BY DEF Checkpointing!Begin, Checkpointing!IInv, Checkpointing!PassGoesOn
<1>3. t \subseteq CheckpointFiles
  BY <1>1 DEF CheckpointTypes, Checkpointing!Names
<1>4. p.at = "idle" /\ IsPass(p) /\ DOMAIN p.manifest = {}
  BY NoPassIsOne
<1> HIDE DEF t, p
<1>5. /\ IsPass(checkpointsPass') /\ checkpointsPass'.at = "file"
      /\ checkpointsPass'.sync = i /\ checkpointsPass'.todo = t
      /\ checkpointsPass'.manifest = p.manifest
  BY <1>2, <1>3, <1>4 DEF IsPass
<1>6. /\ rounds' \in [Syncs -> 0 .. 2] /\ rounds'[i] # 0
      /\ rounds'[i] = 1 => rounds[i] = 0
      /\ \A k \in Syncs \ {i} : rounds'[k] = rounds[k]
  BY <1>1, <1>2 DEF CheckpointTypes
<1>7. Checkpointing!TypeOK'
  <2>1. CheckpointTypes' /\ Checkpointing!Used' = Checkpointing!Used
    BY <1>1, <1>2, <1>5, <1>6 DEF CheckpointTypes, Checkpointing!Used
  <2> QED
    BY <1>1, <2>1, CheckpointTypesHold
<1>8. /\ Checkpointing!ConfirmedIsPromoted' /\ Checkpointing!ManifestIsOfGeneration'
      /\ Checkpointing!PromotedIsRecorded' /\ Checkpointing!WritesAreWhole'
  BY <1>2, <1>4 DEF Checkpointing!IInv, Checkpointing!ConfirmedIsPromoted,
     Checkpointing!ManifestIsOfGeneration, Checkpointing!Confirmed,
     Checkpointing!PromotedIsRecorded, Checkpointing!WritesAreWhole
<1>9. Checkpointing!FilesAreWhole' /\ Checkpointing!NothingBefore'
  BY <1>2, <1>6 DEF Checkpointing!IInv, Checkpointing!FilesAreWhole,
                    Checkpointing!NothingBefore
<1>10. Checkpointing!PassGoesOn'
  BY <1>2, <1>4, <1>5, <1>6 DEF Checkpointing!IInv, Checkpointing!PassGoesOn
<1>11. /\ Checkpointing!StagedIsListed' /\ Checkpointing!ListedIsWhole'
       /\ Checkpointing!SentIsRecent'
  BY <1>2, <1>4, <1>5, <1>6, NoPassIsOne DEF Checkpointing!IInv,
     Checkpointing!NothingBefore, Checkpointing!StagedIsListed,
     Checkpointing!ListedIsWhole, Checkpointing!SentIsRecent, Checkpointing!FirstPass,
     Checkpointing!Sending
<1> QED
  BY <1>7, <1>8, <1>9, <1>10, <1>11 DEF Checkpointing!IInv

-----------------------------------------------------------------------------
(* Checkpoints: the completion. *)

LEMMA RefusedStep ==
  ASSUME Checkpointing!IInv, Checkpointing!Refused \/ Checkpointing!PassDies
  PROVE  Checkpointing!IInv'
<1>1. CheckpointTypes
  BY CheckpointTypesHold DEF Checkpointing!IInv
<1>2. /\ checkpointsPass' = Checkpointing!NoPass
      /\ UNCHANGED <<checkpointsDisk, writes, sync, staging, promoted, active, rounds>>
  BY DEF Checkpointing!Refused, Checkpointing!PassDies, Checkpointing!GiveUp
<1>3. CASE Checkpointing!Refused
  BY <1>1, <1>2, <1>3, GivenUp DEF Checkpointing!Refused, CheckpointTypes
<1>4. CASE Checkpointing!PassDies
  <2>1. checkpointsPass.sync \in Syncs
    BY <1>4 DEF Checkpointing!PassDies, Checkpointing!IInv, Checkpointing!PassGoesOn
  <2>2. /\ checkpointsFaults' \in 0 .. Faults["checkpoints"]
        /\ tainted' = tainted \cup {checkpointsPass.sync}
    BY <1>1, <1>4, CheckpointsAssumption DEF CheckpointTypes, Checkpointing!PassDies,
       Checkpointing!Fault
  <2> QED
    BY <1>1, <1>2, <2>1, <2>2, GivenUp DEF CheckpointTypes
<1> QED
  BY <1>3, <1>4

(* What the pass staged is promoted: it has the sizes of the manifest and, *)
(* in a first pass, nothing else.                                          *)
LEMMA PromoteStep ==
  ASSUME Checkpointing!IInv, Checkpointing!Promote
  PROVE  Checkpointing!IInv'
<1> DEFINE s == checkpointsPass.sync
<1>1. CheckpointTypes /\ Checkpointing!Used <= Limit["checkpoints"]
      /\ IsPass(checkpointsPass)
  BY CheckpointTypesHold DEF Checkpointing!IInv, CheckpointTypes
<1>2. /\ checkpointsPass.at = "complete" /\ sync[s].state = "pending"
      /\ checkpointsPass' = [checkpointsPass EXCEPT !.at = "record"]
      /\ UNCHANGED <<checkpointsDisk, writes, sync, active, checkpointsFaults, rounds,
                     tainted>>
      /\ s \in Syncs /\ rounds[s] # 0
  BY DEF Checkpointing!Promote, Checkpointing!Accepted, Checkpointing!IInv,
         Checkpointing!PassGoesOn
<1>3. /\ IsPass(checkpointsPass') /\ checkpointsPass'.at = "record"
      /\ checkpointsPass'.sync = s /\ checkpointsPass'.todo = checkpointsPass.todo
      /\ checkpointsPass'.manifest = checkpointsPass.manifest
  BY <1>1, <1>2, PassGoesTo
<1>4. CASE promoted[s].there /\ UNCHANGED <<promoted, staging>>
  <2>1. /\ checkpointsFaults' \in 0 .. Faults["checkpoints"]
        /\ tainted \subseteq tainted' /\ tainted' \subseteq Syncs
    BY <1>1, <1>2 DEF CheckpointTypes
  <2>2. Checkpointing!PassGoesOn' /\ Checkpointing!PromotedIsRecorded'
    BY <1>2, <1>3, <1>4 DEF Checkpointing!IInv, Checkpointing!PassGoesOn,
       Checkpointing!PromotedIsRecorded
  <2>3. /\ Checkpointing!StagedIsListed' /\ Checkpointing!ListedIsWhole'
        /\ Checkpointing!SentIsRecent'
    BY <1>2, <1>3, <1>4 DEF Checkpointing!IInv, Checkpointing!StagedIsListed,
       Checkpointing!ListedIsWhole, Checkpointing!SentIsRecent, Checkpointing!FirstPass,
       Checkpointing!Sending
  <2> QED
    BY <1>2, <1>3, <1>4, <2>1, <2>2, <2>3, StoreUntouched DEF Checkpointing!IInv
<1>5. ASSUME NEW g, g = [there |-> TRUE, files |-> staging[s]],
             ~promoted[s].there,
             Checkpointing!SizesOf(staging[s]) = checkpointsPass.manifest,
             promoted' = [promoted EXCEPT ![s] = g],
             staging' = [staging EXCEPT ![s] = Checkpointing!NoFiles]
      PROVE  Checkpointing!IInv'
  <2>1. /\ DOMAIN staging' = Syncs /\ staging'[s] = Checkpointing!NoFiles
        /\ DOMAIN promoted' = Syncs /\ promoted'[s] = g
        /\ \A k \in Syncs \ {s} : staging'[k] = staging[k] /\ promoted'[k] = promoted[k]
    BY <1>1, <1>2, <1>5 DEF CheckpointTypes
  <2>2. g.there = TRUE /\ g.files = staging[s]
    BY <1>5
  <2>3. /\ Checkpointing!IsDirectory(staging[s])
        /\ Checkpointing!IsDirectory(promoted[s].files)
        /\ Checkpointing!IsDirectory(Checkpointing!NoFiles)
    BY <1>1, <1>2, NoPassIsOne DEF CheckpointTypes
  <2>4. CheckpointTypes'
    BY <1>1, <1>2, <1>3, <2>1, <2>2, <2>3 DEF CheckpointTypes
  <2>5. Checkpointing!Used' <= Limit["checkpoints"]
    <3> DEFINE x == Checkpointing!Size(staging[s])
               y == Checkpointing!Size(promoted[s].files)
    <3>1. x \in Nat /\ y \in Nat
      BY <2>3, DirectorySizes
    <3>2. Checkpointing!Size(staging'[s]) = 0
      BY <2>1, <2>3, NoPassIsOne, DirectorySizes, SumEmpty
    <3>3. Checkpointing!Size(promoted'[s].files) = x
      BY <2>1, <2>2
    <3> HIDE DEF x, y
    <3>4. /\ 0 - y \in Int
          /\ Checkpointing!Size(staging'[s]) + Checkpointing!Size(promoted'[s].files)
             = x + y + (0 - y)
      BY <3>1, <3>2, <3>3
    <3>5. /\ Checkpointing!IsDirectory(staging'[s])
          /\ Checkpointing!IsDirectory(promoted'[s].files)
      BY <2>1, <2>2, <2>3
    <3>6. Checkpointing!Used \in Nat /\ Checkpointing!Used' = Checkpointing!Used + (0 - y)
      BY <1>1, <1>2, <2>1, <3>4, <3>5, UsedChanges DEF x, y
    <3> QED
      BY <1>1, <3>1, <3>6, CheckpointsAssumption
  <2>6. Checkpointing!TypeOK'
    BY <2>4, <2>5, CheckpointTypesHold
  <2>7. /\ Checkpointing!ConfirmedIsPromoted' /\ Checkpointing!ManifestIsOfGeneration'
        /\ Checkpointing!NothingBefore' /\ Checkpointing!WritesAreWhole'
    BY <1>2, <2>1, <2>2 DEF Checkpointing!IInv, Checkpointing!ConfirmedIsPromoted,
       Checkpointing!ManifestIsOfGeneration, Checkpointing!Confirmed,
       Checkpointing!NothingBefore, Checkpointing!WritesAreWhole
  <2>8. Checkpointing!FilesAreWhole'
    <3>1. rounds[s] = 1 =>
            \A f \in DOMAIN staging[s] : Checkpointing!OfOneWrite(staging[s][f])
      BY <1>2 DEF Checkpointing!IInv, Checkpointing!StagedIsListed,
         Checkpointing!ListedIsWhole, Checkpointing!FirstPass, Checkpointing!Sending
    <3> QED
      BY <1>2, <2>1, <2>2, <3>1 DEF Checkpointing!IInv, Checkpointing!FilesAreWhole
  <2>9. Checkpointing!PassGoesOn' /\ Checkpointing!PromotedIsRecorded'
    BY <1>2, <1>3, <1>5, <2>1, <2>2 DEF Checkpointing!IInv, Checkpointing!PassGoesOn,
       Checkpointing!PromotedIsRecorded
  <2>10. /\ Checkpointing!StagedIsListed' /\ Checkpointing!ListedIsWhole'
         /\ Checkpointing!SentIsRecent'
    BY <1>3, <2>1, NoPassIsOne DEF Checkpointing!StagedIsListed,
       Checkpointing!ListedIsWhole, Checkpointing!SentIsRecent, Checkpointing!FirstPass,
       Checkpointing!Sending
  <2> QED
    BY <2>6, <2>7, <2>8, <2>9, <2>10 DEF Checkpointing!IInv
<1> QED
  BY <1>4, <1>5 DEF Checkpointing!Promote, Checkpointing!ConfirmCheckpoint

LEMMA RecordStep ==
  ASSUME Checkpointing!IInv, Checkpointing!Record
  PROVE  Checkpointing!IInv'
<1> DEFINE s == checkpointsPass.sync
           r == [state |-> "confirmed", manifest |-> checkpointsPass.manifest]
<1>1. CheckpointTypes /\ Checkpointing!Used <= Limit["checkpoints"]
      /\ IsPass(checkpointsPass)
  BY CheckpointTypesHold DEF Checkpointing!IInv, CheckpointTypes
<1>2. /\ checkpointsPass.at = "record" /\ sync[s].state = "pending"
      /\ checkpointsPass' = Checkpointing!NoPass /\ sync' = [sync EXCEPT ![s] = r]
      /\ UNCHANGED <<checkpointsDisk, writes, staging, promoted, active,
                     checkpointsFaults, rounds, tainted>>
      /\ s \in Syncs /\ promoted[s].there
  BY DEF Checkpointing!Record, Checkpointing!GiveUp, Checkpointing!IInv,
         Checkpointing!PassGoesOn
<1>3. r.state = "confirmed" /\ r.manifest = checkpointsPass.manifest
  OBVIOUS
<1> HIDE DEF r
<1>4. Checkpointing!IsManifest(r.manifest) /\ IsPass(checkpointsPass')
      /\ checkpointsPass'.at = "idle" /\ checkpointsPass'.todo = {}
  BY <1>1, <1>2, <1>3, NoPassIsOne, PassFields
<1>5. /\ DOMAIN sync' = Syncs /\ sync'[s] = r
      /\ \A k \in Syncs \ {s} : sync'[k] = sync[k]
  BY <1>1, <1>2 DEF CheckpointTypes
<1>6. Checkpointing!TypeOK'
  <2>1. CheckpointTypes' /\ Checkpointing!Used' = Checkpointing!Used
    BY <1>1, <1>2, <1>3, <1>4, <1>5 DEF CheckpointTypes, Checkpointing!Used
  <2> QED
    BY <1>1, <2>1, CheckpointTypesHold
<1>7. Checkpointing!ConfirmedIsPromoted'
  BY <1>2, <1>5 DEF Checkpointing!IInv, Checkpointing!ConfirmedIsPromoted,
                    Checkpointing!Confirmed
<1>8. Checkpointing!ManifestIsOfGeneration' /\ Checkpointing!PromotedIsRecorded'
  BY <1>2, <1>3, <1>5 DEF Checkpointing!IInv, Checkpointing!ManifestIsOfGeneration,
     Checkpointing!PromotedIsRecorded, Checkpointing!Confirmed
<1>9. /\ Checkpointing!FilesAreWhole' /\ Checkpointing!NothingBefore'
      /\ Checkpointing!WritesAreWhole'
  BY <1>2 DEF Checkpointing!IInv, Checkpointing!FilesAreWhole,
              Checkpointing!NothingBefore, Checkpointing!WritesAreWhole
<1>10. /\ Checkpointing!PassGoesOn' /\ Checkpointing!StagedIsListed'
       /\ Checkpointing!ListedIsWhole' /\ Checkpointing!SentIsRecent'
  BY <1>2, <1>4 DEF Checkpointing!PassGoesOn, Checkpointing!StagedIsListed,
     Checkpointing!ListedIsWhole, Checkpointing!SentIsRecent, Checkpointing!FirstPass
<1> QED
  BY <1>6, <1>7, <1>8, <1>9, <1>10 DEF Checkpointing!IInv

-----------------------------------------------------------------------------
(* Checkpoints: a chunk is stored. *)

(* What is staged of the file becomes c: n units more, the new one being   *)
(* what the file has at the pass's offset.                                 *)
StagedNow == Checkpointing!Staged(checkpointsPass.sync, checkpointsPass.file)
FileNow == checkpointsDisk[checkpointsPass.file]
StoresChunk(c, n) ==
  /\ Checkpointing!Staging(checkpointsPass.sync, checkpointsPass.file, c)
  /\ c \in Checkpointing!Content /\ n \in {0, 1} /\ Len(c) = Len(StagedNow) + n
  /\ n = 1 => Checkpointing!Used < Limit["checkpoints"]
  /\ \A k \in DOMAIN c : \/ k \in DOMAIN StagedNow /\ c[k] = StagedNow[k]
                         \/ FileNow # <<>> /\ c[k] = Checkpointing!Written(FileNow)

Sends ==
  /\ checkpointsPass.at = "send" /\ FileNow # Checkpointing!Absent
  /\ Len(FileNow) > checkpointsPass.offset

(* While a chunk is sent the pass is over a pending sync. *)
LEMMA Sending ==
  ASSUME Checkpointing!IInv, Sends
  PROVE  /\ CheckpointTypes /\ Checkpointing!Used <= Limit["checkpoints"]
         /\ IsPass(checkpointsPass) /\ checkpointsPass.sync \in Syncs
         /\ checkpointsPass.file \in checkpointsPass.todo
         /\ checkpointsPass.file \in CheckpointFiles
         /\ checkpointsPass.file \notin DOMAIN checkpointsPass.manifest
         /\ sync[checkpointsPass.sync].state = "pending" /\ rounds[checkpointsPass.sync] # 0
         /\ checkpointsPass.offset \in Nat /\ checkpointsPass.size \in Nat
         /\ FileNow \in Checkpointing!Content
         /\ Checkpointing!IsDirectory(staging[checkpointsPass.sync])
         /\ StagedNow \in Checkpointing!Content
<1>1. CheckpointTypes /\ Checkpointing!Used <= Limit["checkpoints"]
      /\ IsPass(checkpointsPass)
  BY CheckpointTypesHold DEF Checkpointing!IInv, CheckpointTypes
<1>2. /\ checkpointsPass.sync \in Syncs /\ rounds[checkpointsPass.sync] # 0
      /\ sync[checkpointsPass.sync].state = "pending"
      /\ checkpointsPass.file \in checkpointsPass.todo
      /\ checkpointsPass.file \notin DOMAIN checkpointsPass.manifest
  BY DEF Checkpointing!IInv, Checkpointing!PassGoesOn, Sends
<1>3. /\ checkpointsPass.file \in CheckpointFiles
      /\ checkpointsPass.offset \in Nat /\ checkpointsPass.size \in Nat
  BY <1>1, <1>2, PassFields
<1>4. FileNow \in Checkpointing!Content
  BY <1>1, <1>3 DEF CheckpointTypes, Sends, FileNow
<1>5. Checkpointing!IsDirectory(staging[checkpointsPass.sync])
  BY <1>1, <1>2 DEF CheckpointTypes
<1>6. StagedNow \in Checkpointing!Content
  <2>1. <<>> \in Checkpointing!Content
    BY DEF Checkpointing!Content
  <2>2. checkpointsPass.file \in DOMAIN staging[checkpointsPass.sync] =>
          staging[checkpointsPass.sync][checkpointsPass.file] \in Checkpointing!Content
    BY <1>5, DirectorySizes
  <2> QED
    BY <2>1, <2>2 DEF StagedNow, Checkpointing!Staged
<1> QED
  BY <1>1, <1>2, <1>3, <1>4, <1>5, <1>6

(* AppendCheckpoint while the attempt may write: a refusal changes nothing *)
(* that was staged, a chunk is taken only below the limit.                 *)
LEMMA ChunkIsStored ==
  ASSUME Checkpointing!IInv, Sends, NEW reply,
         reply = Checkpointing!AppendCheckpoint(checkpointsPass.sync, checkpointsPass.file,
                   checkpointsPass.offset, <<FileNow[checkpointsPass.offset + 1]>>),
         Checkpointing!Staging(checkpointsPass.sync, checkpointsPass.file, reply.staged)
  PROVE  /\ \E n : StoresChunk(reply.staged, n)
         /\ reply.next \in Nat
<1> DEFINE u == FileNow[checkpointsPass.offset + 1]
           o == checkpointsPass.offset
           d == FileNow
           c == StagedNow
<1>1. o \in Nat /\ d \in Seq(1 .. MaxWrites) /\ c \in Seq(1 .. MaxWrites)
  BY Sending DEF Checkpointing!Content
<1>2. o + 1 \in DOMAIN d /\ u = d[o + 1] /\ u \in 1 .. MaxWrites /\ d # <<>>
  <2>1. Len(d) > o
    BY DEF Sends
  <2> HIDE DEF d, o
  <2>2. o + 1 \in 1 .. Len(d) /\ d # <<>>
    BY <1>1, <2>1, UnitsOf
  <2>3. o + 1 \in DOMAIN d /\ d[o + 1] \in 1 .. MaxWrites
    BY <1>1, <2>2, UnitsOf
  <2> QED
    BY <2>2, <2>3 DEF d, o
<1>3. u = Checkpointing!Written(d)
  BY <1>2, Sending DEF Checkpointing!IInv, Checkpointing!WritesAreWhole, Sends, FileNow
<1>4. \/ reply.staged = c /\ reply.next \in {0, Len(c), o}
      \/ /\ ~(Checkpointing!Used >= Limit["checkpoints"])
         /\ reply.staged = c \o <<u>> /\ reply.next = o + Len(<<u>>)
  BY DEF Checkpointing!AppendCheckpoint, StagedNow
<1>5. Len(c) \in Nat /\ Len(<<u>>) = 1
  BY <1>1
<1>6. reply.next \in Nat
  BY <1>1, <1>4, <1>5
<1>7. CASE reply.staged = c
  <2>1. StoresChunk(reply.staged, 0)
    BY <1>1, <1>5, <1>7 DEF StoresChunk, Checkpointing!Content
  <2> QED
    BY <1>6, <2>1
<1>8. CASE ~(Checkpointing!Used >= Limit["checkpoints"]) /\ reply.staged = c \o <<u>>
  <2> DEFINE e == c \o <<u>>
  <2> HIDE DEF u, c, d
  <2>1. /\ e \in Seq(1 .. MaxWrites) /\ Len(e) = Len(c) + 1
        /\ \A k \in DOMAIN e : (k \in DOMAIN c /\ e[k] = c[k]) \/ e[k] = u
    BY <1>1, <1>2
  <2>2. Checkpointing!Used < Limit["checkpoints"]
    <3>1. Checkpointing!Used \in Nat
      BY UsedType, Sending
    <3> QED
      BY <1>8, <3>1, CheckpointsAssumption
  <2> HIDE DEF e
  <2>3. StoresChunk(e, 1)
    BY <1>2, <1>3, <1>8, <2>1, <2>2 DEF StoresChunk, Checkpointing!Content, c, d, e
  <2> QED
    BY <1>6, <1>8, <2>3 DEF e
<1> QED
  BY <1>4, <1>7, <1>8

(* What a stored chunk leaves of the rows and directories. *)
LEMMA ChunkKeepsStore ==
  ASSUME Checkpointing!IInv, Sends, NEW c, NEW n, StoresChunk(c, n),
         UNCHANGED <<checkpointsDisk, writes, sync, promoted, active, rounds>>,
         IsPass(checkpointsPass'), checkpointsFaults' \in 0 .. Faults["checkpoints"],
         tainted \subseteq tainted', tainted' \subseteq Syncs
  PROVE  /\ Checkpointing!TypeOK' /\ Checkpointing!ConfirmedIsPromoted'
         /\ Checkpointing!ManifestIsOfGeneration' /\ Checkpointing!FilesAreWhole'
         /\ Checkpointing!WritesAreWhole' /\ Checkpointing!NothingBefore'
         /\ DOMAIN staging'[checkpointsPass.sync] =
              DOMAIN staging[checkpointsPass.sync] \cup {checkpointsPass.file}
         /\ staging'[checkpointsPass.sync][checkpointsPass.file] = c
         /\ \A g \in DOMAIN staging[checkpointsPass.sync] \ {checkpointsPass.file} :
              staging'[checkpointsPass.sync][g] = staging[checkpointsPass.sync][g]
<1> DEFINE s == checkpointsPass.sync
           h == checkpointsPass.file
           d == staging[s]
<1>0. PICK e : e = [g \in DOMAIN d \cup {h} |-> IF g = h THEN c ELSE d[g]]
  OBVIOUS
<1>1. /\ CheckpointTypes /\ Checkpointing!Used <= Limit["checkpoints"]
      /\ s \in Syncs /\ h \in CheckpointFiles /\ rounds[s] # 0
      /\ sync[s].state = "pending"
      /\ Checkpointing!IsDirectory(d) /\ StagedNow \in Checkpointing!Content
  BY Sending
<1>2. staging' = [staging EXCEPT ![s] = e]
  BY <1>0 DEF StoresChunk, Checkpointing!Staging
<1>3. /\ c \in Checkpointing!Content /\ n \in {0, 1} /\ Len(c) = Len(StagedNow) + n
      /\ n = 1 => Checkpointing!Used < Limit["checkpoints"]
  BY DEF StoresChunk
<1>4. IF h \in DOMAIN d THEN StagedNow = d[h] ELSE StagedNow = <<>>
  BY DEF StagedNow, Checkpointing!Staged
<1>5. /\ Checkpointing!IsDirectory(e) /\ DOMAIN e = DOMAIN d \cup {h} /\ e[h] = c
      /\ \A g \in DOMAIN d \ {h} : e[g] = d[g]
      /\ h \in DOMAIN d => Checkpointing!Size(e) + Len(d[h]) = Checkpointing!Size(d) + Len(c)
      /\ h \notin DOMAIN d => Checkpointing!Size(e) = Checkpointing!Size(d) + Len(c)
  <2>1. /\ Checkpointing!IsDirectory(d) /\ h \in CheckpointFiles
        /\ c \in Checkpointing!Content
        /\ e = [g \in DOMAIN d \cup {h} |-> IF g = h THEN c ELSE d[g]]
    BY <1>0, <1>1, <1>3
  <2> HIDE DEF d, h, s
  <2> QED
    BY <2>1, DirectoryWritten
<1>6. /\ DOMAIN staging' = Syncs /\ staging'[s] = e
      /\ \A k \in Syncs \ {s} : staging'[k] = staging[k]
  BY <1>1, <1>2 DEF CheckpointTypes
<1>7. CheckpointTypes'
  BY <1>1, <1>5, <1>6 DEF CheckpointTypes
<1>8. Checkpointing!Used' <= Limit["checkpoints"]
  <2> DEFINE x == Checkpointing!Size(promoted[s].files)
             y == Checkpointing!Size(d)
             z == Checkpointing!Size(e)
             l == Len(StagedNow)
  <2>1. /\ Checkpointing!IsDirectory(promoted[s].files)
        /\ Checkpointing!IsDirectory(staging'[s])
        /\ Checkpointing!IsDirectory(promoted'[s].files)
    BY <1>1, <1>5, <1>6 DEF CheckpointTypes
  <2>2. x \in Nat /\ y \in Nat /\ z \in Nat /\ l \in Nat
    BY <1>1, <1>5, <2>1, DirectorySizes DEF Checkpointing!Content
  <2>3. z + l = y + (l + n)
    <3>1. CASE h \in DOMAIN d
      BY <1>3, <1>4, <1>5, <3>1
    <3>2. CASE h \notin DOMAIN d
      <4>1. l = 0
        BY <1>4, <3>2
      <4> HIDE DEF y, z, l
      <4> QED
        BY <1>3, <1>5, <2>2, <3>2, <4>1 DEF y, z, l
    <3> QED
      BY <3>1, <3>2
  <2>4. n \in Int
    BY <1>3
  <2>5. Checkpointing!Size(staging'[s]) = z /\ Checkpointing!Size(promoted'[s].files) = x
    BY <1>6
  <2> HIDE DEF x, y, z, l
  <2>6. Checkpointing!Size(staging'[s]) + Checkpointing!Size(promoted'[s].files) = y + x + n
    BY <2>2, <2>3, <2>4, <2>5
  <2>7. Checkpointing!Used \in Nat /\ Checkpointing!Used' = Checkpointing!Used + n
    BY <1>1, <1>6, <1>7, <2>1, <2>4, <2>6, UsedChanges DEF CheckpointTypes, x, y
  <2> QED
    BY <1>1, <1>3, <2>7, CheckpointsAssumption
<1>9. Checkpointing!TypeOK'
  BY <1>7, <1>8, CheckpointTypesHold
<1>10. /\ Checkpointing!ConfirmedIsPromoted' /\ Checkpointing!ManifestIsOfGeneration'
       /\ Checkpointing!FilesAreWhole' /\ Checkpointing!WritesAreWhole'
       /\ Checkpointing!NothingBefore'
  BY <1>1, <1>6 DEF Checkpointing!IInv, Checkpointing!ConfirmedIsPromoted,
     Checkpointing!ManifestIsOfGeneration, Checkpointing!FilesAreWhole,
     Checkpointing!WritesAreWhole, Checkpointing!NothingBefore, Checkpointing!Confirmed
<1> QED
  BY <1>5, <1>6, <1>9, <1>10

(* What it leaves of the pass that goes on: the new unit is of the file as *)
(* it is now, so not older than what was staged of it before.              *)
LEMMA ChunkKeepsPass ==
  ASSUME Checkpointing!IInv, Sends, NEW c, NEW n, StoresChunk(c, n),
         UNCHANGED <<checkpointsDisk, writes, sync, promoted, active, rounds>>,
         IsPass(checkpointsPass'), checkpointsFaults' \in 0 .. Faults["checkpoints"],
         tainted \subseteq tainted', tainted' \subseteq Syncs,
         checkpointsPass'.at \in {"send", "stat"},
         checkpointsPass'.sync = checkpointsPass.sync,
         checkpointsPass'.todo = checkpointsPass.todo,
         checkpointsPass'.file = checkpointsPass.file,
         checkpointsPass'.size = checkpointsPass.size,
         checkpointsPass'.write = checkpointsPass.write,
         checkpointsPass'.manifest = checkpointsPass.manifest
  PROVE  Checkpointing!IInv'
<1> DEFINE s == checkpointsPass.sync
           h == checkpointsPass.file
           w == checkpointsPass.write
           d == checkpointsDisk[h]
           now == Checkpointing!Written(d)
<1>1. /\ s \in Syncs /\ h \in checkpointsPass.todo
      /\ h \notin DOMAIN checkpointsPass.manifest
      /\ checkpointsPass.size \in Nat /\ IsPass(checkpointsPass)
      /\ FileNow \in Checkpointing!Content /\ CheckpointTypes
      /\ checkpointsPass.at = "send"
  BY Sending DEF Sends
<1>2. /\ Checkpointing!TypeOK' /\ Checkpointing!ConfirmedIsPromoted'
      /\ Checkpointing!ManifestIsOfGeneration' /\ Checkpointing!FilesAreWhole'
      /\ Checkpointing!WritesAreWhole' /\ Checkpointing!NothingBefore'
      /\ DOMAIN staging'[s] = DOMAIN staging[s] \cup {h} /\ staging'[s][h] = c
      /\ \A g \in DOMAIN staging[s] \ {h} : staging'[s][g] = staging[s][g]
  BY ChunkKeepsStore
<1>3. Checkpointing!PassGoesOn' /\ Checkpointing!PromotedIsRecorded'
  BY <1>1 DEF Checkpointing!IInv, Checkpointing!PassGoesOn,
     Checkpointing!PromotedIsRecorded
<1>4. Checkpointing!StagedIsListed' /\ Checkpointing!ListedIsWhole'
  BY <1>1, <1>2 DEF Checkpointing!IInv, Checkpointing!StagedIsListed,
     Checkpointing!ListedIsWhole, Checkpointing!FirstPass, Checkpointing!Sending,
     Checkpointing!File
<1>5. Checkpointing!SentIsRecent'
  <2> SUFFICES ASSUME Checkpointing!FirstPass
               PROVE  /\ checkpointsPass.size # 0
                      /\ checkpointsPass.size > 0 => w > 0
                      /\ w <= writes
                      /\ d \notin {Checkpointing!Absent, <<>>} => w <= now
                      /\ \A k \in DOMAIN c :
                           /\ w <= c[k] /\ c[k] <= writes
                           /\ d \notin {Checkpointing!Absent, <<>>} => c[k] <= now
    BY <1>1, <1>2 DEF Checkpointing!SentIsRecent, Checkpointing!FirstPass,
       Checkpointing!Sending, Checkpointing!File
  <2>1. /\ checkpointsPass.size # 0
        /\ checkpointsPass.size > 0 => w > 0
        /\ w <= writes
        /\ d \notin {Checkpointing!Absent, <<>>} => w <= now
        /\ h \in DOMAIN staging[s] => \A k \in DOMAIN staging[s][h] :
             /\ w <= staging[s][h][k] /\ staging[s][h][k] <= writes
             /\ d \notin {Checkpointing!Absent, <<>>} => staging[s][h][k] <= now
    BY <1>1 DEF Checkpointing!IInv, Checkpointing!SentIsRecent, Checkpointing!Sending,
       Checkpointing!File
  <2>2. d # <<>> => now <= writes
    <3> SUFFICES ASSUME d # <<>> PROVE now <= writes
      OBVIOUS
    <3>1. d # Checkpointing!Absent /\ h \in CheckpointFiles
      BY <1>1, PassFields DEF Sends, FileNow
    <3>2. d \in Seq(1 .. MaxWrites)
      BY <1>1 DEF FileNow, Checkpointing!Content
    <3>3. Len(d) \in DOMAIN d
      <4> HIDE DEF d
      <4> QED
        BY <3>2
    <3> QED
      BY <3>1, <3>3 DEF Checkpointing!IInv, Checkpointing!WritesAreWhole
  <2>3. now \in Nat
    <3>1. d \in Seq(1 .. MaxWrites)
      BY <1>1 DEF FileNow, Checkpointing!Content
    <3>2. d # <<>> => d[Len(d)] \in 1 .. MaxWrites
      <4> HIDE DEF d
      <4>1. d # <<>> => Len(d) \in 1 .. Len(d)
        BY <3>1
      <4> QED
        BY <3>1, <4>1, UnitsOf
    <3> QED
      BY <3>2 DEF Checkpointing!Written
  <2>4. d # Checkpointing!Absent
    BY DEF Sends, FileNow
  <2>5. ASSUME NEW k \in DOMAIN c
        PROVE  /\ w <= c[k] /\ c[k] <= writes
               /\ d \notin {Checkpointing!Absent, <<>>} => c[k] <= now
    <3>1. CASE k \in DOMAIN StagedNow /\ c[k] = StagedNow[k]
      <4>1. h \in DOMAIN staging[s] /\ StagedNow = staging[s][h]
        BY <3>1 DEF StagedNow, Checkpointing!Staged
      <4> QED
        BY <2>1, <3>1, <4>1
    <3>2. CASE d # <<>> /\ c[k] = now
      BY <2>1, <2>2, <2>3, <2>4, <3>2
    <3> QED
      BY <3>1, <3>2 DEF StoresChunk, FileNow
  <2> QED
    BY <2>1, <2>5
<1> QED
  BY <1>2, <1>3, <1>4, <1>5 DEF Checkpointing!IInv

LEMMA SendStep ==
  ASSUME Checkpointing!IInv, Checkpointing!Send
  PROVE  Checkpointing!IInv'
<1> DEFINE s == checkpointsPass.sync
           h == checkpointsPass.file
<1>1. CheckpointTypes /\ IsPass(checkpointsPass)
  BY CheckpointTypesHold DEF Checkpointing!IInv, CheckpointTypes
<1>2. /\ checkpointsPass.at = "send" /\ sync[s].state = "pending"
      /\ UNCHANGED <<checkpointsDisk, writes, sync, promoted, active,
                     checkpointsFaults, rounds, tainted>>
  BY DEF Checkpointing!Send, Checkpointing!IInv, Checkpointing!PassGoesOn
<1>3. /\ checkpointsFaults' \in 0 .. Faults["checkpoints"]
      /\ tainted \subseteq tainted' /\ tainted' \subseteq Syncs
  BY <1>1, <1>2 DEF CheckpointTypes
<1>4. CASE Checkpointing!GiveUp /\ UNCHANGED staging
  BY <1>2, <1>3, <1>4, GivenUp DEF Checkpointing!GiveUp
<1>5. ASSUME Sends, NEW reply,
             reply = Checkpointing!AppendCheckpoint(s, h, checkpointsPass.offset,
                       <<FileNow[checkpointsPass.offset + 1]>>),
             Checkpointing!Staging(s, h, reply.staged)
      PROVE  Checkpointing!GiveUp => Checkpointing!IInv'
  <2> SUFFICES ASSUME checkpointsPass' = Checkpointing!NoPass
               PROVE  Checkpointing!IInv'
    BY DEF Checkpointing!GiveUp
  <2>1. PICK n : StoresChunk(reply.staged, n)
    BY <1>5, ChunkIsStored
  <2>2. /\ IsPass(checkpointsPass') /\ checkpointsPass'.at = "idle"
        /\ checkpointsPass'.todo = {}
    BY NoPassIsOne
  <2>3. /\ Checkpointing!TypeOK' /\ Checkpointing!ConfirmedIsPromoted'
        /\ Checkpointing!ManifestIsOfGeneration' /\ Checkpointing!FilesAreWhole'
        /\ Checkpointing!WritesAreWhole' /\ Checkpointing!NothingBefore'
    BY <1>2, <1>3, <1>5, <2>1, <2>2, ChunkKeepsStore
  <2>4. Checkpointing!PassGoesOn' /\ Checkpointing!PromotedIsRecorded'
    BY <1>2, <2>2 DEF Checkpointing!IInv, Checkpointing!PassGoesOn,
                      Checkpointing!PromotedIsRecorded
  <2>5. /\ Checkpointing!StagedIsListed' /\ Checkpointing!ListedIsWhole'
        /\ Checkpointing!SentIsRecent'
    BY <2>2 DEF Checkpointing!StagedIsListed, Checkpointing!ListedIsWhole,
                Checkpointing!SentIsRecent, Checkpointing!FirstPass
  <2> QED
    BY <2>3, <2>4, <2>5 DEF Checkpointing!IInv
<1>6. ASSUME Sends, NEW reply, NEW a \in {"send", "stat"},
             reply = Checkpointing!AppendCheckpoint(s, h, checkpointsPass.offset,
                       <<FileNow[checkpointsPass.offset + 1]>>),
             Checkpointing!Staging(s, h, reply.staged),
             checkpointsPass' = [checkpointsPass EXCEPT !.offset = reply.next, !.at = a]
      PROVE  Checkpointing!IInv'
  <2>1. PICK n : StoresChunk(reply.staged, n)
    BY <1>6, ChunkIsStored
  <2>2. reply.next \in Nat
    BY <1>6, ChunkIsStored
  <2>3. /\ IsPass(checkpointsPass') /\ checkpointsPass'.at = a
        /\ checkpointsPass'.sync = s /\ checkpointsPass'.todo = checkpointsPass.todo
        /\ checkpointsPass'.file = h /\ checkpointsPass'.size = checkpointsPass.size
        /\ checkpointsPass'.write = checkpointsPass.write
        /\ checkpointsPass'.manifest = checkpointsPass.manifest
    <3>1. MovesOn(checkpointsPass, checkpointsPass', a, reply.next)
      BY <1>6 DEF MovesOn
    <3> QED
      BY <1>1, <2>2, <3>1, PassSends
  <2> QED
    BY <1>2, <1>3, <1>6, <2>1, <2>3, ChunkKeepsPass
<1>7. CASE ~(FileNow = Checkpointing!Absent \/ Len(FileNow) < checkpointsPass.offset + 1
             \/ FileNow = <<>>)
  <2> DEFINE reply == Checkpointing!AppendCheckpoint(s, h, checkpointsPass.offset,
                        <<FileNow[checkpointsPass.offset + 1]>>)
  <2>1. Sends
    <3>1. FileNow # Checkpointing!Absent /\ checkpointsPass.offset \in Nat
      BY <1>1, <1>7, PassFields
    <3>2. FileNow \in Seq(1 .. MaxWrites)
      <4>1. h \in CheckpointFiles
        BY <1>1, <1>2, PassFields DEF Checkpointing!IInv, Checkpointing!PassGoesOn
      <4> QED
        BY <1>1, <3>1, <4>1 DEF CheckpointTypes, FileNow, Checkpointing!Content
    <3>3. Len(FileNow) \in Nat
      BY <3>2
    <3> QED
      BY <1>2, <1>7, <3>1, <3>3 DEF Sends
  <2>2. /\ IF Checkpointing!Authorised(s) /\ sync[s].state = "pending"
           THEN Checkpointing!Staging(s, h, reply.staged) ELSE UNCHANGED staging
        /\ IF reply.next <= checkpointsPass.offset \/ reply.next > checkpointsPass.size
           THEN Checkpointing!GiveUp
           ELSE checkpointsPass' = [checkpointsPass EXCEPT !.offset = reply.next,
                  !.at = IF reply.next = checkpointsPass.size THEN "stat" ELSE "send"]
    BY <1>7 DEF Checkpointing!Send, Checkpointing!File, FileNow
  <2>3. ~Checkpointing!Authorised(s) => reply.next = 0
    BY DEF Checkpointing!AppendCheckpoint
  <2>4. checkpointsPass.offset \in Nat
    BY <1>1, PassFields
  <2> HIDE DEF reply
  <2>5. CASE ~Checkpointing!Authorised(s)
    <3>1. Checkpointing!GiveUp /\ UNCHANGED staging
      BY <2>2, <2>3, <2>4, <2>5
    <3> QED
      BY <1>4, <3>1
  <2>6. CASE Checkpointing!Authorised(s)
    <3>1. Checkpointing!Staging(s, h, reply.staged)
      BY <1>2, <2>2, <2>6
    <3>2. CASE Checkpointing!GiveUp
      BY <1>5, <2>1, <3>1, <3>2 DEF reply
    <3>3. ASSUME NEW a \in {"send", "stat"},
                 checkpointsPass' = [checkpointsPass EXCEPT !.offset = reply.next, !.at = a]
          PROVE  Checkpointing!IInv'
      BY <1>6, <2>1, <3>1, <3>3 DEF reply
    <3> QED
      BY <2>2, <3>2, <3>3
  <2> QED
    BY <2>5, <2>6
<1>8. CASE FileNow = Checkpointing!Absent \/ Len(FileNow) < checkpointsPass.offset + 1
           \/ FileNow = <<>>
  BY <1>4, <1>8 DEF Checkpointing!Send, Checkpointing!File, FileNow
<1> QED
  BY <1>7, <1>8

LEMMA AnswerLostStep ==
  ASSUME Checkpointing!IInv, Checkpointing!AnswerLost
  PROVE  Checkpointing!IInv'
<1>1. Sends
  BY DEF Checkpointing!AnswerLost, Sends, FileNow, Checkpointing!File
<1>2. /\ CheckpointTypes /\ checkpointsPass.sync \in Syncs /\ IsPass(checkpointsPass)
  BY <1>1, Sending
<1>3. PICK reply :
        /\ reply = Checkpointing!AppendCheckpoint(checkpointsPass.sync,
             checkpointsPass.file, checkpointsPass.offset,
             <<FileNow[checkpointsPass.offset + 1]>>)
        /\ Checkpointing!Staging(checkpointsPass.sync, checkpointsPass.file, reply.staged)
  BY DEF Checkpointing!AnswerLost, FileNow, Checkpointing!File
<1>4. PICK n : StoresChunk(reply.staged, n)
  BY <1>1, <1>3, ChunkIsStored
<1>5. /\ checkpointsFaults' \in 0 .. Faults["checkpoints"]
      /\ tainted' = tainted \cup {checkpointsPass.sync}
      /\ UNCHANGED <<checkpointsDisk, writes, sync, promoted, checkpointsPass, active,
                     rounds>>
  BY <1>2, CheckpointsAssumption DEF Checkpointing!AnswerLost, Checkpointing!Fault,
     CheckpointTypes
<1>6. tainted \subseteq tainted' /\ tainted' \subseteq Syncs /\ IsPass(checkpointsPass')
  BY <1>2, <1>5 DEF CheckpointTypes
<1> QED
  BY <1>1, <1>4, <1>5, <1>6, ChunkKeepsPass DEF Sends

-----------------------------------------------------------------------------
(* Checkpoints: the theorems. *)

LEMMA CheckpointsSteps ==
  ASSUME Checkpointing!IInv, [Next]_vars
  PROVE  Checkpointing!IInv'
<1>1. CASE part = "checkpoints" /\ Checkpointing!Next
  <2>1. ASSUME NEW f \in CheckpointFiles,
               Checkpointing!WriteFile(f) \/ Checkpointing!RemoveFile(f)
        PROVE  Checkpointing!IInv'
    BY <2>1, ProgramSteps
  <2>2. ASSUME NEW i \in Syncs, Checkpointing!Request(i) \/ Checkpointing!Begin(i)
        PROVE  Checkpointing!IInv'
    BY <2>2, RequestStep, BeginStep
  <2> QED
    BY <1>1, <2>1, <2>2, InactiveStep, NextFileStep, SendStep, StatStep, PromoteStep,
       RefusedStep, RecordStep, AnswerLostStep DEF Checkpointing!Next
<1>2. CASE UNCHANGED checkpointsVars
  <2>1. /\ CheckpointTypes /\ Checkpointing!Used <= Limit["checkpoints"]
        /\ IsPass(checkpointsPass)
    BY CheckpointTypesHold DEF Checkpointing!IInv, CheckpointTypes
  <2>2. /\ Checkpointing!TypeOK' /\ Checkpointing!ConfirmedIsPromoted'
        /\ Checkpointing!ManifestIsOfGeneration' /\ Checkpointing!FilesAreWhole'
        /\ Checkpointing!WritesAreWhole' /\ Checkpointing!NothingBefore'
    BY <1>2, <2>1, StoreUntouched DEF CheckpointTypes, checkpointsVars
  <2>3. /\ Checkpointing!PassGoesOn' /\ Checkpointing!PromotedIsRecorded'
        /\ Checkpointing!StagedIsListed' /\ Checkpointing!ListedIsWhole'
        /\ Checkpointing!SentIsRecent'
    BY <1>2 DEF checkpointsVars, Checkpointing!IInv, Checkpointing!PassGoesOn,
       Checkpointing!PromotedIsRecorded, Checkpointing!StagedIsListed,
       Checkpointing!ListedIsWhole, Checkpointing!SentIsRecent, Checkpointing!FirstPass,
       Checkpointing!Sending, Checkpointing!File
  <2> QED
    BY <2>2, <2>3 DEF Checkpointing!IInv
<1> QED
  BY <1>1, <1>2 DEF Next, vars

(* A checkpoint the server calls confirmed is on its disk; one that no     *)
(* fault hit has the sizes of its manifest; and every file of one made in  *)
(* a single pass is of one write, although the program writes on           *)
(* (startCheckpointSync, uploadCheckpoint, ConfirmCheckpoint)              *)
THEOREM CheckpointsAreWhole == Spec => []CheckpointIsWhole
<1>1. Checkpointing!IInv => CheckpointIsWhole
  BY DEF Checkpointing!IInv, CheckpointIsWhole
<1> QED
  BY CheckpointsInitially, CheckpointsSteps, <1>1, PTL DEF Spec

(* What was promoted is never replaced: a repeated completion finds the    *)
(* directory and leaves it (ConfirmCheckpoint)                             *)
THEOREM PromotedStays == Spec => PromotedIsFinal
<1>1. ASSUME Checkpointing!IInv, [Next]_vars
      PROVE  [\A i \in Syncs : promoted[i].there => promoted'[i] = promoted[i]]_
               Checkpointing!vars
  <2>1. CASE part = "checkpoints" /\ Checkpointing!Next
    <3>1. CASE UNCHANGED promoted
      BY <3>1
    <3>2. CASE Checkpointing!Promote
      <4>1. CheckpointTypes /\ checkpointsPass.sync \in Syncs
        <5>1. checkpointsPass.at = "complete"
          BY <3>2 DEF Checkpointing!Promote
        <5> QED
          BY <1>1, <5>1, CheckpointTypesHold DEF Checkpointing!IInv,
             Checkpointing!PassGoesOn
      <4>2. \/ UNCHANGED promoted
            \/ /\ ~promoted[checkpointsPass.sync].there
               /\ promoted' = [promoted EXCEPT ![checkpointsPass.sync] =
                    [there |-> TRUE, files |-> staging[checkpointsPass.sync]]]
        BY <3>2 DEF Checkpointing!Promote, Checkpointing!ConfirmCheckpoint
      <4> QED
        BY <4>1, <4>2 DEF CheckpointTypes
    <3> QED
      BY <2>1, <3>1, <3>2 DEF Checkpointing!Next, Checkpointing!WriteFile,
         Checkpointing!RemoveFile, Checkpointing!Request, Checkpointing!Begin,
         Checkpointing!Inactive, Checkpointing!NextFile, Checkpointing!Send,
         Checkpointing!Stat, Checkpointing!Refused, Checkpointing!Record,
         Checkpointing!AnswerLost, Checkpointing!PassDies
  <2>2. CASE UNCHANGED checkpointsVars
    BY <2>2 DEF checkpointsVars, Checkpointing!vars
  <2> QED
    BY <1>1, <2>1, <2>2 DEF Next, vars
<1> QED
  BY CheckpointsInitially, CheckpointsSteps, <1>1, PTL
  DEF Spec, PromotedIsFinal, Checkpointing!PromotedIsFinal

-----------------------------------------------------------------------------
(* Inputs: files, manifests and their size. *)

LEMMA InputsLibrary ==
  /\ \A S : InputFiles!IsFiniteSet(S) <=> IsFiniteSet(S)
  /\ \A S : InputFiles!Cardinality(S) = Cardinality(S)
  /\ \A s : InputFiles!Range(s) = {s[i] : i \in DOMAIN s}
<1>1. ASSUME NEW S PROVE InputFiles!IsFiniteSet(S) <=> IsFiniteSet(S)
  BY DEF InputFiles!IsFiniteSet, IsFiniteSet
<1>2. ASSUME NEW S PROVE InputFiles!Cardinality(S) = Cardinality(S)
  BY DEF InputFiles!Cardinality, Cardinality
<1>3. ASSUME NEW s PROVE InputFiles!Range(s) = {s[i] : i \in DOMAIN s}
  BY DEF InputFiles!Range
<1> QED
  BY <1>1, <1>2, <1>3

LEMMA InputSums ==
  ASSUME NEW F, NEW S
  PROVE  InputFiles!SumFunctionOnSet(F, S) = SumFunctionOnSet(F, S)
BY DEF InputFiles!SumFunctionOnSet, InputFiles!FoldFunctionOnSet,
       InputFiles!MapThenFoldSet, SumFunctionOnSet, FoldFunctionOnSet, MapThenFoldSet

LEMMA ManifestEmpty ==
  /\ <<>> \in InputFiles!Manifest /\ InputFiles!Range(<<>>) = {} /\ Len(<<>>) = 0
BY InputsAssumption, InputsLibrary DEF InputFiles!Manifest

LEMMA ManifestParts ==
  ASSUME NEW m \in InputFiles!Manifest
  PROVE  /\ m \in Seq(InputFiles!File) /\ Len(m) \in Nat /\ Len(m) <= MaxInputs
         /\ InputFiles!Range(m) \subseteq InputFiles!File
BY InputsLibrary DEF InputFiles!Manifest

LEMMA ManifestHead ==
  ASSUME NEW m \in InputFiles!Manifest, m # <<>>
  PROVE  /\ Head(m) \in InputFiles!File /\ Tail(m) \in InputFiles!Manifest
         /\ InputFiles!Range(m) = {Head(m)} \cup InputFiles!Range(Tail(m))
<1>1. /\ m \in Seq(InputFiles!File) /\ Len(m) \in Nat /\ Len(m) <= MaxInputs
      /\ Len(m) # 0
  BY ManifestParts
<1>2. /\ Head(m) = m[1] /\ Tail(m) \in Seq(InputFiles!File) /\ Len(Tail(m)) = Len(m) - 1
      /\ \A i \in 1 .. Len(m) - 1 : Tail(m)[i] = m[i + 1]
      /\ DOMAIN m = 1 .. Len(m) /\ DOMAIN Tail(m) = 1 .. Len(m) - 1
  BY <1>1
<1>3. Head(m) \in InputFiles!File /\ Tail(m) \in InputFiles!Manifest
  BY <1>1, <1>2, InputsAssumption DEF InputFiles!Manifest
<1>4. \A i \in 1 .. Len(m) : m[i] = Head(m) \/ \E j \in 1 .. Len(m) - 1 : m[i] = Tail(m)[j]
  <2> TAKE i \in 1 .. Len(m)
  <2>1. CASE i = 1
    BY <1>2, <2>1
  <2>2. CASE i # 1
    <3>1. i - 1 \in 1 .. Len(m) - 1 /\ m[i] = Tail(m)[i - 1]
      BY <1>1, <1>2, <2>2
    <3> QED
      BY <3>1
  <2> QED
    BY <2>1, <2>2
<1>5. \A j \in 1 .. Len(m) - 1 : Tail(m)[j] \in {m[i] : i \in 1 .. Len(m)}
  BY <1>1, <1>2
<1>6. m[1] \in {m[i] : i \in 1 .. Len(m)}
  BY <1>1
<1>7. /\ InputFiles!Range(m) = {m[i] : i \in 1 .. Len(m)}
      /\ InputFiles!Range(Tail(m)) = {Tail(m)[j] : j \in 1 .. Len(m) - 1}
  BY <1>2, InputsLibrary
<1> DEFINE M == {m[i] : i \in 1 .. Len(m)}
           T == {Tail(m)[j] : j \in 1 .. Len(m) - 1}
<1>8. M \subseteq {Head(m)} \cup T
  BY <1>4
<1>9. {Head(m)} \cup T \subseteq M
  BY <1>2, <1>5, <1>6
<1> QED
  BY <1>3, <1>7, <1>8, <1>9

LEMMA ManifestLonger ==
  ASSUME NEW m \in InputFiles!Manifest, Len(m) < MaxInputs, NEW f \in InputFiles!File
  PROVE  /\ Append(m, f) \in InputFiles!Manifest /\ Len(Append(m, f)) = Len(m) + 1
         /\ InputFiles!Range(Append(m, f)) = InputFiles!Range(m) \cup {f}
<1>1. m \in Seq(InputFiles!File) /\ Len(m) \in Nat /\ DOMAIN m = 1 .. Len(m)
  BY ManifestParts
<1>2. /\ Append(m, f) \in Seq(InputFiles!File) /\ Len(Append(m, f)) = Len(m) + 1
      /\ DOMAIN Append(m, f) = 1 .. Len(m) + 1 /\ Append(m, f)[Len(m) + 1] = f
      /\ \A i \in 1 .. Len(m) : Append(m, f)[i] = m[i]
  BY <1>1
<1>3. Append(m, f) \in InputFiles!Manifest
  BY <1>1, <1>2, InputsAssumption DEF InputFiles!Manifest
<1>4. \A i \in 1 .. Len(m) + 1 : i \in 1 .. Len(m) \/ i = Len(m) + 1
  BY <1>1
<1>5. {Append(m, f)[i] : i \in 1 .. Len(m) + 1} = {m[i] : i \in 1 .. Len(m)} \cup {f}
  BY <1>1, <1>2, <1>4
<1> QED
  BY <1>1, <1>2, <1>3, <1>5, InputsLibrary

(* A file may be stored as it was sent or damaged, which keeps its size.   *)
StoredFile == [path : {n.clean : n \in InputParts},
               content : InputContents \cup {InputFiles!Damaged(c) : c \in InputContents}]

LEMMA Damaging ==
  ASSUME NEW c \in Seq(Nat)
  PROVE  InputFiles!Damaged(c) \in Seq(Nat) /\ Len(InputFiles!Damaged(c)) = Len(c)
BY DEF InputFiles!Damaged

LEMMA StoredSizes ==
  /\ InputFiles!File \subseteq StoredFile
  /\ \A f \in StoredFile : f.content \in Seq(Nat) /\ Len(f.content) \in Nat
<1>1. InputFiles!File \subseteq StoredFile
  BY DEF InputFiles!File, StoredFile
<1>2. ASSUME NEW f \in StoredFile
      PROVE  f.content \in Seq(Nat)
  <2>1. CASE f.content \in InputContents
    BY <2>1, InputsAssumption
  <2>2. ASSUME NEW c \in InputContents, f.content = InputFiles!Damaged(c)
        PROVE  f.content \in Seq(Nat)
    BY <2>2, Damaging, InputsAssumption
  <2> QED
    BY <2>1, <2>2 DEF StoredFile
<1> QED
  BY <1>1, <1>2

LEMMA TotalIsSum ==
  ASSUME NEW S
  PROVE  InputFiles!TotalSize(S) = SumFunctionOnSet([f \in S |-> Len(f.content)], S)
BY InputSums DEF InputFiles!TotalSize

LEMMA TotalGrows ==
  ASSUME NEW S, IsFiniteSet(S), S \subseteq StoredFile, NEW g \in StoredFile, g \notin S
  PROVE  InputFiles!TotalSize(S \cup {g}) = InputFiles!TotalSize(S) + Len(g.content)
<1> DEFINE F == [f \in S |-> Len(f.content)]
           G == [f \in S \cup {g} |-> Len(f.content)]
<1>1. /\ \A f \in S : F[f] = G[f]
      /\ \A f \in S \cup {g} : G[f] \in Nat
      /\ G[g] = Len(g.content)
  BY StoredSizes
<1>2. /\ InputFiles!TotalSize(S) = SumFunctionOnSet(F, S)
      /\ InputFiles!TotalSize(S \cup {g}) = SumFunctionOnSet(G, S \cup {g})
  BY TotalIsSum
<1> HIDE DEF F, G
<1>3. SumFunctionOnSet(G, S \cup {g}) = SumFunctionOnSet(G, S) + G[g]
  BY <1>1, SumAdd
<1>4. SumFunctionOnSet(F, S) = SumFunctionOnSet(G, S)
  BY <1>1, SumOfEqual
<1> QED
  BY <1>1, <1>2, <1>3, <1>4

LEMMA TotalSwapped ==
  ASSUME NEW S, IsFiniteSet(S), S \subseteq StoredFile, NEW f \in S,
         NEW g \in StoredFile, g \notin S \ {f}, Len(g.content) = Len(f.content)
  PROVE  InputFiles!TotalSize((S \ {f}) \cup {g}) = InputFiles!TotalSize(S)
<1> DEFINE R == S \ {f}
<1>1. IsFiniteSet(R) /\ R \subseteq StoredFile /\ f \notin R /\ R \cup {f} = S
  BY FS_RemoveElement
<1> HIDE DEF R
<1>2. InputFiles!TotalSize(R \cup {f}) = InputFiles!TotalSize(R) + Len(f.content)
  BY <1>1, TotalGrows
<1>3. InputFiles!TotalSize(R \cup {g}) = InputFiles!TotalSize(R) + Len(g.content)
  BY <1>1, TotalGrows DEF R
<1> QED
  BY <1>1, <1>2, <1>3 DEF R


-----------------------------------------------------------------------------
(* Inputs: the initial state and the request. *)

RequestRow == [at : {"open", "refused", "done"}, spec : BOOLEAN,
               manifest : InputFiles!Manifest]
JobRow == [there : BOOLEAN, manifest : InputFiles!Manifest]
AttemptRow == [at : {"off", "copy", "prepare", "run", "clean", "report", "fail",
                     "failed", "end"}, todo : InputFiles!Manifest]
InputTypes ==
  /\ inputsRequest \in RequestRow /\ inputsRow \in JobRow /\ inputsAgent \in AttemptRow
  /\ inputsStored \subseteq StoredFile /\ inputsDisk \subseteq InputFiles!File
  /\ container \in {"none", "running", "ended"} /\ completed \in BOOLEAN
  /\ told \in {"no", "ended", "failed"}
  /\ inputsFaults \in 0 .. Faults["inputs"] /\ inputsCrashes \in 0 .. Crashes["inputs"]

LEMMA InputTypesHold ==
  /\ InputFiles!TypeOK <=> InputTypes
  /\ InputFiles!TypeOK' <=> InputTypes'
<1>1. InputFiles!TypeOK <=> InputTypes
  BY DEF InputFiles!TypeOK, InputTypes, RequestRow, JobRow, AttemptRow, StoredFile
<1>2. InputFiles!TypeOK' <=> InputTypes'
  BY DEF InputFiles!TypeOK, InputTypes, RequestRow, JobRow, AttemptRow, StoredFile
<1> QED
  BY <1>1, <1>2

LEMMA StoredTypes ==
  ASSUME InputFiles!TypeOK
  PROVE  inputsStored \subseteq StoredFile
BY InputTypesHold DEF InputTypes

LEMMA RequestGoes ==
  ASSUME NEW r \in RequestRow, NEW at \in {"open", "refused", "done"}
  PROVE  /\ r.manifest \in InputFiles!Manifest
         /\ [r EXCEPT !.at = at] \in RequestRow
         /\ [r EXCEPT !.at = at].at = at
         /\ [r EXCEPT !.at = at].manifest = r.manifest
BY DEF RequestRow

LEMMA RequestSpecified ==
  ASSUME NEW r \in RequestRow
  PROVE  /\ [r EXCEPT !.spec = TRUE] \in RequestRow
         /\ [r EXCEPT !.spec = TRUE].at = r.at
         /\ [r EXCEPT !.spec = TRUE].manifest = r.manifest
BY DEF RequestRow

LEMMA RequestLists ==
  ASSUME NEW r \in RequestRow, NEW m \in InputFiles!Manifest
  PROVE  /\ [r EXCEPT !.manifest = m] \in RequestRow
         /\ [r EXCEPT !.manifest = m].at = r.at
         /\ [r EXCEPT !.manifest = m].manifest = m
BY DEF RequestRow

LEMMA InputsInitially == Init => InputFiles!IInv
<1> SUFFICES ASSUME InputFiles!Init PROVE InputFiles!IInv
  BY DEF Init
<1> USE DEF InputFiles!Init
<1>1. InputFiles!TypeOK
  <2> DEFINE none == <<>>
  <2>1. none \in InputFiles!Manifest
    BY ManifestEmpty
  <2>2. /\ inputsRequest = [at |-> "open", spec |-> FALSE, manifest |-> none]
        /\ inputsRow = [there |-> FALSE, manifest |-> none]
        /\ inputsAgent = [at |-> "off", todo |-> none]
    BY DEF InputFiles!NoRow
  <2> HIDE DEF none
  <2>3. inputsRequest \in RequestRow /\ inputsRow \in JobRow /\ inputsAgent \in AttemptRow
    BY <2>1, <2>2 DEF RequestRow, JobRow, AttemptRow
  <2>4. inputsFaults \in 0 .. Faults["inputs"] /\ inputsCrashes \in 0 .. Crashes["inputs"]
    BY InputsAssumption
  <2>5. InputTypes
    BY <2>3, <2>4 DEF InputTypes
  <2> QED
    BY <2>5, InputTypesHold
<1>2. InputFiles!TotalSize({}) = 0
  BY TotalIsSum, SumEmpty
<1>3. InputFiles!InputLimitKept
  BY <1>2, InputsAssumption DEF InputFiles!InputLimitKept
<1>4. InputFiles!NamesAreApart
  BY ManifestEmpty, InputsLibrary, FS_EmptySet
     DEF InputFiles!NamesAreApart, InputFiles!Apart
<1>5. InputFiles!RowIsOfRequest
  BY ManifestEmpty, InputsLibrary, FS_EmptySet
     DEF InputFiles!RowIsOfRequest, InputFiles!NoRow
<1>6. InputFiles!ManifestIsStored
  BY DEF InputFiles!ManifestIsStored, InputFiles!NoRow
<1>7. /\ InputFiles!RunsOnItsInputs /\ InputFiles!NothingLeftAfterResult
      /\ InputFiles!CopyGoesOn /\ InputFiles!EndIsCleaned
  BY DEF InputFiles!RunsOnItsInputs, InputFiles!NothingLeftAfterResult,
         InputFiles!CopyGoesOn, InputFiles!EndIsCleaned
<1> QED
  BY <1>1, <1>3, <1>4, <1>5, <1>6, <1>7 DEF InputFiles!IInv

(* Before the job there is no attempt to disturb.                          *)
LEMMA AttemptUntouched ==
  ASSUME InputFiles!IInv, ~inputsRow.there, UNCHANGED InputFiles!agentVars
  PROVE  /\ InputFiles!RunsOnItsInputs' /\ InputFiles!NothingLeftAfterResult'
         /\ InputFiles!CopyGoesOn' /\ InputFiles!EndIsCleaned'
<1>1. /\ inputsAgent'.at = "off" /\ inputsDisk' = {} /\ container' = "none" /\ told' = "no"
  BY DEF InputFiles!IInv, InputFiles!RowIsOfRequest, InputFiles!agentVars
<1> QED
  BY <1>1 DEF InputFiles!RunsOnItsInputs, InputFiles!NothingLeftAfterResult,
              InputFiles!CopyGoesOn, InputFiles!EndIsCleaned

LEMMA RefuseStep ==
  ASSUME InputFiles!IInv, inputsRequest.at = "open", InputFiles!Refuse,
         UNCHANGED <<InputFiles!agentVars, inputsFaults>>
  PROVE  InputFiles!IInv'
<1> USE DEF InputFiles!IInv, InputFiles!Refuse
<1>0. InputFiles!TypeOK /\ ~inputsRow.there /\ UNCHANGED inputsRow
  BY DEF InputFiles!RowIsOfRequest
<1>1. /\ inputsRequest' \in RequestRow /\ inputsRequest'.at = "refused"
      /\ inputsRequest'.manifest = inputsRequest.manifest /\ InputTypes
  BY <1>0, RequestGoes, InputTypesHold DEF InputTypes
<1>2. InputFiles!TypeOK'
  BY <1>0, <1>1, InputTypesHold DEF InputTypes, InputFiles!agentVars
<1>3. InputFiles!TotalSize({}) = 0
  BY TotalIsSum, SumEmpty
<1>4. InputFiles!InputLimitKept'
  BY <1>3, InputsAssumption DEF InputFiles!InputLimitKept
<1>5. InputFiles!NamesAreApart'
  BY <1>1, InputsLibrary, FS_EmptySet DEF InputFiles!NamesAreApart, InputFiles!Apart
<1>6. InputFiles!RowIsOfRequest'
  BY <1>0, <1>1 DEF InputFiles!RowIsOfRequest, InputFiles!agentVars
<1>7. InputFiles!ManifestIsStored'
  BY <1>0 DEF InputFiles!ManifestIsStored
<1> QED
  BY <1>0, <1>2, <1>4, <1>5, <1>6, <1>7, AttemptUntouched DEF InputFiles!IInv

LEMMA ReadSpecStep ==
  ASSUME InputFiles!IInv, InputFiles!ReadSpec
  PROVE  InputFiles!IInv'
<1> USE DEF InputFiles!IInv, InputFiles!ReadSpec
<1>1. CASE inputsRequest.spec
  BY <1>1, RefuseStep
<1>2. CASE ~inputsRequest.spec
  <2>0. /\ InputFiles!TypeOK /\ ~inputsRow.there /\ inputsRequest.at = "open"
        /\ UNCHANGED <<inputsStored, inputsRow, InputFiles!agentVars, inputsFaults>>
    BY <1>2 DEF InputFiles!RowIsOfRequest
  <2>1. /\ inputsRequest' \in RequestRow /\ inputsRequest'.at = "open"
        /\ inputsRequest'.manifest = inputsRequest.manifest /\ InputTypes
    BY <1>2, <2>0, RequestSpecified, InputTypesHold DEF InputTypes
  <2>2. InputFiles!TypeOK'
    BY <2>0, <2>1, InputTypesHold DEF InputTypes, InputFiles!agentVars
  <2>3. InputFiles!InputLimitKept' /\ InputFiles!NamesAreApart' /\ InputFiles!ManifestIsStored'
    BY <2>0, <2>1 DEF InputFiles!InputLimitKept, InputFiles!NamesAreApart,
                      InputFiles!ManifestIsStored
  <2>4. InputFiles!RowIsOfRequest'
    BY <2>0, <2>1 DEF InputFiles!RowIsOfRequest, InputFiles!agentVars
  <2> QED
    BY <2>0, <2>2, <2>3, <2>4, AttemptUntouched DEF InputFiles!IInv
<1> QED
  BY <1>1, <1>2

LEMMA ReadInputStep ==
  ASSUME InputFiles!IInv, NEW n \in InputParts, NEW c \in InputContents,
         InputFiles!ReadInput(n, c)
  PROVE  InputFiles!IInv'
<1>0. /\ InputFiles!TypeOK /\ ~inputsRow.there /\ inputsRequest.at = "open"
      /\ InputFiles!NamesAreApart /\ InputFiles!RowIsOfRequest
      /\ UNCHANGED <<InputFiles!agentVars, inputsFaults>>
  BY DEF InputFiles!IInv, InputFiles!RowIsOfRequest, InputFiles!ReadInput
<1>1. CASE InputFiles!Refuse
  BY <1>0, <1>1, RefuseStep
<1>2. CASE ~InputFiles!Refuse
  <2> DEFINE file == [path |-> n.clean, content |-> c]
             m == inputsRequest.manifest
  <2>1. /\ Len(m) < MaxInputs /\ n.clean \notin InputFiles!Paths(inputsStored)
        /\ InputFiles!TotalSize(inputsStored) + Len(c) <= Limit["inputs"]
        /\ inputsStored' = {f \in inputsStored : f.path # n.clean} \cup {file}
        /\ inputsRequest' = [inputsRequest EXCEPT !.manifest = Append(@, file)]
        /\ UNCHANGED inputsRow
    BY <1>0, <1>2 DEF InputFiles!ReadInput, InputFiles!StoreInput
  <2>2. /\ file \in InputFiles!File /\ file.path = n.clean /\ file.content = c
        /\ m \in InputFiles!Manifest /\ InputTypes
    BY <1>0, InputTypesHold DEF InputTypes, RequestRow, InputFiles!File
  <2>4. \A f \in inputsStored : f.path # n.clean
    BY <2>1 DEF InputFiles!Paths
  <2> HIDE DEF file, m
  <2>5. inputsStored' = inputsStored \cup {file} /\ file \notin inputsStored
    BY <2>1, <2>2, <2>4
  <2>6. /\ Append(m, file) \in InputFiles!Manifest /\ Len(Append(m, file)) = Len(m) + 1
        /\ InputFiles!Range(Append(m, file)) = InputFiles!Range(m) \cup {file}
    BY <2>1, <2>2, ManifestLonger
  <2>3. /\ inputsRequest' \in RequestRow /\ inputsRequest'.at = "open"
        /\ inputsRequest'.manifest = Append(m, file)
    <3>1. inputsRequest \in RequestRow /\ Append(m, file) \in InputFiles!Manifest
      BY <2>2, <2>6 DEF InputTypes
    <3>2. inputsRequest' = [inputsRequest EXCEPT !.manifest = Append(m, file)]
      BY <2>1 DEF m
    <3> QED
      BY <1>0, <3>1, <3>2, RequestLists
  <2>7. InputFiles!TypeOK'
    <3>1. inputsStored' \subseteq StoredFile
      BY <1>0, <2>2, <2>5, StoredTypes, StoredSizes
    <3> QED
      BY <1>0, <2>1, <2>2, <2>3, <3>1, InputTypesHold DEF InputTypes, InputFiles!agentVars
  <2>8. /\ IsFiniteSet(inputsStored) /\ IsFiniteSet(inputsStored')
        /\ Cardinality(inputsStored') = Cardinality(inputsStored) + 1
    <3>1. IsFiniteSet(inputsStored)
      BY <1>0, InputsLibrary DEF InputFiles!NamesAreApart
    <3> QED
      BY <2>5, <3>1, FS_AddElement
  <2>9. InputFiles!InputLimitKept'
    <3>1. inputsStored \subseteq StoredFile /\ file \in StoredFile
      BY <1>0, <2>2, StoredTypes, StoredSizes
    <3>2. InputFiles!TotalSize(inputsStored') = InputFiles!TotalSize(inputsStored) + Len(c)
      BY <2>2, <2>5, <2>8, <3>1, TotalGrows
    <3> QED
      BY <2>1, <3>2 DEF InputFiles!InputLimitKept
  <2>10. /\ InputFiles!Range(m) = inputsStored /\ Len(m) = Cardinality(inputsStored)
    BY <1>0, InputsLibrary DEF InputFiles!RowIsOfRequest, m
  <2>11. InputFiles!NamesAreApart'
    <3>1. InputFiles!Apart(inputsStored)
      BY <1>0 DEF InputFiles!NamesAreApart
    <3>2. InputFiles!Apart(inputsStored \cup {file})
      BY <2>2, <2>4, <3>1 DEF InputFiles!Apart
    <3> QED
      BY <2>3, <2>5, <2>6, <2>8, <2>10, <3>2, InputsLibrary DEF InputFiles!NamesAreApart
  <2>12. InputFiles!RowIsOfRequest'
    <3>1. /\ InputFiles!Range(inputsRequest'.manifest) = inputsStored'
          /\ Len(inputsRequest'.manifest) = Cardinality(inputsStored')
      BY <2>3, <2>5, <2>6, <2>8, <2>10
    <3> QED
      BY <1>0, <2>1, <2>3, <3>1, InputsLibrary
         DEF InputFiles!RowIsOfRequest, InputFiles!agentVars
  <2>13. InputFiles!ManifestIsStored'
    BY <1>0, <2>1, <2>3 DEF InputFiles!ManifestIsStored
  <2> QED
    BY <1>0, <2>7, <2>9, <2>11, <2>12, <2>13, AttemptUntouched DEF InputFiles!IInv
<1> QED
  BY <1>1, <1>2


LEMMA CreateJobStep ==
  ASSUME InputFiles!IInv, InputFiles!CreateJob
  PROVE  InputFiles!IInv'
<1>0. /\ InputTypes /\ InputFiles!TypeOK /\ ~inputsRow.there /\ inputsRequest.at = "open"
      /\ InputFiles!NamesAreApart /\ InputFiles!RowIsOfRequest
      /\ InputFiles!InputLimitKept
      /\ inputsRow' = [there |-> TRUE, manifest |-> inputsRequest.manifest]
      /\ inputsRequest' = [inputsRequest EXCEPT !.at = "done"]
      /\ UNCHANGED <<inputsStored, InputFiles!agentVars, inputsFaults>>
  BY InputTypesHold DEF InputFiles!IInv, InputFiles!RowIsOfRequest, InputFiles!CreateJob
<1>1. /\ inputsRequest' \in RequestRow /\ inputsRequest'.at = "done"
      /\ inputsRequest'.manifest = inputsRequest.manifest
      /\ inputsRequest.manifest \in InputFiles!Manifest
  BY <1>0, RequestGoes DEF InputTypes
<1>2. /\ inputsRow' \in JobRow /\ inputsRow'.there
      /\ inputsRow'.manifest = inputsRequest.manifest
  BY <1>0, <1>1 DEF JobRow
<1>3. InputFiles!TypeOK'
  BY <1>0, <1>1, <1>2, InputTypesHold DEF InputTypes, InputFiles!agentVars
<1>4. InputFiles!InputLimitKept' /\ InputFiles!NamesAreApart'
  BY <1>0, <1>1 DEF InputFiles!InputLimitKept, InputFiles!NamesAreApart
<1>5. InputFiles!RowIsOfRequest'
  BY <1>1, <1>2 DEF InputFiles!RowIsOfRequest
<1>6. InputFiles!ManifestIsStored'
  BY <1>0, <1>1, <1>2 DEF InputFiles!ManifestIsStored, InputFiles!RowIsOfRequest
<1> QED
  BY <1>0, <1>3, <1>4, <1>5, <1>6, AttemptUntouched DEF InputFiles!IInv

LEMMA DamageStep ==
  ASSUME InputFiles!IInv, NEW f \in inputsStored, InputFiles!Damage(f)
  PROVE  InputFiles!IInv'
<1> DEFINE g == [f EXCEPT !.content = InputFiles!Damaged(@)]
<1>0. /\ InputTypes /\ InputFiles!TypeOK /\ inputsRow.there
      /\ InputFiles!NamesAreApart /\ InputFiles!RowIsOfRequest /\ InputFiles!IInv
      /\ inputsFaults < Faults["inputs"] /\ inputsFaults' = inputsFaults + 1
      /\ inputsStored' = (inputsStored \ {f}) \cup {g}
      /\ UNCHANGED <<inputsRequest, inputsRow, InputFiles!agentVars>>
  BY InputTypesHold DEF InputFiles!IInv, InputFiles!Damage
<1>1. f \in StoredFile
  BY <1>0 DEF InputTypes
<1>2. g \in StoredFile /\ g.path = f.path /\ Len(g.content) = Len(f.content)
  <2>1. /\ g.path = f.path /\ g.content = InputFiles!Damaged(f.content)
        /\ g = [path |-> f.path, content |-> InputFiles!Damaged(f.content)]
    BY <1>1 DEF StoredFile
  <2>2. f.content \in Seq(Nat) /\ Len(g.content) = Len(f.content)
    BY <1>1, <2>1, StoredSizes, Damaging
  <2>3. InputFiles!Damaged(f.content) \in {InputFiles!Damaged(c) : c \in InputContents}
    <3>1. CASE f.content \in InputContents
      BY <3>1
    <3>2. ASSUME NEW c \in InputContents, f.content = InputFiles!Damaged(c)
          PROVE  InputFiles!Damaged(f.content) = InputFiles!Damaged(c)
      BY <3>2, InputsAssumption DEF InputFiles!Damaged
    <3> QED
      BY <1>1, <3>1, <3>2 DEF StoredFile
  <2> QED
    BY <1>1, <2>1, <2>2, <2>3 DEF StoredFile
<1> HIDE DEF g
<1>3. \A h \in inputsStored \ {f} : h.path # f.path
  BY <1>0 DEF InputFiles!NamesAreApart, InputFiles!Apart
<1>4. g \notin inputsStored \ {f}
  BY <1>2, <1>3
<1>5. InputFiles!TypeOK'
  <2>1. inputsStored' \subseteq StoredFile /\ inputsFaults' \in 0 .. Faults["inputs"]
    BY <1>0, <1>2, InputsAssumption DEF InputTypes
  <2> QED
    BY <1>0, <2>1, InputTypesHold DEF InputTypes, InputFiles!agentVars
<1>6. IsFiniteSet(inputsStored) /\ IsFiniteSet(inputsStored')
  <2>1. IsFiniteSet(inputsStored)
    BY <1>0, InputsLibrary DEF InputFiles!NamesAreApart
  <2>2. IsFiniteSet(inputsStored \ {f})
    BY <2>1, FS_RemoveElement
  <2> QED
    BY <1>0, <2>1, <2>2, FS_AddElement
<1>7. InputFiles!InputLimitKept'
  <2>1. InputFiles!TotalSize(inputsStored') = InputFiles!TotalSize(inputsStored)
    BY <1>0, <1>2, <1>4, <1>6, TotalSwapped DEF InputTypes
  <2> QED
    BY <1>0, <2>1 DEF InputFiles!IInv, InputFiles!InputLimitKept
<1>8. InputFiles!NamesAreApart'
  <2>1. InputFiles!Apart(inputsStored')
    BY <1>0, <1>2, <1>3 DEF InputFiles!NamesAreApart, InputFiles!Apart
  <2> QED
    BY <1>0, <1>6, <2>1, InputsLibrary DEF InputFiles!NamesAreApart
<1>9. inputsRequest.at = "done" /\ inputsRequest'.at = "done"
  BY <1>0 DEF InputFiles!RowIsOfRequest
<1>10. InputFiles!RowIsOfRequest'
  BY <1>0, <1>9 DEF InputFiles!RowIsOfRequest, InputFiles!agentVars
<1>11. InputFiles!ManifestIsStored'
  BY <1>0, <1>9 DEF InputFiles!ManifestIsStored, InputTypes
<1>12. /\ InputFiles!RunsOnItsInputs' /\ InputFiles!NothingLeftAfterResult'
       /\ InputFiles!CopyGoesOn' /\ InputFiles!EndIsCleaned'
  BY <1>0 DEF InputFiles!IInv, InputFiles!agentVars,
              InputFiles!RunsOnItsInputs, InputFiles!NothingLeftAfterResult,
              InputFiles!CopyGoesOn, InputFiles!EndIsCleaned
<1> QED
  BY <1>5, <1>7, <1>8, <1>10, <1>11, <1>12 DEF InputFiles!IInv

-----------------------------------------------------------------------------
(* Inputs: the agent. *)

(* Nothing an agent does changes what the server stores.                   *)
LEMMA ServerUntouched ==
  ASSUME InputFiles!IInv, UNCHANGED InputFiles!serverVars,
         inputsFaults' \in Nat, inputsFaults' >= inputsFaults
  PROVE  /\ InputFiles!ManifestIsStored' /\ InputFiles!InputLimitKept'
         /\ InputFiles!NamesAreApart'
<1>1. /\ InputTypes /\ InputFiles!ManifestIsStored /\ InputFiles!InputLimitKept
      /\ InputFiles!NamesAreApart
      /\ UNCHANGED <<inputsRequest, inputsStored, inputsRow>>
  BY InputTypesHold DEF InputFiles!IInv, InputFiles!serverVars
<1>2. InputFiles!ManifestIsStored'
  BY <1>1 DEF InputFiles!ManifestIsStored, InputTypes
<1>3. InputFiles!InputLimitKept' /\ InputFiles!NamesAreApart'
  BY <1>1 DEF InputFiles!InputLimitKept, InputFiles!NamesAreApart
<1> QED
  BY <1>2, <1>3

LEMMA AgentGoes ==
  ASSUME NEW a \in AttemptRow,
         NEW at \in {"off", "copy", "prepare", "run", "clean", "report", "fail",
                     "failed", "end"}
  PROVE  /\ [a EXCEPT !.at = at] \in AttemptRow
         /\ [a EXCEPT !.at = at].at = at
         /\ [a EXCEPT !.at = at].todo = a.todo
BY DEF AttemptRow

LEMMA AgentCopies ==
  ASSUME NEW a \in AttemptRow, NEW m \in InputFiles!Manifest
  PROVE  /\ [a EXCEPT !.todo = m] \in AttemptRow
         /\ [a EXCEPT !.todo = m].at = a.at
         /\ [a EXCEPT !.todo = m].todo = m
BY DEF AttemptRow


(* What the attempt keeps whatever its agent does.                         *)
AttemptTypes ==
  /\ inputsAgent \in AttemptRow /\ inputsDisk \subseteq InputFiles!File
  /\ container \in {"none", "running", "ended"} /\ completed \in BOOLEAN
  /\ told \in {"no", "ended", "failed"}
  /\ inputsCrashes \in 0 .. Crashes["inputs"]
AttemptOrder ==
  /\ InputFiles!RunsOnItsInputs /\ InputFiles!NothingLeftAfterResult
  /\ InputFiles!CopyGoesOn /\ InputFiles!EndIsCleaned

LEMMA AgentStep ==
  ASSUME InputFiles!IInv, inputsRow.there, UNCHANGED InputFiles!serverVars,
         inputsFaults' \in 0 .. Faults["inputs"], inputsFaults' >= inputsFaults,
         AttemptTypes', AttemptOrder'
  PROVE  InputFiles!IInv'
<1>1. /\ InputTypes /\ InputFiles!RowIsOfRequest
      /\ UNCHANGED <<inputsRequest, inputsStored, inputsRow>>
  BY InputTypesHold DEF InputFiles!IInv, InputFiles!serverVars
<1>2. InputFiles!TypeOK'
  BY <1>1, InputTypesHold DEF InputTypes, AttemptTypes
<1>3. InputFiles!RowIsOfRequest'
  BY <1>1 DEF InputFiles!RowIsOfRequest
<1>4. inputsFaults' \in Nat
  BY InputsAssumption
<1> QED
  BY <1>2, <1>3, <1>4, ServerUntouched DEF InputFiles!IInv, AttemptOrder

LEMMA CopyStep ==
  ASSUME InputFiles!IInv, InputFiles!Copy
  PROVE  InputFiles!IInv'
<1>0. /\ InputTypes /\ inputsRow.there /\ AttemptOrder
      /\ InputFiles!NamesAreApart /\ InputFiles!RowIsOfRequest
      /\ inputsAgent.at = "copy" /\ inputsAgent.todo # <<>>
      /\ inputsAgent.todo \in InputFiles!Manifest
      /\ UNCHANGED <<InputFiles!serverVars, container, told, completed, inputsFaults,
                     inputsCrashes>>
  BY InputTypesHold DEF InputFiles!IInv, InputFiles!RowIsOfRequest, InputFiles!Copy,
     AttemptOrder, InputTypes, AttemptRow
<1> DEFINE file == Head(inputsAgent.todo)
           rest == Tail(inputsAgent.todo)
<1>1. /\ file \in InputFiles!File /\ rest \in InputFiles!Manifest
      /\ InputFiles!Range(inputsAgent.todo) = {file} \cup InputFiles!Range(rest)
  BY <1>0, ManifestHead
<1>2. PICK received :
         IF InputFiles!downloadInput(file.content, received)
         THEN /\ inputsAgent' = [inputsAgent EXCEPT !.todo = rest]
              /\ inputsDisk' = {f \in inputsDisk : f.path # file.path}
                                 \cup {[file EXCEPT !.content = received]}
         ELSE InputFiles!Goes("fail") /\ inputsDisk' = {}
  BY DEF InputFiles!Copy
<1> HIDE DEF file, rest
<1>3. container = "none" /\ told = "no" /\ UNCHANGED <<inputsRow, inputsRequest>>
  BY <1>0 DEF AttemptOrder, InputFiles!CopyGoesOn, InputFiles!serverVars
<1>4. inputsFaults' \in 0 .. Faults["inputs"] /\ inputsFaults' >= inputsFaults
  BY <1>0, InputsAssumption DEF InputTypes
<1>5. CASE InputFiles!downloadInput(file.content, received)
  <2>1. [file EXCEPT !.content = received] = file
    BY <1>1, <1>5 DEF InputFiles!downloadInput, InputFiles!File
  <2>2. /\ inputsAgent' = [inputsAgent EXCEPT !.todo = rest]
        /\ inputsDisk' = {f \in inputsDisk : f.path # file.path} \cup {file}
    BY <1>2, <1>5, <2>1
  <2>3. /\ inputsAgent' \in AttemptRow /\ inputsAgent'.at = "copy" /\ inputsAgent'.todo = rest
    BY <1>0, <1>1, <2>2, AgentCopies DEF InputTypes
  <2>4. AttemptTypes'
    BY <1>0, <1>1, <2>2, <2>3 DEF InputTypes, AttemptTypes
  <2>5. inputsDisk \cup {file} \cup InputFiles!Range(rest) = InputFiles!Range(inputsRow.manifest)
    BY <1>0, <1>1 DEF AttemptOrder, InputFiles!CopyGoesOn
  <2>6. InputFiles!Apart(InputFiles!Range(inputsRow.manifest))
    BY <1>0 DEF InputFiles!NamesAreApart, InputFiles!RowIsOfRequest
  <2>7. \A f \in inputsDisk : f.path = file.path => f = file
    BY <2>5, <2>6 DEF InputFiles!Apart
  <2>8. inputsDisk' = inputsDisk \cup {file}
    BY <2>2, <2>7
  <2>9. AttemptOrder'
    BY <1>0, <1>3, <2>3, <2>5, <2>8
       DEF AttemptOrder, InputFiles!RunsOnItsInputs, InputFiles!NothingLeftAfterResult,
           InputFiles!CopyGoesOn, InputFiles!EndIsCleaned
  <2> QED
    BY <1>0, <1>4, <2>4, <2>9, AgentStep
<1>6. CASE ~InputFiles!downloadInput(file.content, received)
  <2>1. inputsAgent' \in AttemptRow /\ inputsAgent'.at = "fail" /\ inputsDisk' = {}
    <3>1. inputsAgent \in AttemptRow /\ inputsAgent' = [inputsAgent EXCEPT !.at = "fail"]
      BY <1>0, <1>2, <1>6 DEF InputTypes, InputFiles!Goes
    <3> QED
      BY <1>2, <1>6, <3>1, AgentGoes
  <2>2. AttemptTypes'
    BY <1>0, <2>1 DEF InputTypes, AttemptTypes
  <2>3. AttemptOrder'
    BY <1>0, <1>3, <2>1
       DEF AttemptOrder, InputFiles!RunsOnItsInputs, InputFiles!NothingLeftAfterResult,
           InputFiles!CopyGoesOn, InputFiles!EndIsCleaned
  <2> QED
    BY <1>0, <1>4, <2>2, <2>3, AgentStep
<1> QED
  BY <1>5, <1>6

LEMMA materializeStep ==
  ASSUME InputFiles!IInv, InputFiles!materializeInputs
  PROVE  InputFiles!IInv'
<1>0. /\ InputTypes /\ inputsRow.there /\ told = "no" /\ container = "none"
      /\ inputsAgent' = [at |-> "copy", todo |-> inputsRow.manifest] /\ inputsDisk' = {}
      /\ UNCHANGED <<InputFiles!serverVars, container, told, completed, inputsFaults,
                     inputsCrashes>>
  BY InputTypesHold DEF InputFiles!IInv, InputFiles!materializeInputs
<1>1. /\ inputsAgent' \in AttemptRow /\ inputsAgent'.at = "copy"
      /\ inputsAgent'.todo = inputsRow.manifest
  BY <1>0 DEF InputTypes, AttemptRow, JobRow
<1>2. UNCHANGED inputsRow
  BY <1>0 DEF InputFiles!serverVars
<1>3. AttemptTypes'
  BY <1>0, <1>1 DEF InputTypes, AttemptTypes
<1>4. AttemptOrder'
  BY <1>0, <1>1, <1>2
     DEF AttemptOrder, InputFiles!RunsOnItsInputs, InputFiles!NothingLeftAfterResult,
         InputFiles!CopyGoesOn, InputFiles!EndIsCleaned
<1>5. inputsFaults' \in 0 .. Faults["inputs"] /\ inputsFaults' >= inputsFaults
  BY <1>0, InputsAssumption DEF InputTypes
<1> QED
  BY <1>0, <1>3, <1>4, <1>5, AgentStep

(* The remaining steps of the agent go from one point to another.          *)
LEMMA AgentMoves ==
  ASSUME InputFiles!IInv,
         \/ InputFiles!CopyFails \/ InputFiles!Copied \/ InputFiles!Start
         \/ InputFiles!Fails \/ InputFiles!Ended \/ InputFiles!Clean
         \/ InputFiles!Report \/ InputFiles!fail \/ InputFiles!DeferredCleanup
         \/ InputFiles!Crash \/ InputFiles!reconcile
  PROVE  InputFiles!IInv'
<1>0. /\ InputTypes /\ AttemptOrder /\ InputFiles!RowIsOfRequest
  BY InputTypesHold DEF InputFiles!IInv, AttemptOrder
<1>1. /\ inputsRow.there /\ UNCHANGED InputFiles!serverVars /\ UNCHANGED inputsRow
      /\ \E at \in {"off", "prepare", "run", "clean", "report", "fail", "failed", "end"} :
           InputFiles!Goes(at)
  BY <1>0 DEF InputFiles!RowIsOfRequest, InputFiles!CopyFails, InputFiles!Copied,
     InputFiles!Start, InputFiles!Fails, InputFiles!Ended, InputFiles!Clean,
     InputFiles!removeMaterializedInputs, InputFiles!Report, InputFiles!fail,
     InputFiles!DeferredCleanup, InputFiles!Crash, InputFiles!reconcile,
     InputFiles!serverVars
<1>2. /\ inputsFaults' \in 0 .. Faults["inputs"] /\ inputsFaults' >= inputsFaults
      /\ inputsCrashes' \in 0 .. Crashes["inputs"]
  BY <1>0, InputsAssumption DEF InputTypes, InputFiles!CopyFails, InputFiles!Copied,
     InputFiles!Start, InputFiles!Fails, InputFiles!Ended, InputFiles!Clean,
     InputFiles!Report, InputFiles!fail,
     InputFiles!DeferredCleanup, InputFiles!Crash, InputFiles!reconcile
<1>3. /\ inputsDisk' \subseteq InputFiles!File
      /\ container' \in {"none", "running", "ended"} /\ completed' \in BOOLEAN
      /\ told' \in {"no", "ended", "failed"}
  BY <1>0 DEF InputTypes, InputFiles!CopyFails, InputFiles!Copied,
     InputFiles!Start, InputFiles!Fails, InputFiles!Ended, InputFiles!Clean,
     InputFiles!removeMaterializedInputs, InputFiles!Report, InputFiles!fail,
     InputFiles!DeferredCleanup, InputFiles!Crash, InputFiles!reconcile
<1>4. /\ inputsAgent' \in AttemptRow
      /\ \A at \in {"off", "prepare", "run", "clean", "report", "fail", "failed", "end"} :
           InputFiles!Goes(at) => inputsAgent'.at = at /\ inputsAgent'.todo = inputsAgent.todo
  <2>1. inputsAgent \in AttemptRow
    BY <1>0 DEF InputTypes
  <2>2. ASSUME NEW at \in {"off", "prepare", "run", "clean", "report", "fail", "failed", "end"},
               InputFiles!Goes(at)
        PROVE  /\ inputsAgent' \in AttemptRow
               /\ inputsAgent'.at = at /\ inputsAgent'.todo = inputsAgent.todo
    <3>1. inputsAgent' = [inputsAgent EXCEPT !.at = at]
      BY <2>2 DEF InputFiles!Goes
    <3>2. at \in {"off", "copy", "prepare", "run", "clean", "report", "fail", "failed", "end"}
      OBVIOUS
    <3> HIDE DEF AttemptRow
    <3>3. /\ [inputsAgent EXCEPT !.at = at] \in AttemptRow
          /\ [inputsAgent EXCEPT !.at = at].at = at
          /\ [inputsAgent EXCEPT !.at = at].todo = inputsAgent.todo
      BY <2>1, <3>2, AgentGoes
    <3> QED
      BY <3>1, <3>3
  <2> QED
    BY <1>1, <2>2
<1>5. AttemptTypes'
  BY <1>2, <1>3, <1>4 DEF AttemptTypes
<1>6. AttemptOrder'
  <2> USE <1>0, <1>1, <1>4 DEF AttemptOrder, InputFiles!RunsOnItsInputs,
        InputFiles!NothingLeftAfterResult, InputFiles!CopyGoesOn, InputFiles!EndIsCleaned
  <2>1. CASE InputFiles!CopyFails
    BY <2>1 DEF InputFiles!CopyFails
  <2>2. CASE InputFiles!Copied
    <3>1. InputFiles!Range(inputsAgent.todo) = {}
      BY <2>2, ManifestEmpty DEF InputFiles!Copied
    <3> QED
      BY <2>2, <3>1 DEF InputFiles!Copied
  <2>3. CASE InputFiles!Start
    BY <2>3 DEF InputFiles!Start
  <2>4. CASE InputFiles!Fails
    BY <2>4 DEF InputFiles!Fails
  <2>5. CASE InputFiles!Ended
    BY <2>5 DEF InputFiles!Ended
  <2>6. CASE InputFiles!Clean
    BY <2>6 DEF InputFiles!Clean, InputFiles!removeMaterializedInputs
  <2>7. CASE InputFiles!Report
    BY <2>7 DEF InputFiles!Report, InputTypes
  <2>8. CASE InputFiles!fail
    BY <2>8 DEF InputFiles!fail, InputTypes
  <2>9. CASE InputFiles!DeferredCleanup
    BY <2>9 DEF InputFiles!DeferredCleanup
  <2>10. CASE InputFiles!Crash
    BY <2>10 DEF InputFiles!Crash
  <2>11. CASE InputFiles!reconcile
    BY <2>11 DEF InputFiles!reconcile
  <2> QED
    BY <2>1, <2>2, <2>3, <2>4, <2>5, <2>6, <2>7, <2>8, <2>9, <2>10, <2>11
<1> QED
  BY <1>1, <1>2, <1>5, <1>6, AgentStep

LEMMA InputsSteps ==
  ASSUME InputFiles!IInv, InputFiles!Next
  PROVE  InputFiles!IInv'
<1>1. CASE InputFiles!RequestFails
  BY <1>1, RefuseStep DEF InputFiles!RequestFails
<1>2. CASE \/ InputFiles!CopyFails \/ InputFiles!Copied \/ InputFiles!Start
           \/ InputFiles!Fails \/ InputFiles!Ended \/ InputFiles!Clean
           \/ InputFiles!Report \/ InputFiles!fail \/ InputFiles!DeferredCleanup
           \/ InputFiles!Crash \/ InputFiles!reconcile
  BY <1>2, AgentMoves
<1> QED
  BY <1>1, <1>2, ReadSpecStep, ReadInputStep, CreateJobStep, DamageStep, materializeStep,
     CopyStep DEF InputFiles!Next

(* The stored inputs are those of the manifest and keep the limit, a       *)
(* container runs on exactly these, and when its end is reported none is   *)
(* left on the node (StoreInput, createJob, materializeInputs,             *)
(* removeMaterializedInputs).                                              *)
THEOREM InputsAreTheJobs == Spec => []JobRunsOnItsInputs
<1>1. ASSUME InputFiles!IInv, [Next]_vars
      PROVE  InputFiles!IInv'
  <2>1. CASE part = "inputs" /\ InputFiles!Next
    BY <1>1, <2>1, InputsSteps
  <2>2. CASE UNCHANGED inputsVars
    BY <1>1, <2>2, InputTypesHold
       DEF inputsVars, InputFiles!IInv, InputTypes, InputFiles!ManifestIsStored,
           InputFiles!InputLimitKept, InputFiles!RunsOnItsInputs,
           InputFiles!NothingLeftAfterResult, InputFiles!NamesAreApart,
           InputFiles!RowIsOfRequest, InputFiles!CopyGoesOn, InputFiles!EndIsCleaned
  <2> QED
    BY <1>1, <2>1, <2>2 DEF Next, vars
<1>2. InputFiles!IInv => JobRunsOnItsInputs
  BY DEF JobRunsOnItsInputs, InputFiles!IInv
<1> QED
  BY InputsInitially, <1>1, <1>2, PTL DEF Spec

-----------------------------------------------------------------------------
(* Outputs: the file that is next, the lengths and their sum. *)

LEMMA OutputSums ==
  ASSUME NEW F, NEW S
  PROVE  Outputs!SumFunctionOnSet(F, S) = SumFunctionOnSet(F, S)
BY DEF Outputs!SumFunctionOnSet, Outputs!FoldFunctionOnSet,
       Outputs!MapThenFoldSet, SumFunctionOnSet, FoldFunctionOnSet, MapThenFoldSet

LEMMA NextFile ==
  ASSUME NEW S, S \subseteq Nat, S # {}
  PROVE  Outputs!Min(S) \in S
<1>1. PICK m \in S : \A n \in S : m <= n
  BY LeastNumber
<1> QED
  BY <1>1 DEF Outputs!Min

Units == 0 .. MaxLength
PassRow(D) == [at : {"off", "walk", "report", "done"}, todo : SUBSET D,
               offset : Units, list : SUBSET D]
OutputTypes ==
  /\ DOMAIN outputsDisk \subseteq OutputFiles
  /\ \A f \in DOMAIN outputsDisk : outputsDisk[f] \in Units
  /\ outputsDisk = [f \in DOMAIN outputsDisk |-> outputsDisk[f]]
  /\ outputsStored \in [OutputFiles -> {-1} \cup Units]
  /\ outputsPass \in PassRow(DOMAIN outputsDisk)
  /\ manifest = {-1} \/ manifest \subseteq DOMAIN outputsDisk
  /\ outputsOwner \in BOOLEAN /\ lost \in BOOLEAN
  /\ outputsFaults \in 0 .. Faults["outputs"]
  /\ outputsCrashes \in 0 .. Crashes["outputs"]

LEMMA OutputTypesAre ==
  (Outputs!TypeOK <=> OutputTypes) /\ (Outputs!TypeOK' <=> OutputTypes')
<1>1. /\ Outputs!None = {-1} /\ {Outputs!Absent} \cup 0 .. MaxLength = {-1} \cup Units
      /\ \A D : [at : {"off", "walk", "report", "done"}, todo : SUBSET D,
                 offset : 0 .. MaxLength, list : SUBSET D] = PassRow(D)
  BY DEF Outputs!None, Outputs!Absent, Units, PassRow
<1>2. ASSUME NEW d, NEW D
      PROVE  d \in [D -> 0 .. MaxLength] <=>
               (\A f \in D : d[f] \in Units) /\ d = [f \in D |-> d[f]]
  BY DEF Units
<1>3. Outputs!TypeOK <=> OutputTypes
  BY <1>1, <1>2 DEF Outputs!TypeOK, OutputTypes
<1>4. Outputs!TypeOK' <=> OutputTypes'
  BY <1>1, <1>2 DEF Outputs!TypeOK, OutputTypes
<1> QED
  BY <1>3, <1>4

LEMMA PassMoves ==
  ASSUME NEW D, NEW p \in PassRow(D), NEW at \in {"off", "walk", "report", "done"}
  PROVE  LET q == [p EXCEPT !.at = at]
         IN  /\ q \in PassRow(D) /\ q.at = at /\ q.todo = p.todo
             /\ q.offset = p.offset /\ q.list = p.list
BY DEF PassRow

ListedBy(p, f) == [p EXCEPT !.todo = @ \ {f}, !.offset = 0, !.list = @ \cup {f}]

LEMMA ManifestLists ==
  ASSUME NEW D, NEW p \in PassRow(D), NEW f \in D
  PROVE  /\ ListedBy(p, f) \in PassRow(D) /\ ListedBy(p, f).at = p.at
         /\ ListedBy(p, f).todo = p.todo \ {f}
         /\ ListedBy(p, f).offset = 0 /\ ListedBy(p, f).list = p.list \cup {f}
<1> DEFINE todo == p.todo \ {f}
           list == p.list \cup {f}
<1>1. todo \in SUBSET D /\ list \in SUBSET D /\ 0 \in Units
  BY OutputsAssumption DEF PassRow, Units
<1> HIDE DEF todo, list
<1>2. LET q == [p EXCEPT !.todo = todo, !.offset = 0, !.list = list]
      IN  /\ q \in PassRow(D) /\ q.at = p.at /\ q.todo = todo
          /\ q.offset = 0 /\ q.list = list
  BY <1>1 DEF PassRow
<1> QED
  BY <1>2 DEF todo, list, ListedBy

LEMMA ManifestSends ==
  ASSUME NEW D, NEW p \in PassRow(D), p.offset < MaxLength
  PROVE  LET q == [p EXCEPT !.offset = @ + 1]
         IN  /\ q \in PassRow(D) /\ q.at = p.at /\ q.todo = p.todo
             /\ q.offset = p.offset + 1 /\ q.list = p.list
<1>1. p.offset + 1 \in Units
  BY OutputsAssumption DEF PassRow, Units
<1> QED
  BY <1>1 DEF PassRow

LEMMA PassParts ==
  ASSUME NEW D, NEW p \in PassRow(D)
  PROVE  /\ p.at \in {"off", "walk", "report", "done"} /\ p.todo \subseteq D
         /\ p.offset \in Nat /\ p.offset <= MaxLength /\ p.list \subseteq D
BY OutputsAssumption DEF PassRow, Units

LEMMA PassBegins ==
  ASSUME NEW D
  PROVE  LET p == [at |-> "walk", todo |-> D, offset |-> 0, list |-> {}]
             q == [at |-> "off", todo |-> {}, offset |-> 0, list |-> {}]
         IN  p \in PassRow(D) /\ q \in PassRow(D)
BY OutputsAssumption DEF PassRow, Units

(* What the server has of the files, and what there is of them. *)
LengthsOf(s) == [f \in OutputFiles |-> IF s[f] = -1 THEN 0 ELSE s[f]]
WrittenOf(d) == [f \in OutputFiles |-> IF f \in DOMAIN d THEN d[f] ELSE 0]
Total(F) == SumFunctionOnSet(F, OutputFiles)

LEMMA LengthsAreUnits ==
  ASSUME NEW s \in [OutputFiles -> {-1} \cup Units]
  PROVE  /\ \A f \in OutputFiles : /\ LengthsOf(s)[f] \in Nat /\ LengthsOf(s)[f] \in Units
                                   /\ LengthsOf(s)[f] = IF s[f] = -1 THEN 0 ELSE s[f]
         /\ Total(LengthsOf(s)) \in Nat
<1>1. \A f \in OutputFiles : /\ LengthsOf(s)[f] \in Nat /\ LengthsOf(s)[f] \in Units
                             /\ LengthsOf(s)[f] = IF s[f] = -1 THEN 0 ELSE s[f]
  BY OutputsAssumption DEF LengthsOf, Units
<1> QED
  BY <1>1, SumType, OutputsAssumption DEF Total

LEMMA UnitsAreSummed ==
  /\ Outputs!Used = Total(LengthsOf(outputsStored))
  /\ Outputs!Used' = Total(LengthsOf(outputsStored'))
  /\ Outputs!Fits <=> Total(WrittenOf(outputsDisk)) <= Limit["outputs"]
  /\ \A f \in OutputFiles : /\ LengthsOf(outputsStored)[f] = Outputs!Length(f)
                            /\ LengthsOf(outputsStored')[f] = Outputs!Length(f)'
                            /\ WrittenOf(outputsDisk)[f] = Outputs!Written(f)
<1>1. Outputs!Used = Total(LengthsOf(outputsStored))
  BY OutputSums DEF Outputs!Used, LengthsOf, Total, Outputs!Length, Outputs!Absent
<1>2. Outputs!Used' = Total(LengthsOf(outputsStored'))
  BY OutputSums DEF Outputs!Used, LengthsOf, Total, Outputs!Length, Outputs!Absent
<1>3. Outputs!Fits <=> Total(WrittenOf(outputsDisk)) <= Limit["outputs"]
  BY OutputSums DEF Outputs!Fits, WrittenOf, Total, Outputs!Written
<1>4. \A f \in OutputFiles : /\ LengthsOf(outputsStored)[f] = Outputs!Length(f)
                             /\ LengthsOf(outputsStored')[f] = Outputs!Length(f)'
                             /\ WrittenOf(outputsDisk)[f] = Outputs!Written(f)
  BY DEF LengthsOf, WrittenOf, Outputs!Length, Outputs!Absent, Outputs!Written
<1> QED
  BY <1>1, <1>2, <1>3, <1>4

(* One unit more of a file is one unit more of all. *)
LEMMA OneUnitMore ==
  ASSUME NEW F, NEW G, NEW f \in OutputFiles,
         \A g \in OutputFiles : F[g] \in Nat /\ G[g] \in Nat,
         \A g \in OutputFiles \ {f} : F[g] = G[g], G[f] = F[f] + 1
  PROVE  Total(G) = Total(F) + 1
<1> DEFINE S == OutputFiles
<1>0. /\ IsFiniteSet(S) /\ f \in S /\ \A g \in S : F[g] \in Nat /\ G[g] \in Nat
      /\ \A g \in S \ {f} : F[g] = G[g]
  BY OutputsAssumption
<1> HIDE DEF S
<1>1. SumFunctionOnSet(G, S) + F[f] = SumFunctionOnSet(F, S) + G[f]
  BY <1>0, SumChanged
<1>2. SumFunctionOnSet(G, S) \in Nat /\ SumFunctionOnSet(F, S) \in Nat /\ F[f] \in Nat
  BY <1>0, SumType
<1> QED
  BY <1>1, <1>2 DEF S, Total

(* What becomes of a file when a chunk of it arrives (appendOutput).       *)
Uploading ==
  /\ outputsPass.at = "walk" /\ outputsPass.todo # {}
  /\ outputsPass.offset < outputsDisk[Outputs!File]

LEMMA UploadedFile ==
  ASSUME OutputTypes, outputsPass.todo # {}
  PROVE  /\ Outputs!File \in outputsPass.todo /\ Outputs!File \in OutputFiles
         /\ Outputs!File \in DOMAIN outputsDisk
<1>1. outputsPass.todo \subseteq DOMAIN outputsDisk /\ outputsPass.todo \subseteq Nat
  BY PassParts, OutputsAssumption DEF OutputTypes
<1>2. Outputs!File \in outputsPass.todo
  BY <1>1, NextFile DEF Outputs!File
<1> QED
  BY <1>1, <1>2 DEF OutputTypes

(* It is taken or left as it is; nobody but the owner changes anything, a  *)
(* whole file stays whole, and the limit holds with the chunk.             *)
Answer == Outputs!appendOutput(Outputs!File, outputsPass.offset)

LEMMA ChunkArrives ==
  ASSUME OutputTypes, Uploading, Outputs!OutputLimitKept,
         \A f \in OutputFiles : Outputs!Length(f) <= Outputs!Written(f),
         outputsStored' = [outputsStored EXCEPT ![Outputs!File] = Answer.length],
         UNCHANGED outputsDisk
  PROVE  /\ outputsStored' \in [OutputFiles -> {-1} \cup Units]
         /\ \A f \in OutputFiles : Outputs!Length(f)' <= Outputs!Written(f)'
         /\ \A f \in DOMAIN outputsDisk :
              outputsDisk[f] > 0 /\ outputsStored[f] = outputsDisk[f]
                => outputsStored'[f] = outputsDisk[f]
         /\ \A f \in OutputFiles : f # Outputs!File => Outputs!Length(f)' = Outputs!Length(f)
         /\ Answer.ok => outputsStored'[Outputs!File] = outputsPass.offset + 1
         /\ Outputs!OutputLimitKept'
<1>0. PICK f : f = Outputs!File
  OBVIOUS
<1> DEFINE n == outputsPass.offset
           k == Answer.length
<1>1. /\ f \in OutputFiles /\ f \in DOMAIN outputsDisk /\ n \in Nat /\ n < outputsDisk[f]
      /\ outputsDisk[f] \in Units /\ outputsStored[f] \in {-1} \cup Units
      /\ Outputs!Written(f) = outputsDisk[f] /\ Outputs!Length(f) <= outputsDisk[f]
  BY <1>0, UploadedFile, PassParts DEF OutputTypes, Uploading, Outputs!Written
<1>2. \/ ~Answer.ok /\ k = outputsStored[f]
      \/ ~Answer.ok /\ k = Outputs!Length(f)
      \/ Answer.ok /\ k = n + 1 /\ Outputs!Length(f) = n /\ Outputs!Used < Limit["outputs"]
  <2>1. Outputs!Used \in Nat /\ Limit["outputs"] \in Nat
    BY UnitsAreSummed, LengthsAreUnits, OutputsAssumption DEF OutputTypes
  <2> QED
    BY <1>0, <2>1 DEF Answer, Outputs!appendOutput
<1>3. /\ outputsStored' = [outputsStored EXCEPT ![f] = k]
      /\ k \in {-1} \cup Units
      /\ outputsStored'[f] = k /\ \A g \in OutputFiles \ {f} : outputsStored'[g] = outputsStored[g]
      /\ outputsStored' \in [OutputFiles -> {-1} \cup Units]
  <2>1. k \in {-1} \cup Units
    BY <1>1, <1>2, OutputsAssumption DEF Units, Outputs!Length, Outputs!Absent
  <2> HIDE DEF k
  <2>2. outputsStored \in [OutputFiles -> {-1} \cup Units] /\ f \in OutputFiles
    BY <1>1 DEF OutputTypes
  <2>3. outputsStored' = [outputsStored EXCEPT ![f] = k]
    BY <1>0 DEF k
  <2> QED
    BY <2>1, <2>2, <2>3
<1>4. \A g \in OutputFiles : g # f => Outputs!Length(g)' = Outputs!Length(g)
  BY <1>3 DEF Outputs!Length
<1>5. \A g \in OutputFiles : Outputs!Written(g)' = Outputs!Written(g)
  BY DEF Outputs!Written
<1>6. CASE ~Answer.ok
  <2>1. Outputs!Length(f)' = Outputs!Length(f)
    BY <1>1, <1>2, <1>3, <1>6 DEF Outputs!Length, Outputs!Absent
  <2>2. \A g \in OutputFiles : Outputs!Length(g)' = Outputs!Length(g)
    BY <1>4, <2>1
  <2>3. Outputs!Used' = Outputs!Used
    BY <2>2 DEF Outputs!Used
  <2>4. outputsDisk[f] > 0 /\ outputsStored[f] = outputsDisk[f] => k = outputsDisk[f]
    BY <1>1, <1>2, <1>6 DEF Outputs!Length, Outputs!Absent, Units
  <2>5. \A g \in DOMAIN outputsDisk :
              outputsDisk[g] > 0 /\ outputsStored[g] = outputsDisk[g]
                => outputsStored'[g] = outputsDisk[g]
    BY <1>3, <2>4 DEF OutputTypes
  <2> QED
    BY <1>0, <1>3, <1>4, <1>5, <1>6, <2>2, <2>3, <2>5 DEF Outputs!OutputLimitKept
<1>7. CASE Answer.ok
  <2>1. /\ k = n + 1 /\ Outputs!Length(f) = n /\ Outputs!Used < Limit["outputs"]
    BY <1>2, <1>7
  <2>2. Outputs!Length(f)' = n + 1
    BY <1>1, <1>3, <2>1 DEF Outputs!Length, Outputs!Absent
  <2>3. \A g \in OutputFiles : Outputs!Length(g)' <= Outputs!Written(g)'
    BY <1>1, <1>4, <1>5, <2>2 DEF Units
  <2>4. ~(outputsDisk[f] > 0 /\ outputsStored[f] = outputsDisk[f])
    BY <1>1, <2>1 DEF Outputs!Length, Outputs!Absent, Units
  <2>5. \A g \in DOMAIN outputsDisk :
              outputsDisk[g] > 0 /\ outputsStored[g] = outputsDisk[g]
                => outputsStored'[g] = outputsDisk[g]
    BY <1>3, <2>4 DEF OutputTypes
  <2>6. Outputs!Used' = Outputs!Used + 1
    <3> DEFINE F == LengthsOf(outputsStored)
               G == LengthsOf(outputsStored')
    <3>1. \A g \in OutputFiles : F[g] \in Nat /\ G[g] \in Nat
      BY <1>3, LengthsAreUnits DEF OutputTypes
    <3>2. /\ \A g \in OutputFiles \ {f} : F[g] = G[g]
          /\ G[f] = F[f] + 1
      BY <1>1, <1>4, <2>1, <2>2, UnitsAreSummed
    <3> HIDE DEF F, G
    <3>3. f \in OutputFiles
      BY <1>1
    <3>4. Total(G) = Total(F) + 1
      BY <3>1, <3>2, <3>3, OneUnitMore
    <3> QED
      BY <3>4, UnitsAreSummed DEF F, G
  <2>7. Outputs!OutputLimitKept'
    <3>1. Outputs!Used \in Nat
      BY UnitsAreSummed, LengthsAreUnits DEF OutputTypes
    <3> QED
      BY <2>1, <2>6, <3>1, OutputsAssumption DEF Outputs!OutputLimitKept
  <2> QED
    BY <1>0, <1>3, <1>4, <2>1, <2>3, <2>5, <2>7
<1> QED
  BY <1>6, <1>7

(* What the owner sends of outputs that fit is taken, chunk by chunk.      *)
LEMMA ChunkIsTaken ==
  ASSUME OutputTypes, Uploading, outputsOwner, Outputs!Fits,
         \A f \in OutputFiles : Outputs!Length(f) <= Outputs!Written(f),
         Outputs!Length(Outputs!File) = outputsPass.offset
  PROVE  Answer.ok
<1>0. PICK f : f = Outputs!File
  OBVIOUS
<1> DEFINE n == outputsPass.offset
           F == LengthsOf(outputsStored)
           W == WrittenOf(outputsDisk)
           G == [F EXCEPT ![f] = n + 1]
<1>1. /\ f \in OutputFiles /\ f \in DOMAIN outputsDisk /\ n \in Nat /\ n < outputsDisk[f]
      /\ outputsDisk[f] \in Nat /\ Outputs!Written(f) = outputsDisk[f]
      /\ Outputs!Length(f) = n
  BY <1>0, UploadedFile, PassParts DEF OutputTypes, Uploading, Outputs!Written, Units
<1>2. \A g \in OutputFiles : F[g] \in Nat /\ W[g] \in Nat /\ F[g] <= W[g]
  <2>1. \A g \in OutputFiles : F[g] \in Nat /\ F[g] <= W[g]
    BY UnitsAreSummed, LengthsAreUnits DEF OutputTypes
  <2>2. \A g \in OutputFiles : W[g] \in Nat
    BY OutputsAssumption DEF WrittenOf, OutputTypes, Units
  <2> QED
    BY <2>1, <2>2
<1>3. F[f] = n /\ W[f] = outputsDisk[f]
  BY <1>1, UnitsAreSummed
<1>4. DOMAIN F = OutputFiles
  BY DEF LengthsOf
<1>5. Outputs!Used = Total(F) /\ Total(W) <= Limit["outputs"] /\ Total(F) \in Nat
  BY UnitsAreSummed, LengthsAreUnits DEF OutputTypes
<1> HIDE DEF F, W
<1>6. /\ \A g \in OutputFiles : G[g] \in Nat /\ G[g] <= W[g]
      /\ \A g \in OutputFiles \ {f} : F[g] = G[g]
      /\ G[f] = F[f] + 1
  BY <1>1, <1>2, <1>3, <1>4
<1> HIDE DEF G
<1>7. Total(G) = Total(F) + 1
  BY <1>1, <1>2, <1>6, OneUnitMore
<1>8. Total(G) <= Total(W) /\ Total(W) \in Nat
  BY <1>2, <1>6, SumBelow, SumType, OutputsAssumption DEF Total
<1>9. Outputs!Used < Limit["outputs"] /\ Outputs!Used \in Nat
  BY <1>5, <1>7, <1>8, OutputsAssumption
<1> QED
  BY <1>0, <1>1, <1>9, OutputsAssumption DEF Answer, Outputs!appendOutput

-----------------------------------------------------------------------------
(* The steps. *)

LEMMA OutputsInitially == Init => Outputs!IInv
<1> SUFFICES ASSUME Outputs!Init PROVE Outputs!IInv
  BY DEF Init
<1> DEFINE D == DOMAIN outputsDisk
<1>1. /\ D \subseteq OutputFiles
      /\ \A f \in D : outputsDisk[f] \in Units
      /\ outputsDisk = [f \in D |-> outputsDisk[f]]
  BY DEF Outputs!Init, Units
<1>2. /\ outputsStored = [f \in OutputFiles |-> -1]
      /\ outputsPass = [at |-> "walk", todo |-> D, offset |-> 0, list |-> {}]
      /\ manifest = {-1} /\ outputsOwner = TRUE /\ outputsFaults = 0
      /\ outputsCrashes = 0 /\ lost = FALSE
  BY DEF Outputs!Init, Outputs!Walk, Outputs!None, Outputs!Absent
<1>3. OutputTypes
  <2>1. outputsPass \in PassRow(D)
    BY <1>2, PassBegins
  <2>2. outputsStored \in [OutputFiles -> {-1} \cup Units]
    BY <1>2
  <2>3. 0 \in 0 .. Faults["outputs"] /\ 0 \in 0 .. Crashes["outputs"]
    BY OutputsAssumption
  <2> QED
    BY <1>1, <1>2, <2>1, <2>2, <2>3 DEF OutputTypes
<1>4. /\ \A f \in OutputFiles : Outputs!Length(f) = 0 /\ Outputs!Written(f) \in Nat
  BY <1>1, <1>2, OutputsAssumption DEF Outputs!Length, Outputs!Absent, Outputs!Written, Units
<1>5. Outputs!OutputLimitKept
  <2>1. \A f \in OutputFiles : LengthsOf(outputsStored)[f] = 0
    BY <1>4, UnitsAreSummed
  <2>2. Total(LengthsOf(outputsStored)) = 0
    BY <2>1, SumOfNone, OutputsAssumption DEF Total
  <2> QED
    BY <2>2, UnitsAreSummed, OutputsAssumption DEF Outputs!OutputLimitKept
<1>6. D # {} => Outputs!File \in D
  BY <1>2, <1>3, UploadedFile
<1>7. Outputs!StoredIsWritten
  <2>1. \A f \in OutputFiles : Outputs!Length(f) <= Outputs!Written(f)
    BY <1>4
  <2>2. D # {} => 0 <= outputsDisk[Outputs!File]
    BY <1>1, <1>6, OutputsAssumption DEF Units
  <2> QED
    BY <1>2, <2>1, <2>2 DEF Outputs!StoredIsWritten
<1>8. Outputs!PassIsComplete
  <2>1. D # {} => Outputs!Length(Outputs!File) = 0
    BY <1>1, <1>4, <1>6
  <2>2. Outputs!Ahead
    BY <1>1, <1>2, <1>4, <2>1 DEF Outputs!Ahead
  <2> QED
    BY <1>2, <2>2 DEF Outputs!PassIsComplete
<1> QED
  BY <1>2, <1>3, <1>5, <1>7, <1>8, OutputTypesAre
     DEF Outputs!IInv, Outputs!ListedIsStored, Outputs!EverythingIsListed, Outputs!None

(* What is listed stays whole, and is everything, through every step that  *)
(* reports nothing.                                                        *)
LEMMA ManifestKept ==
  ASSUME Outputs!ListedIsStored, Outputs!EverythingIsListed, OutputTypes,
         UNCHANGED <<outputsDisk, manifest>>, lost => lost',
         \A f \in DOMAIN outputsDisk :
              outputsDisk[f] > 0 /\ outputsStored[f] = outputsDisk[f]
                => outputsStored'[f] = outputsDisk[f]
  PROVE  Outputs!ListedIsStored' /\ Outputs!EverythingIsListed'
<1>1. Outputs!Fits' <=> Outputs!Fits
  BY DEF Outputs!Fits, Outputs!Written
<1>2. Outputs!EverythingIsListed'
  BY <1>1 DEF Outputs!EverythingIsListed
<1>3. manifest # {-1} => manifest \subseteq DOMAIN outputsDisk
  BY DEF OutputTypes
<1>4. Outputs!ListedIsStored'
  BY <1>3 DEF Outputs!ListedIsStored, Outputs!None
<1> QED
  BY <1>2, <1>4

(* A chunk whose request or answer is lost, or which is refused, ends the  *)
(* walk with the list so far.                                              *)
LEMMA AbortStep ==
  ASSUME OutputTypes, Outputs!Abort
  PROVE  /\ outputsPass' \in PassRow(DOMAIN outputsDisk)
         /\ outputsPass'.at = "report" /\ outputsPass'.list = outputsPass.list
<1>1. /\ outputsPass \in PassRow(DOMAIN outputsDisk)
      /\ outputsPass' = [outputsPass EXCEPT !.at = "report"]
  BY DEF OutputTypes, Outputs!Abort
<1> QED
  BY <1>1, PassMoves

LEMMA UploadChunkStep ==
  ASSUME Outputs!IInv, Outputs!UploadChunk
  PROVE  Outputs!IInv'
<1>0. /\ OutputTypes /\ Uploading /\ Outputs!OutputLimitKept
      /\ \A f \in OutputFiles : Outputs!Length(f) <= Outputs!Written(f)
      /\ \A f \in outputsPass.list : outputsDisk[f] > 0 => outputsStored[f] = outputsDisk[f]
      /\ outputsStored' = [outputsStored EXCEPT ![Outputs!File] = Answer.length]
      /\ IF Answer.ok THEN outputsPass' = [outputsPass EXCEPT !.offset = @ + 1]
                      ELSE Outputs!Abort
      /\ UNCHANGED <<outputsDisk, manifest, outputsOwner, outputsFaults, outputsCrashes, lost>>
  BY OutputTypesAre DEF Outputs!IInv, Outputs!UploadChunk, Outputs!StoredIsWritten,
     Uploading, Answer
<1>1. /\ outputsStored' \in [OutputFiles -> {-1} \cup Units]
      /\ \A f \in OutputFiles : Outputs!Length(f)' <= Outputs!Written(f)'
      /\ \A f \in DOMAIN outputsDisk :
           outputsDisk[f] > 0 /\ outputsStored[f] = outputsDisk[f]
             => outputsStored'[f] = outputsDisk[f]
      /\ \A f \in OutputFiles : f # Outputs!File => Outputs!Length(f)' = Outputs!Length(f)
      /\ Answer.ok => outputsStored'[Outputs!File] = outputsPass.offset + 1
      /\ Outputs!OutputLimitKept'
  BY <1>0, ChunkArrives
<1>2. Outputs!ListedIsStored' /\ Outputs!EverythingIsListed'
  BY <1>0, <1>1, ManifestKept DEF Outputs!IInv
<1>3. outputsPass.list \subseteq DOMAIN outputsDisk /\ outputsPass.offset \in Nat
  BY <1>0, PassParts DEF OutputTypes
<1>4. Outputs!Fits' <=> Outputs!Fits
  BY <1>0 DEF Outputs!Fits, Outputs!Written
<1>5. CASE ~Answer.ok
  <2>1. /\ outputsPass' \in PassRow(DOMAIN outputsDisk)
        /\ outputsPass'.at = "report" /\ outputsPass'.list = outputsPass.list
    BY <1>0, <1>5, AbortStep
  <2>2. OutputTypes'
    BY <1>0, <1>1, <2>1 DEF OutputTypes
  <2>3. Outputs!StoredIsWritten'
    BY <1>0, <1>1, <1>3, <2>1 DEF Outputs!StoredIsWritten
  <2>4. ~(outputsOwner /\ ~lost /\ Outputs!Fits)
    <3> SUFFICES ASSUME outputsOwner, ~lost, Outputs!Fits PROVE FALSE
      OBVIOUS
    <3>1. Outputs!Length(Outputs!File) = outputsPass.offset
      BY <1>0 DEF Outputs!IInv, Outputs!PassIsComplete, Outputs!Ahead, Uploading
    <3> QED
      BY <1>0, <1>5, <3>1, ChunkIsTaken
  <2>5. Outputs!PassIsComplete'
    BY <1>0, <1>4, <2>4 DEF Outputs!PassIsComplete
  <2> QED
    BY <1>1, <1>2, <2>2, <2>3, <2>5, OutputTypesAre DEF Outputs!IInv
<1>6. CASE Answer.ok
  <2>0. PICK f : f = Outputs!File
    OBVIOUS
  <2>1. /\ f \in outputsPass.todo /\ f \in OutputFiles /\ f \in DOMAIN outputsDisk
        /\ outputsPass.offset < outputsDisk[f] /\ outputsDisk[f] \in Units
        /\ outputsDisk[f] \in Nat /\ outputsDisk[f] <= MaxLength
    BY <1>0, <2>0, UploadedFile, OutputsAssumption DEF Uploading, OutputTypes, Units
  <2>2. /\ outputsPass' \in PassRow(DOMAIN outputsDisk)
        /\ outputsPass'.at = "walk" /\ outputsPass'.list = outputsPass.list
        /\ outputsPass'.todo = outputsPass.todo
        /\ outputsPass'.offset = outputsPass.offset + 1
    <3>1. outputsPass' = [outputsPass EXCEPT !.offset = @ + 1]
      BY <1>0, <1>6
    <3>2. outputsPass.offset < MaxLength /\ outputsPass \in PassRow(DOMAIN outputsDisk)
      BY <1>0, <1>3, <2>1, OutputsAssumption DEF OutputTypes
    <3> QED
      BY <1>0, <3>1, <3>2, ManifestSends DEF Uploading
  <2>3. OutputTypes'
    BY <1>0, <1>1, <2>2 DEF OutputTypes
  <2>4. Outputs!File' = f
    BY <2>0, <2>2 DEF Outputs!File
  <2>5. outputsStored'[f] = outputsPass.offset + 1
    BY <1>1, <1>6, <2>0
  <2>6. Outputs!StoredIsWritten'
    BY <1>0, <1>1, <1>3, <2>1, <2>2, <2>4, <2>5 DEF Outputs!StoredIsWritten
  <2>7. Outputs!Length(f)' = outputsPass.offset + 1
    BY <1>3, <2>5 DEF Outputs!Length, Outputs!Absent
  <2>8. ASSUME outputsOwner, ~lost, Outputs!Fits
        PROVE  Outputs!Ahead'
    <3>1. /\ outputsPass.list = DOMAIN outputsDisk \ outputsPass.todo
          /\ \A g \in outputsPass.todo : g # f => Outputs!Length(g) = 0
      BY <1>0, <2>0, <2>8 DEF Outputs!IInv, Outputs!PassIsComplete, Outputs!Ahead, Uploading
    <3>2. \A g \in outputsPass.todo : g \in OutputFiles
      BY <1>0, PassParts DEF OutputTypes
    <3>3. \A g \in outputsPass'.todo : g # f => Outputs!Length(g)' = 0
      BY <1>1, <2>0, <2>2, <3>1, <3>2
    <3>4. outputsPass'.todo # {} => Outputs!Length(Outputs!File)' = outputsPass'.offset
      BY <2>2, <2>4, <2>7 DEF Outputs!Length
    <3> QED
      BY <1>0, <2>2, <2>4, <3>1, <3>3, <3>4 DEF Outputs!Ahead
  <2>9. Outputs!PassIsComplete'
    BY <1>0, <1>4, <2>2, <2>8 DEF Outputs!PassIsComplete
  <2> QED
    BY <1>1, <1>2, <2>3, <2>6, <2>9, OutputTypesAre DEF Outputs!IInv
<1> QED
  BY <1>5, <1>6

LEMMA ChunkLostStep ==
  ASSUME Outputs!IInv, Outputs!ChunkLost
  PROVE  Outputs!IInv'
<1>0. /\ OutputTypes /\ Uploading /\ Outputs!OutputLimitKept
      /\ \A f \in OutputFiles : Outputs!Length(f) <= Outputs!Written(f)
      /\ \A f \in outputsPass.list : outputsDisk[f] > 0 => outputsStored[f] = outputsDisk[f]
      /\ \/ outputsStored' = outputsStored
         \/ outputsStored' = [outputsStored EXCEPT ![Outputs!File] = Answer.length]
      /\ Outputs!Abort /\ lost' = TRUE
      /\ UNCHANGED <<outputsDisk, manifest, outputsOwner, outputsCrashes>>
      /\ outputsFaults' = outputsFaults + 1 /\ outputsFaults < Faults["outputs"]
  BY OutputTypesAre DEF Outputs!IInv, Outputs!ChunkLost, Outputs!StoredIsWritten,
     Uploading, Answer
<1>1. /\ outputsStored' \in [OutputFiles -> {-1} \cup Units]
      /\ \A f \in OutputFiles : Outputs!Length(f)' <= Outputs!Written(f)'
      /\ \A f \in DOMAIN outputsDisk :
           outputsDisk[f] > 0 /\ outputsStored[f] = outputsDisk[f]
             => outputsStored'[f] = outputsDisk[f]
      /\ Outputs!OutputLimitKept'
  <2>1. CASE outputsStored' = outputsStored
    BY <1>0, <2>1 DEF OutputTypes, Outputs!Length, Outputs!Written, Outputs!OutputLimitKept,
       Outputs!Used
  <2>2. CASE outputsStored' = [outputsStored EXCEPT ![Outputs!File] = Answer.length]
    BY <1>0, <2>2, ChunkArrives
  <2> QED
    BY <1>0, <2>1, <2>2
<1>2. Outputs!ListedIsStored' /\ Outputs!EverythingIsListed'
  BY <1>0, <1>1, ManifestKept DEF Outputs!IInv
<1>3. outputsPass.list \subseteq DOMAIN outputsDisk
  BY <1>0, PassParts DEF OutputTypes
<1>4. /\ outputsPass' \in PassRow(DOMAIN outputsDisk)
      /\ outputsPass'.at = "report" /\ outputsPass'.list = outputsPass.list
  BY <1>0, AbortStep
<1>5. OutputTypes'
  <2>1. outputsFaults' \in 0 .. Faults["outputs"]
    BY <1>0, OutputsAssumption DEF OutputTypes
  <2> QED
    BY <1>0, <1>1, <1>4, <2>1 DEF OutputTypes
<1>6. Outputs!StoredIsWritten'
  BY <1>0, <1>1, <1>3, <1>4 DEF Outputs!StoredIsWritten
<1>7. Outputs!PassIsComplete'
  BY <1>0 DEF Outputs!PassIsComplete
<1> QED
  BY <1>1, <1>2, <1>5, <1>6, <1>7, OutputTypesAre DEF Outputs!IInv

(* The other steps leave the server's files alone. *)
LEMMA FilesKept ==
  ASSUME Outputs!IInv, UNCHANGED <<outputsDisk, outputsStored>>
  PROVE  /\ \A f : Outputs!Length(f)' = Outputs!Length(f)
         /\ \A f \in OutputFiles : Outputs!Length(f)' <= Outputs!Written(f)'
         /\ Outputs!OutputLimitKept' /\ (Outputs!Fits' <=> Outputs!Fits)
         /\ manifest' = manifest /\ (lost => lost')
              => Outputs!ListedIsStored' /\ Outputs!EverythingIsListed'
<1>1. OutputTypes
  BY OutputTypesAre DEF Outputs!IInv
<1>2. manifest' = manifest /\ (lost => lost')
        => Outputs!ListedIsStored' /\ Outputs!EverythingIsListed'
  BY <1>1, ManifestKept DEF Outputs!IInv
<1>3. /\ \A f : Outputs!Length(f)' = Outputs!Length(f)
      /\ \A f \in OutputFiles : Outputs!Length(f)' <= Outputs!Written(f)'
      /\ Outputs!OutputLimitKept' /\ (Outputs!Fits' <=> Outputs!Fits)
  BY DEF Outputs!IInv, Outputs!Length, Outputs!Written, Outputs!Used, Outputs!Fits,
     Outputs!OutputLimitKept, Outputs!StoredIsWritten
<1> QED
  BY <1>2, <1>3

LEMMA FileDoneStep ==
  ASSUME Outputs!IInv, Outputs!FileDone
  PROVE  Outputs!IInv'
<1>0. /\ OutputTypes /\ outputsPass.at = "walk" /\ outputsPass.todo # {}
      /\ outputsPass.offset = outputsDisk[Outputs!File] /\ outputsPass' = Outputs!Listed
      /\ UNCHANGED <<outputsDisk, outputsStored, manifest, outputsOwner, outputsFaults,
                     outputsCrashes, lost>>
  BY OutputTypesAre DEF Outputs!IInv, Outputs!FileDone
<1>1. PICK f : f = Outputs!File
  OBVIOUS
<1>2. f \in outputsPass.todo /\ f \in OutputFiles /\ f \in DOMAIN outputsDisk
  BY <1>0, <1>1, UploadedFile
<1>3. /\ outputsPass' \in PassRow(DOMAIN outputsDisk)
      /\ outputsPass'.at = "walk" /\ outputsPass'.todo = outputsPass.todo \ {f}
      /\ outputsPass'.offset = 0 /\ outputsPass'.list = outputsPass.list \cup {f}
  <2>1. outputsPass' = ListedBy(outputsPass, f)
    BY <1>0, <1>1 DEF Outputs!Listed, ListedBy
  <2>2. outputsPass \in PassRow(DOMAIN outputsDisk)
    BY <1>0 DEF OutputTypes
  <2> QED
    BY <1>0, <1>2, <2>1, <2>2, ManifestLists
<1>4. OutputTypes'
  BY <1>0, <1>3 DEF OutputTypes
<1>5. PICK g : g = Outputs!File'
  OBVIOUS
<1>6. outputsPass'.todo # {} =>
        g \in outputsPass.todo /\ g # f /\ g \in OutputFiles /\ g \in DOMAIN outputsDisk
  <2>1. /\ outputsPass.todo \subseteq DOMAIN outputsDisk /\ outputsPass'.todo \subseteq Nat
        /\ DOMAIN outputsDisk \subseteq OutputFiles
    BY <1>0, <1>3, PassParts, OutputsAssumption DEF OutputTypes
  <2>2. outputsPass'.todo # {} => g \in outputsPass'.todo
    BY <1>5, <2>1, NextFile DEF Outputs!File
  <2> QED
    BY <1>3, <2>1, <2>2
<1>7. Outputs!StoredIsWritten'
  <2>1. /\ outputsDisk[f] > 0 => outputsStored[f] = outputsDisk[f]
        /\ \A h \in outputsPass.list : outputsDisk[h] > 0 => outputsStored[h] = outputsDisk[h]
    BY <1>0, <1>1 DEF Outputs!IInv, Outputs!StoredIsWritten
  <2>2. outputsPass'.todo # {} => 0 <= outputsDisk[g]
    BY <1>0, <1>6, OutputsAssumption DEF OutputTypes, Units
  <2> QED
    BY <1>0, <1>3, <1>5, <2>1, <2>2, FilesKept DEF Outputs!StoredIsWritten
<1>8. ASSUME outputsOwner, ~lost, Outputs!Fits
      PROVE  Outputs!Ahead'
  <2>1. /\ outputsPass.list = DOMAIN outputsDisk \ outputsPass.todo
        /\ \A h \in outputsPass.todo : h # f => Outputs!Length(h) = 0
    BY <1>0, <1>1, <1>8 DEF Outputs!IInv, Outputs!PassIsComplete, Outputs!Ahead
  <2>2. outputsPass'.list = DOMAIN outputsDisk \ outputsPass'.todo
    BY <1>2, <1>3, <2>1
  <2>3. \A h \in outputsPass'.todo : Outputs!Length(h)' = 0
    BY <1>0, <1>3, <2>1, FilesKept
  <2>4. outputsPass'.todo # {} => Outputs!Length(g)' = 0
    BY <1>0, <1>6, <2>1, FilesKept
  <2>5. Outputs!Length(Outputs!File)' = Outputs!Length(g)'
    BY <1>5 DEF Outputs!Length
  <2> QED
    BY <1>0, <1>3, <2>2, <2>3, <2>4, <2>5 DEF Outputs!Ahead
<1>9. Outputs!PassIsComplete'
  BY <1>0, <1>3, <1>8, FilesKept DEF Outputs!PassIsComplete
<1> QED
  BY <1>0, <1>4, <1>7, <1>9, FilesKept, OutputTypesAre DEF Outputs!IInv

(* The walk ends, the event is taken, the attempt is superseded. *)
LEMMA WalkDoneStep ==
  ASSUME Outputs!IInv, Outputs!WalkDone
  PROVE  Outputs!IInv'
<1>0. /\ OutputTypes /\ outputsPass.at = "walk" /\ outputsPass.todo = {}
      /\ outputsPass' = [outputsPass EXCEPT !.at = "report"]
      /\ outputsPass \in PassRow(DOMAIN outputsDisk)
      /\ UNCHANGED <<outputsDisk, outputsStored, manifest, outputsOwner, outputsFaults,
                     outputsCrashes, lost>>
  BY OutputTypesAre DEF Outputs!IInv, Outputs!WalkDone, OutputTypes
<1>1. /\ outputsPass' \in PassRow(DOMAIN outputsDisk)
      /\ outputsPass'.at = "report" /\ outputsPass'.list = outputsPass.list
  BY <1>0, PassMoves
<1>2. OutputTypes'
  BY <1>0, <1>1 DEF OutputTypes
<1>3. Outputs!StoredIsWritten'
  BY <1>0, <1>1, FilesKept DEF Outputs!IInv, Outputs!StoredIsWritten
<1>4. Outputs!PassIsComplete'
  BY <1>0, <1>1, FilesKept DEF Outputs!IInv, Outputs!PassIsComplete, Outputs!Ahead
<1> QED
  BY <1>0, <1>2, <1>3, <1>4, FilesKept, OutputTypesAre DEF Outputs!IInv

(* A list that is refused or lost leaves the one there is.                 *)
LEMMA ReportStep ==
  ASSUME Outputs!IInv, Outputs!Report
  PROVE  Outputs!IInv'
<1>0. /\ OutputTypes /\ outputsPass.at = "report"
      /\ \/ manifest' = manifest
         \/ outputsOwner /\ manifest' = outputsPass.list
      /\ outputsPass' = [outputsPass EXCEPT !.at = "done"]
      /\ outputsPass \in PassRow(DOMAIN outputsDisk)
      /\ UNCHANGED <<outputsDisk, outputsStored, outputsOwner, outputsFaults,
                     outputsCrashes, lost>>
  BY OutputTypesAre DEF Outputs!IInv, Outputs!Report, Outputs!SetAttemptOutputs, OutputTypes
<1>1. /\ outputsPass' \in PassRow(DOMAIN outputsDisk)
      /\ outputsPass'.at = "done" /\ outputsPass'.list = outputsPass.list
      /\ outputsPass.list \subseteq DOMAIN outputsDisk
  BY <1>0, PassMoves, PassParts
<1>2. OutputTypes'
  BY <1>0, <1>1 DEF OutputTypes
<1>3. Outputs!StoredIsWritten' /\ Outputs!PassIsComplete'
  BY <1>0, <1>1, FilesKept
     DEF Outputs!IInv, Outputs!StoredIsWritten, Outputs!PassIsComplete
<1>4. Outputs!ListedIsStored' /\ Outputs!EverythingIsListed'
  <2>1. CASE outputsOwner /\ manifest' = outputsPass.list
    BY <1>0, <2>1, FilesKept DEF Outputs!IInv, Outputs!ListedIsStored,
       Outputs!EverythingIsListed, Outputs!StoredIsWritten, Outputs!PassIsComplete
  <2>2. CASE manifest' = manifest
    BY <1>0, <2>2, FilesKept
  <2> QED
    BY <1>0, <2>1, <2>2
<1> QED
  BY <1>0, <1>2, <1>3, <1>4, FilesKept, OutputTypesAre DEF Outputs!IInv

(* A failure of the agent lists nothing. *)
LEMMA FailStep ==
  ASSUME Outputs!IInv, Outputs!Fail
  PROVE  Outputs!IInv'
<1>0. /\ OutputTypes
      /\ manifest' = manifest \/ manifest' = {}
      /\ outputsPass' = [outputsPass EXCEPT !.at = "done"]
      /\ outputsPass \in PassRow(DOMAIN outputsDisk) /\ lost' = TRUE
      /\ outputsFaults' = outputsFaults + 1 /\ outputsFaults < Faults["outputs"]
      /\ UNCHANGED <<outputsDisk, outputsStored, outputsOwner, outputsCrashes>>
  BY OutputTypesAre DEF Outputs!IInv, Outputs!Fail, Outputs!SetAttemptOutputs, OutputTypes
<1>1. /\ outputsPass' \in PassRow(DOMAIN outputsDisk)
      /\ outputsPass'.at = "done" /\ outputsPass'.list = outputsPass.list
  BY <1>0, PassMoves
<1>2. OutputTypes'
  <2>1. outputsFaults' \in 0 .. Faults["outputs"]
    BY <1>0, OutputsAssumption DEF OutputTypes
  <2> QED
    BY <1>0, <1>1, <2>1 DEF OutputTypes
<1>3. Outputs!StoredIsWritten' /\ Outputs!PassIsComplete'
  BY <1>0, <1>1, FilesKept
     DEF Outputs!IInv, Outputs!StoredIsWritten, Outputs!PassIsComplete
<1>4. Outputs!EverythingIsListed'
  BY <1>0 DEF Outputs!EverythingIsListed
<1>5. Outputs!ListedIsStored'
  <2>1. CASE manifest' = {}
    BY <2>1 DEF Outputs!ListedIsStored
  <2>2. CASE manifest' = manifest
    BY <1>0, <2>2, FilesKept
  <2> QED
    BY <1>0, <2>1, <2>2
<1> QED
  BY <1>0, <1>2, <1>3, <1>4, <1>5, FilesKept, OutputTypesAre DEF Outputs!IInv

LEMMA SupersededStep ==
  ASSUME Outputs!IInv, Outputs!Superseded
  PROVE  Outputs!IInv'
<1>0. /\ OutputTypes /\ outputsOwner' = FALSE
      /\ UNCHANGED <<outputsDisk, outputsStored, outputsPass, manifest, outputsFaults,
                     outputsCrashes, lost>>
  BY OutputTypesAre DEF Outputs!IInv, Outputs!Superseded
<1>1. OutputTypes'
  BY <1>0 DEF OutputTypes
<1>2. Outputs!StoredIsWritten'
  BY <1>0 DEF Outputs!IInv, Outputs!StoredIsWritten, Outputs!Length, Outputs!Written,
     Outputs!File
<1>3. Outputs!PassIsComplete'
  BY <1>0 DEF Outputs!PassIsComplete
<1> QED
  BY <1>0, <1>1, <1>2, <1>3, FilesKept, OutputTypesAre DEF Outputs!IInv

(* A crash with nothing uploaded loses nothing, and the next pass begins   *)
(* with nothing on the server.                                             *)
LEMMA CrashStep ==
  ASSUME Outputs!IInv, Outputs!Crash
  PROVE  Outputs!IInv'
<1>0. /\ OutputTypes
      /\ outputsPass' = [at |-> "off", todo |-> {}, offset |-> 0, list |-> {}]
      /\ lost' = (lost \/ \E f \in OutputFiles : outputsStored[f] > 0)
      /\ outputsCrashes' = outputsCrashes + 1 /\ outputsCrashes < Crashes["outputs"]
      /\ UNCHANGED <<outputsDisk, outputsStored, manifest, outputsOwner, outputsFaults>>
  BY OutputTypesAre DEF Outputs!IInv, Outputs!Crash, Outputs!Idle
<1>1. OutputTypes'
  <2>1. outputsCrashes' \in 0 .. Crashes["outputs"]
    BY <1>0, OutputsAssumption DEF OutputTypes
  <2>2. outputsPass' \in PassRow(DOMAIN outputsDisk) /\ lost' \in BOOLEAN
    BY <1>0, PassBegins
  <2> QED
    BY <1>0, <2>1, <2>2 DEF OutputTypes
<1>2. Outputs!StoredIsWritten'
  BY <1>0, FilesKept DEF Outputs!StoredIsWritten
<1>3. ~lost' => \A f \in OutputFiles : Outputs!Length(f)' = 0
  <2>1. ~lost' => \A f \in OutputFiles : ~(outputsStored[f] > 0)
    BY <1>0
  <2>2. \A f \in OutputFiles : outputsStored[f] = -1 \/ outputsStored[f] \in Nat
    BY <1>0, OutputsAssumption DEF OutputTypes, Units
  <2>3. \A f \in OutputFiles : ~(outputsStored[f] > 0) => Outputs!Length(f)' = 0
    BY <1>0, <2>2 DEF Outputs!Length, Outputs!Absent
  <2> QED
    BY <2>1, <2>3
<1>4. Outputs!PassIsComplete'
  BY <1>0, <1>3 DEF Outputs!PassIsComplete
<1>5. lost => lost'
  BY <1>0
<1> QED
  BY <1>0, <1>1, <1>2, <1>4, <1>5, FilesKept, OutputTypesAre DEF Outputs!IInv

LEMMA PassAgain ==
  ASSUME Outputs!IInv, Outputs!Restart, outputsPass' = Outputs!Walk
  PROVE  Outputs!IInv'
<1>0. /\ OutputTypes /\ outputsPass.at = "off"
      /\ outputsPass' = [at |-> "walk", todo |-> DOMAIN outputsDisk, offset |-> 0, list |-> {}]
      /\ UNCHANGED <<outputsDisk, outputsStored, manifest, outputsOwner, outputsFaults,
                     outputsCrashes, lost>>
  BY OutputTypesAre DEF Outputs!IInv, Outputs!Restart, Outputs!Walk
<1>1. OutputTypes'
  <2>1. outputsPass' \in PassRow(DOMAIN outputsDisk)
    BY <1>0, PassBegins
  <2> QED
    BY <1>0, <2>1 DEF OutputTypes
<1>2. PICK g : g = Outputs!File'
  OBVIOUS
<1>3. DOMAIN outputsDisk # {} => g \in DOMAIN outputsDisk
  BY <1>0, <1>2, NextFile, OutputsAssumption DEF Outputs!File, OutputTypes
<1>4. Outputs!StoredIsWritten'
  <2>1. DOMAIN outputsDisk # {} => 0 <= outputsDisk[g]
    BY <1>0, <1>3, OutputsAssumption DEF OutputTypes, Units
  <2> QED
    BY <1>0, <1>2, <2>1, FilesKept DEF Outputs!StoredIsWritten
<1>5. ASSUME outputsOwner, ~lost, Outputs!Fits
      PROVE  Outputs!Ahead'
  <2>1. \A f \in OutputFiles : Outputs!Length(f)' = 0
    BY <1>0, <1>5, FilesKept DEF Outputs!IInv, Outputs!PassIsComplete
  <2>2. Outputs!Length(Outputs!File)' = Outputs!Length(g)'
    BY <1>2 DEF Outputs!Length
  <2>3. DOMAIN outputsDisk \subseteq OutputFiles
    BY <1>0 DEF OutputTypes
  <2> QED
    BY <1>0, <1>3, <2>1, <2>2, <2>3 DEF Outputs!Ahead
<1>6. Outputs!PassIsComplete'
  BY <1>0, <1>5, FilesKept DEF Outputs!PassIsComplete
<1> QED
  BY <1>0, <1>1, <1>4, <1>6, FilesKept, OutputTypesAre DEF Outputs!IInv

LEMMA RestartStep ==
  ASSUME Outputs!IInv, Outputs!Restart
  PROVE  Outputs!IInv'
<1>1. CASE outputsPass' = Outputs!Walk
  BY <1>1, PassAgain
<1>2. CASE outputsPass' = [outputsPass EXCEPT !.at = "done"]
  <2>0. /\ OutputTypes /\ outputsPass \in PassRow(DOMAIN outputsDisk)
        /\ UNCHANGED <<outputsDisk, outputsStored, manifest, outputsOwner, outputsFaults,
                       outputsCrashes, lost>>
    BY OutputTypesAre DEF Outputs!IInv, Outputs!Restart, OutputTypes
  <2>1. /\ outputsPass' \in PassRow(DOMAIN outputsDisk)
        /\ outputsPass'.at = "done" /\ outputsPass'.list = outputsPass.list
    BY <1>2, <2>0, PassMoves
  <2>2. OutputTypes'
    BY <2>0, <2>1 DEF OutputTypes
  <2>3. Outputs!StoredIsWritten' /\ Outputs!PassIsComplete'
    BY <2>0, <2>1, FilesKept
       DEF Outputs!IInv, Outputs!StoredIsWritten, Outputs!PassIsComplete
  <2> QED
    BY <2>0, <2>2, <2>3, FilesKept, OutputTypesAre DEF Outputs!IInv
<1> QED
  BY <1>1, <1>2 DEF Outputs!Restart

(* The manifest of the outputs lists what was stored whole, and everything *)
(* that was written if nothing was lost; the limit holds over all files    *)
(* (uploadOutputs, appendOutput, the outputs of the terminal event).       *)
THEOREM OutputsAreListed == Spec => []ManifestListsTheOutputs
<1>1. ASSUME Outputs!IInv, [Next]_vars
      PROVE  Outputs!IInv'
  <2>1. CASE part = "outputs" /\ Outputs!Next
    BY <1>1, <2>1, UploadChunkStep, FileDoneStep, WalkDoneStep, ChunkLostStep, ReportStep,
       FailStep, SupersededStep, CrashStep, RestartStep DEF Outputs!Next
  <2>2. CASE UNCHANGED outputsVars
    <3>1. OutputTypes'
      BY <1>1, <2>2, OutputTypesAre DEF outputsVars, Outputs!IInv, OutputTypes
    <3>2. Outputs!StoredIsWritten' /\ Outputs!PassIsComplete'
      BY <1>1, <2>2 DEF outputsVars, Outputs!IInv, Outputs!StoredIsWritten,
         Outputs!PassIsComplete, Outputs!Ahead, Outputs!Length, Outputs!Written,
         Outputs!File, Outputs!Fits
    <3> QED
      BY <1>1, <2>2, <3>1, <3>2, FilesKept, OutputTypesAre DEF outputsVars, Outputs!IInv
  <2> QED
    BY <1>1, <2>1, <2>2 DEF Next, vars
<1>2. Outputs!IInv => ManifestListsTheOutputs
  BY DEF ManifestListsTheOutputs, Outputs!IInv
<1> QED
  BY OutputsInitially, <1>1, <1>2, PTL DEF Spec

=============================================================================
