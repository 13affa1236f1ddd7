----------------------------- MODULE MCAttempt ------------------------------
(***************************************************************************)
(* The instance of Attempt for model checking.                             *)
(***************************************************************************)
EXTENDS Attempt, TLC

CONSTANTS t1, t2, n1, n2, n3

MCTokens == {t1, t2}
MCNodeIds == {n1, n2, n3}

(* The secrets a job may have: none, overlapping ones, one inside another. *)
MCSecretsOfJobs == {{}, {<<1, 1>>}, {<<1, 2, 1>>}, {<<1, 1, 2>>, <<1, 2>>}}
(* The names of two parts, one of them in two spellings. *)
MCInputParts == {[raw |-> "a", clean |-> "a"], [raw |-> "./a", clean |-> "a"],
          [raw |-> "b", clean |-> "b"]}
MCInputContents == {<<>>, <<1>>, <<2>>, <<1, 2>>}

MCLimit == "logs" :> 5 @@ "outputs" :> 4 @@ "checkpoints" :> 4 @@ "inputs" :> 2
MCFaults == "logs" :> 2 @@ "outputs" :> 1 @@ "checkpoints" :> 1
            @@ "events" :> 2 @@ "inputs" :> 1
MCCrashes == "access" :> 2 @@ "logs" :> 1 @@ "outputs" :> 1 @@ "inputs" :> 1

=============================================================================
