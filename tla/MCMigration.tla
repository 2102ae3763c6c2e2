---------------------------- MODULE MCMigration ----------------------------
(* Two slots, and three requests for the same pod, of which the third always comes when    *)
(* both slots are taken. *)
EXTENDS Migration, TLC

CONSTANTS j1, j2, j3, p1

OnePod     == [j \in Jobs |-> p1]
AllStages  == [j \in Jobs |-> "decode"]
Mixed      == [j \in Jobs |-> IF j = j1 THEN "filter" ELSE "output"]

MCSpec == Init /\ [][Next /\ pc'[j3] = "idle"]_vars /\ \A j \in Jobs : WF_vars(Step(j))
=============================================================================
