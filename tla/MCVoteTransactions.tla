------------------------- MODULE MCVoteTransactions -------------------------
(***************************************************************************)
(* One instance of VoteTransactions with a topic of every kind.  A         *)
(* behaviour is about one workload; the other topics stay unpublished.     *)
(***************************************************************************)
EXTENDS VoteTransactions, TLC

CONSTANTS u1, u2

\* A survey of a choice and a ranking, a staged topic of a choice and a text, a formal topic, a
\* multi-select, a draw and a ranking that stand alone.
AllTopics == {"survey", "q1", "q2", "staged", "r1", "r2", "formal", "multi", "game", "rank"}
AllKind == [t \in AllTopics |-> CASE t = "survey" -> "SURVEY" [] t = "staged" -> "STAGED"
                                  [] t = "formal" -> "FORMAL" [] OTHER -> "QUICK"]
AllType == [t \in AllTopics |-> CASE t \in {"survey", "staged"} -> "CONTAINER"
                                  [] t \in {"q1", "r1", "formal"} -> "CHOICE"
                                  [] t \in {"q2", "rank"} -> "IMAGE_RANK" [] t = "r2" -> "TEXT"
                                  [] t = "multi" -> "MULTI_SELECT" [] t = "game" -> "DRAW"]
AllParent == [t \in AllTopics |-> CASE t \in {"q1", "q2"} -> "survey" [] t \in {"r1", "r2"} -> "staged"
                                    [] OTHER -> NoTopic]
AllOptions == 1..8
AllOptionTopic == <<"q1", "q2", "r1", "formal", "multi", "multi", "game", "rank">>
AllMax == [t \in AllTopics |-> IF t = "multi" THEN 2 ELSE 0]

Survey == [ops |-> {<<"vote", "q1">>, <<"vote", "survey">>, <<"saveRank", "q2">>},
           users |-> {u1, u2}, atOnce |-> 2]
Formal == [ops |-> {<<"vote", "formal">>, <<"comment", "formal">>}, users |-> {u1}, atOnce |-> 3]
Polls == [ops |-> ({"vote", "revote", "withdraw"} \X {"multi"}) \cup ({"draw", "withdraw"} \X {"game"}),
          users |-> {u1}, atOnce |-> 2]
Ranking == [ops |-> {"vote", "withdraw", "saveRank", "withdrawRank"} \X {"rank"},
            users |-> {u1, u2}, atOnce |-> 2]
Rounds == [ops |-> ({"vote", "revote", "withdraw"} \X {"r1"}) \cup {<<"vote", "staged">>},
           users |-> {u1}, atOnce |-> 2]

EveryWorkload == {Survey, Formal, Polls, Ranking, Rounds}

Symmetry == Permutations(Requests)
=============================================================================
