------------------------ MODULE MCCandidateSelection ------------------------
(* Six backends of four providers and all four tiers.  The tracker does    *)
(* not know the local provider under its adapter key, but under its name   *)
(* in the configuration; provider c has a limit of 0, which scores 100 and *)
(* has no capacity; only two backends are asked for under the name their   *)
(* outcomes are kept under; one order is longer than the window.           *)
EXTENDS CandidateSelection, TLC

MCBackends == <<"a1", "a2", "a3", "b1", "c1", "l1">>
MCTier == "a1" :> 1 @@ "a2" :> 3 @@ "a3" :> 1 @@ "b1" :> 2 @@ "c1" :> 2 @@ "l1" :> 0
MCProviderOf == "a1" :> "a" @@ "a2" :> "a" @@ "a3" :> "a" @@ "b1" :> "b" @@ "c1" :> "c" @@ "l1" :> "local"
MCNameOf == [MCProviderOf EXCEPT !["l1"] = "ollama"]
MCCost == "a1" :> 15 @@ "a2" :> 4 @@ "a3" :> 1 @@ "b1" :> 3 @@ "c1" :> 3 @@ "l1" :> 0
MCPriority == "a1" :> 20 @@ "a2" :> 90 @@ "a3" :> 50 @@ "b1" :> 70 @@ "c1" :> 60 @@ "l1" :> 0
MCLimit == "a" :> 2 @@ "b" :> 1 @@ "c" :> 0 @@ "local" :> 0 @@ "ollama" :> 1
MCFloorOf == "chat" :> 0 @@ "audit" :> 1 @@ "code_review" :> 2
MCStakesOf == "chat" :> -1 @@ "audit" :> 0 @@ "code_review" :> 1
Ask(c, n, tools, trust) ==
    [category |-> c, tokens |-> n, long |-> FALSE, tools |-> tools, trust |-> trust]
MCOrders ==
    {Ask("chat", 0, "none", 0), Ask("chat", 9000, "none", 0), Ask("chat", 140000, "none", 0),
     Ask("audit", 0, "none", 0), Ask("audit", 0, "required", 0), Ask("audit", 5000, "required", 2),
     Ask("audit", 5000, "none", 2), Ask("code_review", 0, "carried", 0)}
MCMatches == {[b \in Backend |-> 0], [b \in Backend |-> IF b = "b1" THEN 80 ELSE 50]}
MCRoleRank == "a1" :> 90 @@ "a2" :> 80 @@ "a3" :> 60 @@ "b1" :> 90 @@ "c1" :> 20 @@ "l1" :> 20
=============================================================================
