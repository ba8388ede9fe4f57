-------------------------- MODULE MCIntentRouting --------------------------
(* One model, one intent, two messages; a file that declares              *)
(* two dimensions of the model, nothing, or is not YAML.                  *)
EXTENDS IntentRouting

CONSTANTS ma, broken

MCCandidates == <<ma>>
MCDim == {"generation", "analysis", "code", "speed"}
MCTable ==
    [d \in MCDim |-> CASE d = "code" -> "domain" [] d = "speed" -> "qs" [] OTHER -> "task"]
MCIntents == {[dims |-> <<"generation", "code", "speed">>, sure |-> TRUE]}
MCContents == {ma :> ("generation" :> 10 @@ "code" :> 10), NoProfiles, broken}
MCFeedback == {[model |-> ma, dims |-> <<"generation", "code", "speed">>, rating |-> 3]}
=============================================================================
