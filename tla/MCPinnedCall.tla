---------------------------- MODULE MCPinnedCall ----------------------------
(* Two requests; two models: the one has another name at its provider,     *)
(* which has one place, and an adapter that tries again; the other has an  *)
(* adapter that does not, and a provider with two places.                  *)
EXTENDS PinnedCall, TLC

MCProviderOf == "b1" :> "p" @@ "b2" :> "q"
MCAdapterOf == "b1" :> OpenAICompatible @@ "b2" :> Google
MCModelName == "b1" :> "m1" @@ "b2" :> "b2"
MCLimit == "p" :> 1 @@ "q" :> 2
=============================================================================
