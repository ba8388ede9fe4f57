-------------------------- MODULE MCSpectrography --------------------------
(* Two models and two probes that share one of three dimensions.  Unit = 2: *)
(* a judged score is 0, 0.5 or 1, and a rank among two models is exact.     *)
EXTENDS Spectrography

CONSTANTS ma, mb, p1, p2

MCProbes == <<p1, p2>>
MCDim == {"generation", "code", "legal"}
MCDimsOf == (p1 :> {"generation", "code"}) @@ (p2 :> {"generation", "legal"})

MCScore == (p1 :> {0, 2}) @@ (p2 :> {2})

Command(m, w, models) == [mode |-> m, writes |-> w, models |-> models]
MCOptions ==
    {Command("fresh", TRUE, <<ma, mb>>), Command("merge", TRUE, <<mb>>),
     Command("resume_from", FALSE, <<mb>>), Command("resume", FALSE, <<mb>>)}
=============================================================================
