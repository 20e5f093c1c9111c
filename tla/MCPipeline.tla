----------------------------- MODULE MCPipeline -----------------------------
(***************************************************************************)
(* Model-checking instance of Pipeline: one- to three-node source graphs  *)
(* over Abs, Softplus and HardSigmoid (which the Legalize visitor cannot  *)
(* handle) plus one malformed node shape, lowered by the standard         *)
(* registry or by one with a backend Abs rule, then run through          *)
(* Legalize (TargetAbs -> Abs) and UpdateCtable.  The backend has ctables *)
(* for Abs and TargetAbs only.                                            *)
(***************************************************************************)
EXTENDS Pipeline, TLC

MCKinds == {"Abs", "Softplus", "HardSigmoid"}
MCNames == {"t0", "t1"}
MCIROps == {"Abs", "Softplus", "HardSigmoid", "TargetAbs"}

TargetAbsLower == [sym |-> "Abs", level |-> kTargetLower, op |-> "TargetAbs", nin |-> 1, nout |-> 1]

MCRegistries ==
    { <<AbsLower, SoftplusLower, HardSigmoidLower>>,
      <<AbsLower, TargetAbsLower, SoftplusLower, HardSigmoidLower>> }

MCNodes ==
    [kind : MCKinds, inputs : {<<"t0">>}, outputs : {<<"t1">>}]
    \cup {[kind |-> "Abs", inputs |-> <<"t0", "t1">>, outputs |-> <<"t1">>]}

MCSrcGraphs == {<<n>> : n \in MCNodes} \cup {<<n, m>> : n, m \in MCNodes}
               \cup {<<n, m, k>> : n, m, k \in MCNodes}

MCPasses == <<"Legalize", "UpdateCtable">>
MCBackendCtable == ("Abs" :> "c1") @@ ("TargetAbs" :> "c2")
MCLegalOp == "TargetAbs" :> "Abs"
=============================================================================
