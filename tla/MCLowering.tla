----------------------------- MODULE MCLowering -----------------------------
(***************************************************************************)
(* Model-checking instance of Lowering: one- and two-node source graphs   *)
(* over Abs, Softplus and an operator no rule claims, with inputs and     *)
(* outputs of every arity 0..2 and with unnamed values, lowered by three  *)
(* registries: the standard one, one where a backend rule overrides Abs   *)
(* at a higher level, and one where two rules claim Abs at the same level.*)
(***************************************************************************)
EXTENDS Lowering

MCKinds == {"Abs", "Softplus", "Relu"}
MCNames == {"t0", "t1"}
MCIROps == {"Abs", "Softplus", "HardSigmoid", "TargetAbs", "AbsPair"}

\* A backend rule that claims Abs more specifically than the standard one.
TargetAbsLower == [sym |-> "Abs", level |-> kTargetLower, op |-> "TargetAbs", nin |-> 1, nout |-> 1]
\* A second standard-level rule for Abs that wants two inputs.
AbsPairLower == [sym |-> "Abs", level |-> kStdLower, op |-> "AbsPair", nin |-> 2, nout |-> 1]

MCRegistries ==
    { <<AbsLower, SoftplusLower, HardSigmoidLower>>,
      <<AbsLower, TargetAbsLower, SoftplusLower>>,
      <<AbsPairLower, AbsLower, SoftplusLower>> }

MCNodes ==
    [kind : MCKinds,
     inputs : {<<>>, <<"t0">>, <<"t0", "t1">>, <<NoName>>},
     outputs : {<<"t1">>, <<NoName>>, <<"t1", "t0">>}]

MCSrcGraphs == {<<n>> : n \in MCNodes} \cup {<<n, m>> : n, m \in MCNodes}
=============================================================================
