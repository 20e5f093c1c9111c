---------------------------- MODULE LoweringSpec ----------------------------
(***************************************************************************)
(* What the lowering dispatcher promises (spec.md 4.3, 4.4, 7), stated in  *)
(* one step: either every source node is claimed by its best rule and     *)
(* passes that rule's checks, and the Compute Graph holds exactly one IR   *)
(* node per source node built by that rule, or lowering fails at the      *)
(* FIRST source node that is unclaimed or malformed and no graph is       *)
(* published.  The best rule is defined declaratively: highest match      *)
(* level, the earliest registered among equals.                           *)
(***************************************************************************)
EXTENDS Integers, Sequences, FiniteSets

CONSTANTS Kinds, Names, NoName, IROps, SrcGraphs, Registries

VARIABLES src, registry, status, graph, failedAt

absVars == <<src, registry, status, graph, failedAt>>

\* Match levels, as the rule contract orders them.
NotMe == 0

Level(r, n) == IF n.kind = r.sym THEN r.level ELSE NotMe

Named(seq) == \A i \in DOMAIN seq : seq[i] # NoName

Accepts(r, n) ==
    /\ Len(n.inputs) = r.nin /\ Named(n.inputs)
    /\ Len(n.outputs) = r.nout /\ Named(n.outputs)

\* The reference choice of rule: 0 when nothing claims the node.
BestRule(reg, n) ==
    LET top == {k \in DOMAIN reg : \A j \in DOMAIN reg : Level(reg[j], n) <= Level(reg[k], n)}
        claimed == {k \in top : Level(reg[k], n) > NotMe}
    IN  IF claimed = {} THEN 0
        ELSE CHOOSE k \in claimed : \A j \in claimed : k <= j

Lowerable(reg, n) ==
    BestRule(reg, n) # 0 /\ Accepts(reg[BestRule(reg, n)], n)

Built(r, n) == [op |-> r.op, ins |-> n.inputs, outs |-> n.outputs]

AbsInit ==
    /\ src \in SrcGraphs
    /\ registry \in Registries
    /\ status = "lowering"
    /\ graph = <<>>
    /\ failedAt = 0

Lower ==
    /\ status = "lowering"
    /\ LET bad == {i \in DOMAIN src : ~Lowerable(registry, src[i])}
           first == CHOOSE i \in bad : \A j \in bad : i <= j
       IN  IF bad = {}
           THEN /\ status' = "lowered"
                /\ graph' = [i \in DOMAIN src |-> Built(registry[BestRule(registry, src[i])], src[i])]
                /\ UNCHANGED failedAt
           ELSE /\ status' = IF BestRule(registry, src[first]) = 0
                             THEN "unsupported" ELSE "malformed"
                /\ failedAt' = first
                /\ UNCHANGED graph
    /\ UNCHANGED <<src, registry>>

AbsSpec == AbsInit /\ [][Lower]_absVars /\ WF_absVars(Lower)
=============================================================================
