------------------------------ MODULE Pipeline ------------------------------
(***************************************************************************)
(* The pass framework run over the Compute Graph that Lowering produced.  *)
(* Passes run strictly in pipeline order, each receiving the graph and    *)
(* returning kModuleNoChanged, kModuleChanged or kPassFailure; a failure  *)
(* aborts the rest of the pipeline (spec.md 4.5, 7).  Two passes:         *)
(*   UpdateCtable: UpdateCtablePass::runOnGraphs, which walks every node  *)
(*     from begin() to the end() it read first and calls accept on the    *)
(*     BM188X UpdateVisitor, then returns kModuleChanged.  The visitor    *)
(*     sets the node's quantization table (ctable) to the backend's entry *)
(*     for the node's operator, for the operators it has a visit for.     *)
(*   Legalize: a backend pass that walks the nodes with a visitor that    *)
(*     rewrites an operator to the one the backend supports, and rejects  *)
(*     (kPassFailure) at the first node it cannot legalize, leaving the   *)
(*     nodes before it already rewritten.                                 *)
(* The ctable of a node is kept in a sequence parallel to nodes.          *)
(*                                                                         *)
(* The driver may re-run a fixed-point subset of the pipeline while it    *)
(* reports GraphChanged (spec.md 4.5): here the first FixTo passes are    *)
(* run in rounds until a round reports no change, then the rest once.     *)
(* log holds the results of the current round.                            *)
(***************************************************************************)
EXTENDS Lowering

CONSTANTS
    Passes,         \* the pipeline: a sequence over {"UpdateCtable", "Legalize"}
    CtableVals,     \* quantization tables, abstracted to a few values
    NoCtable,       \* the ctable of a node no visitor has updated
    BackendCtable,  \* the backend's ctable, a function from some IROps
    LegalOp,        \* Legalize's rewrite, a function from some IROps
    Unlegalizable,  \* operators the Legalize visitor rejects
    FixTo           \* passes 1..FixTo are re-run until they change nothing

VARIABLES
    ctable,         \* ctable[i]: quantization table of nodes[i]
    passIdx,        \* the pass the driver runs next
    pstatus,        \* "idle", "running", "done" or "failed"
    log             \* the pass log of the current round: one [pass, result] per run

passVars == <<ctable, passIdx, pstatus, log>>
vars == <<lowerVars, passVars>>

Results == {"kModuleNoChanged", "kModuleChanged", "kPassFailure"}

\* UpdateVisitor::visit for one node: the ops it has a visit method for
\* take the backend's table; accept on any other node does nothing.
UpdateVisit(op, old) ==
    IF op \in DOMAIN BackendCtable THEN BackendCtable[op] ELSE old

\* The Legalize visitor's rewrite of one operator.
Legalized(op) == IF op \in DOMAIN LegalOp THEN LegalOp[op] ELSE op

-----------------------------------------------------------------------------
Init ==
    /\ LowerInit
    /\ ctable = <<>>
    /\ passIdx = 1
    /\ pstatus = "idle"
    /\ log = <<>>

\* The driver takes over a graph only when lowering succeeded.
StartPipeline ==
    /\ status = "lowered"
    /\ pstatus = "idle"
    /\ pstatus' = "running"
    /\ ctable' = [i \in DOMAIN nodes |-> NoCtable]
    /\ UNCHANGED <<lowerVars, passIdx, log>>

\* A round of the fixed-point passes has ended and one of them reported
\* GraphChanged: the driver must run the round again.
RerunPending ==
    /\ FixTo > 0
    /\ passIdx = FixTo + 1
    /\ \E i \in DOMAIN log : log[i].result = "kModuleChanged"

RunPass(name) ==
    /\ pstatus = "running"
    /\ ~RerunPending
    /\ passIdx <= Len(Passes)
    /\ Passes[passIdx] = name

\* UpdateCtablePass::runOnGraphs: visit every node, report kModuleChanged.
UpdateCtable ==
    /\ RunPass("UpdateCtable")
    /\ ctable' = [i \in DOMAIN nodes |-> UpdateVisit(nodes[i].op, ctable[i])]
    /\ log' = Append(log, [pass |-> "UpdateCtable", result |-> "kModuleChanged"])
    /\ passIdx' = passIdx + 1
    /\ UNCHANGED <<lowerVars, pstatus>>

\* Legalize rewrites every node when none is rejected.
LegalizeAll ==
    /\ RunPass("Legalize")
    /\ \A i \in DOMAIN nodes : nodes[i].op \notin Unlegalizable
    /\ nodes' = [i \in DOMAIN nodes |-> [nodes[i] EXCEPT !.op = Legalized(@)]]
    /\ log' = Append(log, [pass |-> "Legalize",
                           result |-> IF nodes' = nodes THEN "kModuleNoChanged"
                                      ELSE "kModuleChanged"])
    /\ passIdx' = passIdx + 1
    /\ UNCHANGED <<src, registry, cursor, status, values, ctable, pstatus>>

\* Legalize rejects node f, the first it cannot legalize: the nodes before
\* f are rewritten, the pipeline stops with the pass's failure logged.
LegalizeFails ==
    /\ RunPass("Legalize")
    /\ \E f \in DOMAIN nodes :
          /\ nodes[f].op \in Unlegalizable
          /\ \A i \in 1..(f - 1) : nodes[i].op \notin Unlegalizable
          /\ nodes' = [i \in DOMAIN nodes |->
                          IF i < f THEN [nodes[i] EXCEPT !.op = Legalized(@)]
                          ELSE nodes[i]]
    /\ log' = Append(log, [pass |-> "Legalize", result |-> "kPassFailure"])
    /\ pstatus' = "failed"
    /\ UNCHANGED <<src, registry, cursor, status, values, ctable, passIdx>>

\* The driver starts the next round of the fixed-point passes.
Rerun ==
    /\ pstatus = "running"
    /\ RerunPending
    /\ passIdx' = 1
    /\ log' = <<>>
    /\ UNCHANGED <<lowerVars, ctable, pstatus>>

FinishPipeline ==
    /\ pstatus = "running"
    /\ ~RerunPending
    /\ passIdx > Len(Passes)
    /\ pstatus' = "done"
    /\ UNCHANGED <<lowerVars, ctable, passIdx, log>>

PassNext ==
    StartPipeline \/ UpdateCtable \/ LegalizeAll \/ LegalizeFails \/ Rerun \/ FinishPipeline

Next == (LowerNext /\ UNCHANGED passVars) \/ PassNext

Spec == Init /\ [][Next]_vars /\ WF_vars(Next)

-----------------------------------------------------------------------------
\* Lowering and the pipeline always come to an end: lowering fails, or a
\* pass fails, or the fixed-point passes reach a round that changes
\* nothing and every later pass has run.
PipelineTerminates ==
    <>(status \in {"unsupported", "malformed"} \/ pstatus \in {"done", "failed"})
=============================================================================
