------------------------------ MODULE Lowering ------------------------------
(***************************************************************************)
(* The lowering dispatcher and its per-operator rules.  The dispatcher     *)
(* walks the source graph in order; for each node it asks every rule of   *)
(* the registry for its match level (Lower::isMe), keeps the rule with    *)
(* the strictly highest level seen so far, and calls that rule's          *)
(* activate, which checks arity and unique names and then adds one IR     *)
(* operator bound to the graph's Values by name (AbsLower::activate).     *)
(* An unclaimed node or a rejecting activate stops lowering.              *)
(*                                                                         *)
(* A rule is a record: the symbol it claims, the level it claims it at,   *)
(* the IR operator it builds and the arity it requires.  A Value of the   *)
(* Compute Graph is modelled by its unique name; values is the graph's    *)
(* value table, filled before lowering: with every named input of the     *)
(* source graph (spec.md 4.3) and, when OutputsPrecreated, every named    *)
(* output too.  getValue<Tensor> of a name not in it returns nullptr.     *)
(***************************************************************************)
EXTENDS Integers, Sequences, FiniteSets, Functions

CONSTANTS
    Kinds,       \* operator symbols of the source format (::onnx::Symbol)
    Names,       \* unique names a source value can carry
    NoName,      \* a source value whose has_unique_name() is false
    IROps,       \* IR operator classes a rule can build (onnc::Abs, ...)
    SrcGraphs,   \* the source graphs to lower: sequences of source nodes
    Registries,  \* rule registries, each a sequence in registration order
    NullValue,   \* the nullptr getValue returns for an unknown name
    OutputsPrecreated  \* the graph builder creates the output Values too

VARIABLES
    src,         \* the source graph being lowered
    registry,    \* the registered rules, read-only during dispatch
    cursor,      \* index of the next source node to lower
    nodes,       \* the Compute Graph's operator list, in insertion order
    status,      \* "lowering", "lowered", "unsupported", "malformed" or "crashed"
    values       \* the names of the Values in the Compute Graph's value table

lowerVars == <<src, registry, cursor, nodes, status, values>>

\* Match levels returned by isMe.
kNotMe == 0
kStdLower == 1
kTargetLower == 2

SrcValue == Names \cup {NoName}

\* The rule registered by the standard rule set for ::onnx::Symbol("Abs").
AbsLower == [sym |-> "Abs", level |-> kStdLower, op |-> "Abs", nin |-> 1, nout |-> 1]

\* HardSigmoidLower and SoftplusLower declare the same two overrides as
\* AbsLower; their rule records follow the same pattern.
HardSigmoidLower == [sym |-> "HardSigmoid", level |-> kStdLower, op |-> "HardSigmoid", nin |-> 1, nout |-> 1]
SoftplusLower == [sym |-> "Softplus", level |-> kStdLower, op |-> "Softplus", nin |-> 1, nout |-> 1]

\* isMe: the rule's level when the node's kind is its symbol, else kNotMe.
isMe(r, n) == IF n.kind = r.sym THEN r.level ELSE kNotMe

has_unique_name(v) == v # NoName

\* Mutant: the loop over the input names is missing.
ActivateChecksNoInputNames(r, n) ==
    /\ Len(n.inputs) = r.nin
    /\ Len(n.outputs) = r.nout
    /\ \A i \in DOMAIN n.outputs : has_unique_name(n.outputs[i])

\* The checks activate makes before it touches the graph, in code order:
\* input count, input names, output count, output names.
ActivateChecks(r, n) ==
    /\ Len(n.inputs) = r.nin
    /\ \A i \in DOMAIN n.inputs : has_unique_name(n.inputs[i])
    /\ Len(n.outputs) = r.nout
    /\ \A i \in DOMAIN n.outputs : has_unique_name(n.outputs[i])

\* ComputeGraph::getValue<Tensor>(name): the Value, or nullptr.
getValue(v) == IF v \in values THEN v ELSE NullValue

\* addOperator followed by addInput/addOutput of *getValue(uniqueName()):
\* the operator is bound to whatever getValue returned.
NewOperator(r, n) ==
    [op |-> r.op,
     ins |-> [i \in DOMAIN n.inputs |-> getValue(n.inputs[i])],
     outs |-> [i \in DOMAIN n.outputs |-> getValue(n.outputs[i])]]

\* The named values of field f ("inputs" or "outputs") of a source graph.
SrcNames(g, f) ==
    UNION {{g[i][f][j] : j \in DOMAIN g[i][f]} : i \in DOMAIN g} \ {NoName}

\* The dispatcher's scan over the registry: a rule replaces the current
\* best only when its level is strictly higher, so the first registered
\* rule wins a tie.  Returns the rule's index, 0 when no rule claims n.
RECURSIVE ScanLowers(_, _, _, _)
ScanLowers(reg, n, k, best) ==
    IF k > Len(reg) THEN best
    ELSE LET bestLevel == IF best = 0 THEN kNotMe ELSE isMe(reg[best], n)
         IN  ScanLowers(reg, n, k + 1,
                        IF isMe(reg[k], n) > bestLevel THEN k ELSE best)

SelectLower(reg, n) == ScanLowers(reg, n, 1, 0)

-----------------------------------------------------------------------------
LowerInit ==
    /\ src \in SrcGraphs
    /\ registry \in Registries
    /\ cursor = 1
    /\ nodes = <<>>
    /\ status = "lowering"
    /\ values \in {V \in SUBSET Names :
                     /\ SrcNames(src, "inputs") \subseteq V
                     /\ OutputsPrecreated => SrcNames(src, "outputs") \subseteq V}

Pending == status = "lowering" /\ cursor <= Len(src)

\* No rule claims the current node: UnsupportedOperator.
Unsupported ==
    /\ Pending
    /\ SelectLower(registry, src[cursor]) = 0
    /\ status' = "unsupported"
    /\ UNCHANGED <<src, registry, cursor, nodes, values>>

\* activate returns nullptr: MalformedOperator; the graph is untouched.
ActivateRejects(r, n) ==
    /\ ~ActivateChecks(r, n)
    /\ status' = "malformed"
    /\ UNCHANGED <<src, registry, cursor, nodes, values>>

\* activate builds the operator; the dispatcher moves to the next node.
\* Binding *nullptr to a Value& is undefined: the build either stores
\* the null reference, or the process faults in addInput/addOutput after
\* addOperator.
ActivateBuilds(r, n) ==
    /\ ActivateChecks(r, n)
    /\ nodes' = Append(nodes, NewOperator(r, n))
    /\ \/ /\ cursor' = cursor + 1
          /\ UNCHANGED status
       \/ /\ NullValue \in Range(NewOperator(r, n).ins) \cup Range(NewOperator(r, n).outs)
          /\ status' = "crashed"
          /\ UNCHANGED cursor
    /\ UNCHANGED <<src, registry, values>>

LowerNode ==
    /\ Pending
    /\ LET k == SelectLower(registry, src[cursor])
       IN  /\ k # 0
           /\ \/ ActivateRejects(registry[k], src[cursor])
              \/ ActivateBuilds(registry[k], src[cursor])

\* Every node was lowered: the graph is handed on.
FinishLowering ==
    /\ status = "lowering"
    /\ cursor > Len(src)
    /\ status' = "lowered"
    /\ UNCHANGED <<src, registry, cursor, nodes, values>>

LowerNext == Unsupported \/ LowerNode \/ FinishLowering

LowerSpec == LowerInit /\ [][LowerNext]_lowerVars /\ WF_lowerVars(LowerNext)

-----------------------------------------------------------------------------
\* The lowering state is well typed, and every input operand activate
\* binds is a Value of the graph's table, even when only the input Values
\* exist: the input-name loop of activate rejects an unnamed input before
\* getValue<Tensor> is asked for it.  Outputs may be the nullptr.
LowerTypeOK ==
    /\ cursor \in 1..(Len(src) + 1)
    /\ status \in {"lowering", "lowered", "unsupported", "malformed", "crashed"}
    /\ values \subseteq Names
    /\ \A i \in DOMAIN nodes :
          /\ nodes[i].op \in IROps
          /\ \A j \in DOMAIN nodes[i].ins : nodes[i].ins[j] \in Names
          /\ \A j \in DOMAIN nodes[i].outs : nodes[i].outs[j] \in Names \cup {NullValue}

\* The node-by-node dispatcher, with its scan for the best rule and its
\* early stop, implements the one-step LoweringSpec: the graph published
\* on success is the rule-by-rule image of the source graph, and a failure
\* is reported at the first bad node with the right error.
Abstract == INSTANCE LoweringSpec WITH
    graph <- IF status = "lowered" THEN nodes ELSE <<>>,
    failedAt <- IF status \in {"unsupported", "malformed"} THEN cursor ELSE 0

LoweringRefinesSpec == Abstract!AbsSpec

\* spec.md 4.2: the graph never holds a dangling Value reference: every
\* input and output of every operator activate added is a Value of the
\* value table, and binding them never faults.  spec.md 4.3 only
\* promises Values for the source node's inputs before activate runs.
NoDanglingValue ==
    /\ status # "crashed"
    /\ \A i \in DOMAIN nodes :
          Range(nodes[i].ins) \cup Range(nodes[i].outs) \subseteq values
=============================================================================
