# TLA+ models of ONNC's lowering, pass framework, statistics store and attributes

This directory holds TLA+ models of the parts of ONNC that are in this
repository. TLC checks them. Every module is written from the source. The one
exception is code that `spec.md` describes but that is not under `src/`: the
lowering dispatcher, the Compute Graph and the pass driver. Those are modelled
from `spec.md` and marked `spec_modelled` in `PROJECT.json`.

## 1. The system

| Part | Source | State | Operations |
|---|---|---|---|
| Operator lowering rules | `src/lib/Transforms/TensorSel/AbsLower.cpp`, `src/unnamed/part_000` (HardSigmoidLower, SoftplusLower) | none of their own; they write the Compute Graph | `isMe` (match level), `activate` (checks, then `addOperator`, `addInput`/`addOutput`) |
| Lowering dispatcher | spec.md 4.4 (not in src) | the registry, the position in the source graph, the outcome | per node: pick the rule with the strictly highest level, then activate it; stop on an unsupported or malformed node |
| Compute Graph | spec.md 4.2 (not in src) | the operator list in insertion order, and Values by unique name | `addOperator` appends; `getValue` looks up a name |
| Pass framework, UpdateCtablePass | `src/unnamed/part_002` lines 270-328, spec.md 4.5 | each node's quantization table (ctable); the pipeline position | `runOnGraphs` visits every node with the BM188X `UpdateVisitor` and returns `kModuleChanged`; the driver runs passes in order and stops at `kPassFailure` |
| Statistics store | `src/unnamed/part_002` lines 1-269 | `m_pGroup` (valid or not), `m_AccessMode`, `m_FilePath`, `m_Value`, the files on disk | constructors, `open`, `read`, `reset`, `addGroup`, `update`, `merge`, `deleteGroup`, `sync`, destructor |
| Statistics counters | same file, lines 208-269 | the `Counter` and `Counter_Desc` groups of `global::stats()` | `addCounter`, `increaseCounter`, `decreaseCounter`, `resetCounter` |
| Attributes | `src/include/onnc/IR/Compute/Attributes.h` | each object's class, `m_Kind`, and `m_Value` or `m_Vector` | the bare `Attribute(Type)` constructor and the slicing `Attribute` copy constructor; scalar and vector constructors, copy constructors and `operator=`; `Attribute::operator=` through `Attribute&`; `setValue`; `vector()` appends; the virtual destructor |
| Build | `src/unnamed/part_001` (CMake) | none at run time | not modelled |

How the parts interact:
- The dispatcher calls `isMe` and `activate` of the registered rules. `activate` writes the Compute Graph.
- Only a fully lowered graph is handed to the pass pipeline.
- Passes read and rewrite the graph's nodes. `UpdateCtablePass` sets each node's ctable from the backend's table for the node's operator.
- Statistics and Attributes are not driven by the lowering flow. Each is modelled on its own, driven by every call sequence a client can make.

Hard behaviours of this code that tests rarely reach:
- A rule that rejects a node after it has touched the graph.
- `open` taking the mode and path before it parses the file.
- The unsigned-to-int narrowing in the counters.
- Assignment through the non-virtual base `operator=`, and copies that slice a derived attribute into a bare `Attribute`.
- A crash between `sync()` truncating a file and writing it, and a `print` that fails after the truncation while `sync()` still returns true.
- A Value missing from the graph's table when `activate` binds it.
- A driver re-running passes until they report no change.

`PROJECT.json` lists these hazards at their lines, with the properties that
cover them.

## 2. Modules

| Module | Models | Variables, and the code they stand for |
|---|---|---|
| `LoweringSpec` | what lowering promises (spec.md 4.4) | `graph` and `failedAt`. In one step, lowering publishes the rule-by-rule image of the source graph, or reports the first bad node as unsupported or malformed. |
| `Lowering` | `AbsLower::isMe`/`activate`, the rule records, the dispatcher, the graph's value table | `src`, `registry`, `cursor` (the node loop), `nodes` (the Compute Graph's operators), `status`, `values` (the names `getValue` finds) |
| `Pipeline` (EXTENDS `Lowering`) | the pass driver with a fixed-point prefix, `UpdateCtablePass::runOnGraphs`, and a legalizing backend pass | `ctable`, `passIdx`, `pstatus`, `log` (the results of the current round) |
| `Statistics` | one `Statistics` object at a time over a set of files, with crashes of the program | `phase`, `valid` (`m_pGroup != NULL`), `mode`, `path`, `value`, `disk`, `writing` (a sync between truncation and print), history `durable` (each file's last complete write), `syncResult` (what an explicit `sync()` returned in this step) |
| `Counters` | the counter calls on `global::stats()` | `counter`, `desc`, plus the history variables `exact` (unbounded value), `calls`, `lastCall` |
| `Attributes` | attribute objects in a few slots | `cls` (the dynamic class: a typedef, or `Attribute` itself), `kind` (`m_Kind`), `payload` (`m_Value`, `m_Vector`, or none for a bare `Attribute`). Each constructor, copy constructor and `operator=` is its own action, built from the `Attribute` base's part (`AttributeCtor`, `AttributeCopy`, `AssignKind`) and the member's. |

Each action models a whole function, with guards taken from its early returns:
- `ActivateRejects` and `ActivateBuilds` are the two outcomes of `activate`.
- `OpenFile` has one disjunct per outcome of the parse.
- `sync()` is two steps, because `std::ofstream` truncates the file when it opens it and `print` writes later: `Sync`/`Destroy` truncate (or the ofstream fails, and an explicit `sync()` returns false), `SyncWrite` prints (or, when `PrintMayFail`, the stream fails and leaves the file empty or cut off), returns true to an explicit caller either way and, in the destructor, deletes the group. A `sync()` of an object that is not read-write on a regular file returns true at once. The program may then construct a new object over the same files.
- `Crash` is the program dying: killed from outside at any point, a sync included, or, between two calls, a NULL `m_pGroup` dereferenced. The files keep what they hold and a new object is constructed later.
- `activate` binds each operand to `*getValue(name)`. For a name missing from the value table this binds nullptr, which is undefined: the model lets the build store the null operand or fault after `addOperator`.
- The pass driver runs passes `1..FixTo` in rounds until a round reports no `GraphChanged` (spec.md 4.5 lets a driver do so), then the rest once.

Data is abstracted as follows:
- Operators are rule records.
- Values are their unique names.
- JSON values are model values, or functions from a few group names.
- A file is what `json::Reader` makes of it. `json::Reader` is not in this repository, so what it leaves in `m_Value` on a rejected text is Undef or any object.
- Payloads come from a two-element set.

The lowering rule scan is the RECURSIVE operator `ScanLowers`. The refinement
check compares it with the declarative `BestRule` of `LoweringSpec`: highest
level first, then lowest registration index.

Composition: `Pipeline` extends `Lowering`. Its next-state relation is a
lowering step or a pass step. A pass step can start only once lowering has
published the graph.

## 3. Runs

| Run | cfg | Checks | Result |
|---|---|---|---|
| lowering | `MCLowering.cfg` | `LoweringRefinesSpec` | pass: with all Values pre-created, the dispatcher with `AbsLower::activate`'s checks and bindings implements `LoweringSpec` |
| lowering_input_values_only | `MCLoweringNoOutputs.cfg` | `LowerTypeOK` | pass: with only the input Values spec.md 4.3 promises, every input operand still resolves to a Value |
| lowering_dangling_value | `MCLoweringValues.cfg` | `NoDanglingValue` | violation: `activate` binds an output to the nullptr `getValue` returns |
| pipeline_fixed_point | `MCPipelineFixedPoint.cfg` | `PipelineTerminates` | violation: with `UpdateCtable` in the fixed-point subset (`FixTo = 2`) the driver loops forever, because `UpdateCtablePass` always reports `kModuleChanged` |
| statistics | `MCStatistics.cfg` | `GroupPointsIntoValue` | pass: a valid object's group always sits on an object value |
| statistics_rewrite | `MCStatisticsRewrite.cfg` | `NoRewriteUnlessLoaded` | violation: an object opened read-write on a file it could not parse truncates and rewrites it on sync or destruction |
| statistics_crash | `MCStatisticsCrash.cfg` | `OpenLoadsLastCompleteWrite` | violation: the process killed between truncation and print leaves an empty file that the next `open()` loads as a valid empty configuration |
| statistics_sync_result | `MCStatisticsSyncResult.cfg` | `SyncReturnsTruthfully` | violation: a `print` that fails leaves the file empty and `sync()` still returns true |
| counters | `MCCounters.cfg` | `CounterIsExactModWidth` | pass: counters equal their exact value modulo 2^width |
| counters_increase | `MCCountersIncrease.cfg` | `IncreaseNeverDecreases` | violation: `increaseCounter` wraps to a negative value |
| attributes_kind_immutable | `MCAttributesImmutable.cfg` | `KindImmutable` | violation: among typedef objects only, assignment through `Attribute&` turns an `IntAttr`'s kind into `kFloat` |

Every property of a passing run has a mutant in `PROJECT.json`: a plausible
bug in the code under `src/` that TLC finds. They are: the input-name loop
left out of `activate` (for both lowering runs), `read` without its
`isValid` test, and a subtraction written as an addition in
`decreaseCounter`.

The Pipeline module has no passing run. Its driver and its Legalize pass
are modelled from spec.md, and what they guarantee (the pass order, the
end on a failure, termination with an idempotent rewrite) would hold
whatever `UpdateCtablePass` does. The one question the code under `src/`
answers is whether a fixed-point driver terminates with it, and it does
not. Likewise the Attributes module has only its violation run: what C++
typing guarantees about its storage is not worth a check.

### Bounds

**Lowering**
- The value table starts as any set of names containing what the run's precondition requires: all source names (`OutputsPrecreated = TRUE`) or only the input names.
- Three kinds, two names and three registries:
  - the standard rules;
  - one with a higher-level backend rule for Abs;
  - one with two Abs rules of equal level, in an order that makes the tie-break visible.
- Source graphs of one or two nodes, with node shapes that hit each check of `activate`: wrong input count, unnamed input, wrong output count, unnamed output.
- Two nodes are enough to see a failure after a success and a graph published only at the end.

**Pipeline**
- Pipeline `<<Legalize, UpdateCtable>>`, with Legalize as the fixed-point prefix: its first round rewrites TargetAbs and reports a change, its second reports none, so the re-run is exercised.
- A rewrite TargetAbs→Abs with a ctable for both, so that a stale ctable is observable.
- One unlegalizable kind.
- Source graphs of one to three nodes.

**Statistics**
- Two files, one group name, two group values.
- Every file content: missing, illegal, non-object, empty, and object.
- A crash may happen in any state, including between truncation and print.
- `PrintMayFail` is TRUE where its run asks about it (statistics, statistics_sync_result), FALSE in the crash and rewrite runs, so that their traces show the crash and the rewrite alone.

**Counters**
- 4-bit int. The same narrowing as 32 bits, at a size TLC can reach.
- The arguments are chosen so that the sign boundary is crossed: 1 and 2^(w-1) unsigned; 0 and INT_MAX for reset.
- At most 5 calls.

**Attributes**
- Two slots, two scalar and two vector classes, two values, vectors of length at most 2.
- No bare `Attribute` objects (`BareKinds` is empty), so that the trace shows two typedef objects.

### Fairness

The lowering loop and the pass driver are one synchronous thread, and no step
waits on anything. Weak fairness on the whole next-state relation therefore says
only that the program keeps running. That is the assumption under which
`PipelineTerminates` is checked. The fixed-point driver is part of the
same thread, so the same fairness applies to its re-runs; no bound caps
the rounds, since a cap would hide the non-termination. Statistics, Counters and Attributes are driven
by arbitrary clients and assert no liveness.

`CHECK_DEADLOCK FALSE` is set where the program really stops:
- lowering and the fixed-point driver stop when their graph is done (a stop the liveness property, not deadlock, judges);
- the counter runs stop at their call bound.

## 4. Not modelled

- The build configuration (CMake).
- `json::Reader`/`json::Object` internals; only their observable results are modelled.
- Element types and shapes of Values.
- Printing and the read-only queries of Statistics (`print`, `printCounter`, `groupList`, `top`, ...), which change no state.
- Calls of `groupList`, `hasGroup`, `deleteGroup`, `group` and `addGroup` on an invalid object. They dereference NULL; the model does not offer them there, and the `Crash` action stands for the fault.
- `update` and `merge` on a non-object `m_Value`: what `json::Value::insert`/`write` do then is not in this repository.
- `addValue` and DuplicateValueName: nothing under `src/` calls `addValue`.
- The vector typedefs in `Attributes.h` (lines 134-138) carry the scalar kinds (`FloatsAttr` has `kFloat`), so `kind()` cannot tell a sequence attribute from a scalar one, and `kFloatVec`..`kGraphVec` are never used. This can be read off the typedefs, so no run checks it; the model's `TemplateKind` keeps it.
- `global::stats()` and `StatisticsGroup` are not in this repository, so whether the global object can be invalid, or its `Counter` group missing, when a counter call reaches it cannot be read off the code. `Counters` assumes both groups exist.
- Two `Statistics` objects on one file: the code lets the last one to sync win, and nothing in the code, its comments or spec.md says what should happen instead, so there is no property to check against.

## 5. Plan for later work

1. Two `Statistics` objects open on the same file: updates lost between their syncs.
2. The counter calls composed with the `global::stats()` object's lifecycle (its `Counter` group missing, or the object invalid).
3. Attribute reads by kind (spec.md 4.1: a read of a mismatched kind must fail loudly) once code that reads attributes is in the repository.
