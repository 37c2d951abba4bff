----------------------------- MODULE ComputeGraph -----------------------------
(***************************************************************************)
(* The graph engine, ComputeGraph.cpp, as a Trainer drives it: recording,  *)
(* build, forward and backward over the tape, traces, and the way through  *)
(* toJson and fromJson.                                                    *)
(*                                                                         *)
(* A tensor is how it was computed: <<p, l1, .., ln>> is the input of pass *)
(* p (or, going back, the gradient of its output) sent through the layers  *)
(* l1 to ln in this order, <<>> a default Tensor.  Any layer may fail.     *)
(***************************************************************************)
EXTENDS Naturals, FiniteSets, SequencesExt

CONSTANTS Layers,
          Null,        \* kInvalidNode, and the input of a layer not yet run
          Chain,       \* each op is recorded on the output of the one before
          MaxPasses    \* bound: passes through the graph

ASSUME GraphAssumption ==
  Chain \in BOOLEAN /\ MaxPasses \in Nat /\ Null \notin Nat

VARIABLES tape,        \* sequence of [layer, in, out]
          nextId,
          output,      \* outputId_
          built,       \* the layers that are built
          lastInput,   \* what each layer kept for its backward
          grads,       \* what each layer's parameters accumulated, as a set of
                       \* <<its input, the gradient of its output>>
          values,      \* nodeValues_
          traceMode, traces,
          passes,      \* passes so far, the number of the current input
          trained      \* the last call was a trainStep that succeeded

graph  == <<tape, nextId, output>>
layers == <<built, lastInput, grads>>
vars   == <<graph, layers, values, traceMode, traces, passes, trained>>

Recorded == {tape[i].layer : i \in DOMAIN tape}
At(map, n) == IF n \in DOMAIN map THEN map[n] ELSE <<>>
Put(map, n, v) == [m \in DOMAIN map \union {n} |-> IF m = n THEN v ELSE map[m]]

\* After input(), which allocates node 0.
Init ==
  /\ tape = <<>> /\ nextId = 1 /\ output = Null
  /\ built = {} /\ lastInput = [l \in Layers |-> Null] /\ grads = [l \in Layers |-> {}]
  /\ values = Put(<<>>, 0, <<>>)
  /\ traceMode = FALSE /\ traces = <<>> /\ passes = 0 /\ trained = FALSE

-----------------------------------------------------------------------------
\* Every record moves the output.
Record ==
  /\ \E l \in Layers \ Recorded, n \in 0..(nextId - 1) :
       /\ Chain => n = nextId - 1
       /\ tape' = Append(tape, [layer |-> l, in |-> n, out |-> nextId])
  /\ nextId' = nextId + 1
  /\ output' = nextId
  /\ trained' = FALSE
  /\ UNCHANGED <<layers, values, traceMode, traces, passes>>

\* The first k ops are built, and if that is not all, the next one failed.
Build ==
  /\ \E k \in 0..Len(tape) : built' = built \union {tape[i].layer : i \in 1..k}
  /\ trained' = FALSE
  /\ UNCHANGED <<graph, lastInput, grads, values, traceMode, traces, passes>>

SetTraceMode ==
  /\ traceMode' = ~traceMode
  /\ UNCHANGED <<graph, layers, values, traces, passes, trained>>

-----------------------------------------------------------------------------
(***************************************************************************)
(* forward and backward.                                                   *)
(***************************************************************************)

\* nodeValues_ after the first k ops of a pass with input x.
ValuesAfter(k, x) ==
  FoldLeft(LAMBDA vals, op : Put(vals, op.out, Append(At(vals, op.in), op.layer)),
           Put(values, tape[1].in, x), SubSeq(tape, 1, k))

\* What traces_ keeps of the pass before.  Mutation: all of it.
TracesKept == traces
TracesLeft == <<>>

\* The layers built after a forward of k ops: it builds where build() did not.
BuiltAfter(k) == built \union {tape[i].layer : i \in 1..k}

\* forward(x): k ops succeed; if that is not all of them, the next one failed,
\* perhaps after it was built.
Forward(k, x) ==
  LET vals == ValuesAfter(k, x) IN
  /\ values' = vals
  /\ built' \in {BuiltAfter(k), BuiltAfter(IF k < Len(tape) THEN k + 1 ELSE k)}
  /\ lastInput' = [l \in Layers |->
       IF \E i \in 1..k : tape[i].layer = l
       THEN vals[tape[CHOOSE i \in 1..k : tape[i].layer = l].in] ELSE lastInput[l]]

TracesOf(k, vals) ==
  TracesLeft \o [i \in 1..k |-> [input |-> vals[tape[i].in], output |-> vals[tape[i].out],
                                 gradOutput |-> <<>>, gradInput |-> <<>>]]

\* Mutation: the ops are walked in recording order.
WalkForwards == tape
Walk == Reverse(tape)

\* gradMap after the ops of Walk from the first to the j-th, of a gradient g
\* of the output: a second gradient for a node replaces the first.
GradMapAfter(j, g) ==
  FoldLeft(LAMBDA map, op : Put(map, op.in, Append(At(map, op.out), op.layer)),
           Put(<<>>, output, g), SubSeq(Walk, 1, j))

\* The gradient that reaches the j-th op of Walk.
GradOfOut(j, g) == At(GradMapAfter(j - 1, g), Walk[j].out)

\* j ops of backward succeed.
Backward(j, g) ==
  /\ grads' = [l \in Layers |->
       {<<lastInput'[l], GradOfOut(i, g)>> : i \in {n \in 1..j : Walk[n].layer = l}}]
  /\ traces' =
       IF ~traceMode THEN traces
       ELSE LET N == Len(tape)
                forward == TracesOf(N, values') IN
            [i \in 1..Len(forward) |->
               IF i \in 1..N /\ N + 1 - i <= j
               THEN [forward[i] EXCEPT !.gradOutput = GradOfOut(N + 1 - i, g),
                                       !.gradInput = Append(@, tape[i].layer)]
               ELSE forward[i]]

\* Trainer.trainStep: zeroGrad, forward, and only after its success backward.
TrainStep ==
  /\ tape # <<>> /\ passes < MaxPasses
  /\ passes' = passes + 1
  /\ \/ /\ \E k \in 0..(Len(tape) - 1) :
             /\ Forward(k, <<passes'>>)
             /\ traces' = IF traceMode THEN TracesOf(k, values') ELSE traces
        /\ grads' = [l \in Layers |-> {}]
        /\ trained' = FALSE
     \/ /\ Forward(Len(tape), <<passes'>>)
        /\ \E j \in 0..Len(tape) : Backward(j, <<passes'>>) /\ trained' = (j = Len(tape))
  /\ UNCHANGED <<graph, traceMode>>

\* Trainer.predict: forward alone.
Predict ==
  /\ tape # <<>> /\ passes < MaxPasses
  /\ passes' = passes + 1
  /\ \E k \in 0..Len(tape) :
       /\ Forward(k, <<passes'>>)
       /\ traces' = IF traceMode THEN TracesOf(k, values') ELSE traces
  /\ trained' = FALSE
  /\ UNCHANGED <<graph, grads, traceMode>>

-----------------------------------------------------------------------------
\* The largest node id of the edges; 0 if there is none.
MaxId == LET ids == {0} \union {tape[i].in : i \in DOMAIN tape} \union {tape[i].out : i \in DOMAIN tape}
         IN CHOOSE m \in ids : \A n \in ids : n <= m

\* Mutation: the next id is the last one in use.
NextIdOfJsonLate == MaxId
NextIdOfJson     == MaxId + 1

\* fromJson(toJson(g)) replaces g: the same tape over new layers.
RoundTrip ==
  /\ nextId' = NextIdOfJson
  /\ built' = {} /\ lastInput' = [l \in Layers |-> Null] /\ grads' = [l \in Layers |-> {}]
  /\ values' = IF tape = <<>> THEN <<>> ELSE Put(<<>>, tape[1].in, <<>>)
  /\ traceMode' = FALSE /\ traces' = <<>> /\ trained' = FALSE
  /\ UNCHANGED <<tape, output, passes>>

Next == Record \/ Build \/ SetTraceMode \/ TrainStep \/ Predict \/ RoundTrip

Spec == Init /\ [][Next]_vars

-----------------------------------------------------------------------------
(***************************************************************************)
(* Properties.                                                             *)
(***************************************************************************)

\* The ids on the tape were allocated, one for each op, and an op reads a
\* node that is there before its own: recording order is a topological order,
\* also when recording goes on after fromJson.
NodeIdsOrdered ==
  /\ nextId \in Nat
  /\ \A i \in DOMAIN tape : tape[i].in < tape[i].out /\ tape[i].out < nextId
  /\ \A i, j \in DOMAIN tape : i < j => tape[i].out < tape[j].out
  /\ tape # <<>> => output = tape[Len(tape)].out

\* The type of the state; a layer that was run was built.
TypeOK ==
  /\ \A i \in DOMAIN tape :
       tape[i] = [layer |-> tape[i].layer, in |-> tape[i].in, out |-> tape[i].out]
  /\ Recorded \subseteq Layers /\ Cardinality(Recorded) = Len(tape)
  /\ output \in Nat \union {Null}
  /\ built \subseteq Layers
  /\ \A l \in Layers : lastInput[l] # Null => l \in built
  /\ traceMode \in BOOLEAN /\ trained \in BOOLEAN /\ passes \in 0..MaxPasses

\* The layers behind the i-th op, in the order in which a gradient of the
\* output meets them.
LaterLayers(i) == [n \in 1..(Len(tape) - i) |-> tape[Len(tape) + 1 - n].layer]

\* After a training step of a chain each layer accumulated, once, the gradient
\* of this pass that came through exactly the later layers, together with the
\* input this pass gave to it.
GradientsOfThisPass ==
  trained => \A i \in DOMAIN tape :
    grads[tape[i].layer] = {<<values[tape[i].in], <<passes>> \o LaterLayers(i)>>}

\* Traces belong to one pass, whatever failed in which one: each op has one,
\* and output and gradients are those of its input's pass.
TracesOfOnePass ==
  /\ Len(traces) <= Len(tape)
  /\ \A i \in DOMAIN traces :
       /\ traces[i].output = Append(traces[i].input, tape[i].layer)
       /\ Head(traces[i].input) = Head(traces[1].input)
       /\ traces[i].gradOutput # <<>> => Head(traces[i].gradOutput) = Head(traces[i].input)
=============================================================================
