-------------------------------- MODULE Layers --------------------------------
(***************************************************************************)
(* A Sequential of built-in layers as a program uses it: build, switch the *)
(* mode, run batches forward, take the gradient of a loss back.  The state  *)
(* of a layer is what build allocated and what forward saved for backward.  *)
(***************************************************************************)
EXTENDS Attention

CONSTANTS Models,     \* records: the layers, the shapes build is called with,
                      \* and whether these include the batch
          Batches,    \* batch sizes
          Losses,
          TokenPatterns, \* what an input of token ids repeats
          MaxCalls,   \* bound: forward passes
          MaxInits,   \* bound: initialisations of a layer
          MaxGrads    \* bound: backward passes without zeroGrad

Kinds == {"Dense", "Conv2D", "Embedding", "Dropout", "BatchNorm1d", "LayerNorm",
          "Attention", "Softmax", "Elementwise"}

ASSUME LayersAssumption ==
  /\ MaxCalls \in Nat /\ MaxInits \in Nat /\ MaxGrads \in Nat \ {0} /\ Batches \subseteq Nat \ {0}
  /\ \A m \in Models : Len(m.layers) \in Nat /\ \A k \in 1..Len(m.layers) : m.layers[k].kind \in Kinds

VARIABLES model,
          net,        \* of each layer: built, dims, inits, training, ctx, running
          training,   \* of the Sequential
          lastBuild,  \* the shape build was called with last, and if it succeeded
          announced,  \* history: the result of the first build for that shape
          fwd,        \* the last forward pass, or <<>>
          bwd,        \* the last backward pass from it, or <<>>
          paramGrads, \* what was accumulated in the parameters since zeroGrad
          calls

layerVars == <<model, net, training, lastBuild, announced, fwd, bwd, paramGrads, calls>>

-----------------------------------------------------------------------------
\* The virtual calls.
LayerBuild(L, l, s) ==
  CASE L.kind = "Dense"       -> DenseBuild(L, l, s)
    [] L.kind = "Conv2D"      -> ConvBuild(L, l, s)
    [] L.kind = "Embedding"   -> EmbeddingBuild(L, l, s)
    [] L.kind = "BatchNorm1d" -> BatchNormBuild(l, s)
    [] L.kind = "LayerNorm"   -> LayerNormBuild(L, l, s)
    [] L.kind = "Attention"   -> AttentionBuild(L, l, s)
    [] OTHER                  -> PassThroughBuild(l, s)

LayerForward(L, l, call, s, tokens, keep) ==
  CASE L.kind = "Dense"       -> DenseForward(L, l, call, s)
    [] L.kind = "Conv2D"      -> ConvForward(L, l, call, s)
    [] L.kind = "Embedding"   -> EmbeddingForward(L, l, call, s, tokens)
    [] L.kind = "Dropout"     -> DropoutForward(l, call, s, keep)
    [] L.kind = "BatchNorm1d" -> BatchNormForward(l, call, s)
    [] L.kind = "LayerNorm"   -> LayerNormForward(l, call, s)
    [] L.kind = "Attention"   -> AttentionForward(L, l, call, s)
    [] L.kind = "Softmax"     -> SoftmaxForward(l, call, s)
    [] L.kind = "Elementwise" -> ElementwiseForward(l, call, s)

LayerBackward(L, l, s) ==
  CASE L.kind = "Dense"       -> DenseBackward(L, l, s)
    [] L.kind = "Conv2D"      -> ConvBackward(L, l, s)
    [] L.kind = "Embedding"   -> EmbeddingBackward(L, l)
    [] L.kind = "Dropout"     -> DropoutBackward(l, s)
    [] L.kind = "BatchNorm1d" -> BatchNormBackward(l)
    [] L.kind = "LayerNorm"   -> LayerNormBackward(l)
    [] L.kind = "Attention"   -> AttentionBackward(L, l)
    [] L.kind = "Softmax"     -> SoftmaxBackward(l)
    [] L.kind = "Elementwise" -> ElementwiseBackward(l)

Depth == Len(model.layers)

Has(kind) == \E k \in 1..Depth : model.layers[k].kind = kind

InLayer(k, uses) == {<<u[1], <<k, u[2]>>, u[3]>> : u \in uses}

-----------------------------------------------------------------------------
\* Sequential: each step of a call depends on the one before, and an error ends
\* the call.
BuildStep(prev, k) ==
  LET After(r) == [ok |-> r.ok, shape |-> r.shape, layers |-> [prev.layers EXCEPT ![k] = r.layer]]
  IN  IF prev.ok THEN After(LayerBuild(model.layers[k], net[k], prev.shape)) ELSE prev

SequentialBuild(s) == FoldLeftDomain(BuildStep, [ok |-> TRUE, shape |-> s, layers |-> net], net)

ForwardStep(call, tokens, keep, prev, k) ==
  LET After(r) == [ok |-> r.ok, shape |-> r.shape,
                   layers |-> [prev.layers EXCEPT ![k] = r.layer],
                   edges |-> Then(r.edges, prev.edges),
                   uses |-> Then(r.edges, prev.uses) \union InLayer(k, r.uses),
                   inputs |-> Append(prev.inputs, prev.shape)]
  IN  IF prev.ok
      THEN After(LayerForward(model.layers[k], net[k], call, prev.shape, tokens, keep))
      ELSE prev

SequentialForward(call, s, tokens, keep) ==
  FoldLeftDomain(LAMBDA prev, k : ForwardStep(call, tokens, keep, prev, k),
                 [ok |-> TRUE, shape |-> s, layers |-> net, edges |-> Identity(Offsets(s)), uses |-> {},
                  inputs |-> <<>>],
                 net)

\* From the gradient of the output back to that of the input.
BackwardStep(shapes, k, above) ==
  LET r == LayerBackward(model.layers[k], net[k], shapes[k])
  IN  [edges |-> Then(above.edges, r.edges),
       uses |-> above.uses \union Then(above.edges, InLayer(k, r.uses))]

SequentialBackward(gradOut, shapes) ==
  FoldRightDomain(LAMBDA k, above : BackwardStep(shapes, k, above), net, [edges |-> gradOut, uses |-> {}])

-----------------------------------------------------------------------------
\* A loss is the mean of its terms over the elements, cross entropy over the
\* batch.
Divisor(loss, s) == IF loss = "CrossEntropy" THEN s[1] ELSE shapeNumel(s)

LossCompute(loss, s) == {<<0, i, <<<<loss, i, Divisor(loss, s)>>>>>> : i \in Offsets(s)}

\* Mutation: the gradient of cross entropy is divided by the number of elements.
LossGradientOfMean(loss, s) == {<<0, i, <<<<loss, i, shapeNumel(s)>>>>>> : i \in Offsets(s)}

LossGradient(loss, s) ==
  LET scale == IF loss = "CrossEntropy" THEN s[1] ELSE shapeNumel(s)
  IN  {<<0, i, <<<<loss, i, scale>>>>>> : i \in Offsets(s)}

-----------------------------------------------------------------------------
New == [built |-> FALSE, dims |-> <<>>, inits |-> 0, training |-> TRUE, ctx |-> <<>>, running |-> 0]

\* The shapes a model announces the first time it is built for s.
ShapesOf(m, s) ==
  LET t[k \in 0..Len(m.layers)] == IF k = 0 THEN s ELSE LayerBuild(m.layers[k], New, t[k - 1]).shape
  IN  t

\* What a program has to see to, because no layer does: each layer is put where
\* the shapes it works on arrive, which for those that work on the rows of a
\* matrix is one vector a sample,
Suits(L, batched, s) ==
  /\ s \in Seq(Nat)
  /\ L.kind \in {"Dense", "BatchNorm1d", "LayerNorm", "Softmax"} => Len(s) = IF batched THEN 2 ELSE 1
  /\ L.kind \in {"Conv2D", "Embedding", "Attention"} => ~batched
  /\ CASE L.kind = "Dense"       -> L.out \in Nat
       [] L.kind = "Conv2D"      -> /\ Len(s) = 3 /\ L.filters \in Nat
                                    /\ {OutSize(L, s[2]), OutSize(L, s[3])} \subseteq Nat \ {0}
       [] L.kind = "Embedding"   -> Len(s) = 1 /\ L.dim \in Nat
       [] L.kind = "BatchNorm1d" -> batched
       [] L.kind = "LayerNorm"   -> L.dim \in {-1, Last(s)}
       [] L.kind = "Attention"   -> /\ Len(s) = 2 /\ s[2] = L.dim
                                    /\ L.heads \in Nat \ {0} /\ L.dim % L.heads = 0
       [] OTHER                  -> TRUE

\* and what has the width of its weights from its first build sees that width in
\* every other.
WellShaped(m) ==
  /\ m.batched \in BOOLEAN
  /\ \A k \in 1..Len(m.layers) :
       /\ \A s \in m.shapes : Suits(m.layers[k], m.batched, ShapesOf(m, s)[k - 1])
       /\ m.layers[k].kind \in {"Dense", "BatchNorm1d", "LayerNorm"} =>
            \A s, t \in m.shapes : Last(ShapesOf(m, s)[k - 1]) = Last(ShapesOf(m, t)[k - 1])

ASSUME ModelsAreWellShaped == \A m \in Models : WellShaped(m)

\* Two kinds of model that say more of themselves.  In the one every layer that
\* drops elements has one behind it that gives each of its own a value, and the
\* shape of a batch is always that of the first; in the other an attention with
\* a mask is followed by none without.
Covering == {"Dense", "Conv2D", "Embedding", "BatchNorm1d", "LayerNorm", "Attention"}

ComputesAll(m) ==
  /\ Len(m.layers) > 0
  /\ m.batched => \A s, t \in m.shapes : s = t /\ s # <<>>
  /\ \A j \in 1..Len(m.layers) : m.layers[j].kind = "Dropout" =>
       \E i \in (j + 1)..Len(m.layers) : m.layers[i].kind \in Covering

StaysCausal(m) ==
  /\ Len(m.layers) > 0
  /\ m.layers[1].kind = "Attention" /\ m.layers[1].causal =>
       \A k \in 1..Len(m.layers) : m.layers[k].kind = "Attention" => m.layers[k].causal

LayersInit ==
  /\ model \in Models
  /\ net = [k \in 1..Depth |-> New] /\ training = TRUE
  /\ lastBuild = [shape |-> <<>>, ok |-> FALSE] /\ announced = <<>>
  /\ fwd = <<>> /\ bwd = <<>> /\ paramGrads = <<>> /\ calls = 0

BuildModel(s) ==
  \E r \in {SequentialBuild(s)} :
    /\ \A k \in 1..Depth : r.layers[k].inits <= MaxInits
    /\ net' = r.layers
    /\ lastBuild' = [shape |-> s, ok |-> r.ok]
    /\ announced' = IF lastBuild.ok /\ lastBuild.shape = s THEN announced ELSE r.shape
    /\ fwd' = <<>> /\ bwd' = <<>>
    /\ UNCHANGED <<model, training, paramGrads, calls>>

SetTraining(t) ==
  /\ t # training
  /\ training' = t
  /\ net' = [k \in 1..Depth |-> [net[k] EXCEPT !.training = t]]
  /\ UNCHANGED <<model, lastBuild, announced, fwd, bwd, paramGrads, calls>>

InputShape(N) == IF model.batched THEN [lastBuild.shape EXCEPT ![1] = N] ELSE <<N>> \o lastBuild.shape

\* A batch through a model that was built; tokens is what an Embedding looks
\* up, keep what Dropout draws.
ForwardPass(N, tokens, keep) ==
  /\ lastBuild.ok /\ calls < MaxCalls
  /\ calls' = calls + 1
  /\ \E r \in {SequentialForward(calls', InputShape(N), tokens, keep)} :
       /\ net' = r.layers
       /\ fwd' = [ok |-> r.ok, training |-> training, input |-> InputShape(N), shape |-> r.shape,
                  inputs |-> r.inputs, edges |-> r.edges, uses |-> r.uses]
       /\ bwd' = <<>>
       /\ UNCHANGED <<model, training, lastBuild, announced, paramGrads>>

\* The shape of what each layer returned.
OutputShapes == Append(Tail(fwd.inputs), fwd.shape)

BackwardPass(loss) ==
  /\ fwd # <<>> /\ fwd.ok /\ Len(paramGrads) < MaxGrads
  /\ \E r \in {SequentialBackward(LossGradient(loss, fwd.shape), OutputShapes)} :
       /\ bwd' = [loss |-> loss, training |-> training, edges |-> r.edges]
       /\ paramGrads' = Append(paramGrads, r.uses)
       /\ UNCHANGED <<model, net, training, lastBuild, announced, fwd, calls>>

ZeroGrad ==
  /\ paramGrads # <<>> /\ paramGrads' = <<>> /\ bwd' = <<>>
  /\ UNCHANGED <<model, net, training, lastBuild, announced, fwd, calls>>

Tokens(N) == IF Has("Embedding")
             THEN {[p \in Offsets(InputShape(N)) |-> t[1 + (p % Len(t))]] : t \in TokenPatterns}
             ELSE {<<>>}
Masks(N)  == IF Has("Dropout") THEN SUBSET Offsets(InputShape(N)) ELSE {{}}

LayersNext ==
  \/ \E s \in model.shapes : BuildModel(s)
  \/ \E t \in BOOLEAN : SetTraining(t)
  \/ \E N \in Batches : lastBuild.ok /\
       \E tokens \in Tokens(N), keep \in Masks(N) : ForwardPass(N, tokens, keep)
  \/ \E loss \in Losses : BackwardPass(loss)
  \/ ZeroGrad

-----------------------------------------------------------------------------
\* backward computes the gradient of the loss: each element of the input and of
\* the parameters gains what forward and the loss make of it, from the last
\* forward pass and with the factors of that pass; unless the mode was switched
\* in between.
GradientsAreAdjoint ==
  bwd # <<>> /\ bwd.training = fwd.training =>
    /\ bwd.edges = Then(LossCompute(bwd.loss, fwd.shape), fwd.edges)
    /\ paramGrads # <<>> /\ Last(paramGrads) = Then(LossCompute(bwd.loss, fwd.shape), fwd.uses)

\* A forward pass computes every element of a tensor of the shape the first
\* build announced, from elements the input has.
EveryOutputComputed ==
  fwd # <<>> /\ fwd.ok =>
    /\ fwd.shape = IF model.batched THEN [announced EXCEPT ![1] = fwd.input[1]]
                                    ELSE <<fwd.input[1]>> \o announced
    /\ {e[1] : e \in fwd.edges} \union {u[1] : u \in fwd.uses} = Offsets(fwd.shape)
    /\ {e[2] : e \in fwd.edges} \subseteq Offsets(fwd.input)

Sample(i, s)   == i \div Product(Tail(s))
Position(i, s) == (i \div s[3]) % s[2]

SamplesApart ==
  fwd # <<>> /\ fwd.ok =>
    \A e \in fwd.edges : Sample(e[1], fwd.shape) = Sample(e[2], fwd.input)

\* What a model answers for a sample depends on no other sample of the batch,
\* unless it normalises over the batch; behind a causal mask a position depends
\* on none after it.
OnlyOwnSampleAndPast ==
  /\ ~Has("BatchNorm1d") => SamplesApart
  /\ fwd # <<>> /\ fwd.ok /\ model.layers[1].kind = "Attention" /\ model.layers[1].causal =>
       \A e \in fwd.edges : Position(e[2], fwd.input) <= Position(e[1], fwd.shape)

\* Building again for the same shape keeps the weights, however long they were
\* trained.
RebuildKeepsWeights ==
  [][lastBuild.ok /\ lastBuild'.shape = lastBuild.shape =>
       \A k \in 1..Depth : net'[k].inits = net[k].inits]_layerVars

\* What NormLayers.h says of BatchNorm1d: "Tracks running_mean/running_var during
\* training for use in eval mode".
EvalIgnoresTheBatch == fwd # <<>> /\ ~fwd.training => SamplesApart

=============================================================================
