------------------------------- MODULE MCEngine -------------------------------
(***************************************************************************)
(* What computes, for TLC: the graph with layers that are only names, the  *)
(* layers with what they compute, and the tensor operations.  The three    *)
(* share no state, so that a behaviour is of one of them.                  *)
(***************************************************************************)
EXTENDS ComputeGraph, Layers, Tensors

Of(kind)    == [kind |-> kind]
Dense(n)    == [kind |-> "Dense", out |-> n]
Model(ls, shapes) == [layers |-> ls, shapes |-> shapes, batched |-> FALSE]

\* A classifier, a dropout in front of a layer, a normalisation, a strided and
\* padded convolution rebuilt for another image size, a causal attention of two
\* heads and a token model.
MCModels ==
  {Model(<<Dense(2), Of("Elementwise"), Dense(3), Of("Softmax")>>, {<<3>>}),
   Model(<<Of("Dropout"), Dense(2)>>, {<<2>>}),
   Model(<<[kind |-> "LayerNorm", dim |-> -1], Dense(3)>>, {<<3>>}),
   Model(<<[kind |-> "Conv2D", filters |-> 2, kernel |-> 2, stride |-> 2, padding |-> 1],
           Of("Elementwise")>>, {<<2, 3, 2>>, <<1, 2, 2>>}),
   Model(<<[kind |-> "Attention", dim |-> 4, heads |-> 2, causal |-> TRUE]>>, {<<2, 4>>}),
   Model(<<[kind |-> "Embedding", vocab |-> 2, dim |-> 2],
           [kind |-> "Attention", dim |-> 2, heads |-> 1, causal |-> FALSE]>>, {<<2>>})}

\* A layer that normalises over the batch is built with the shape of a batch.
MCNormModels ==
  {[layers |-> <<Dense(2), Of("BatchNorm1d")>>, shapes |-> {<<2, 3>>}, batched |-> TRUE]}

MCAllModels == MCModels \union MCNormModels

\* Token 2 is outside the vocabulary.
MCTokens == {<<1>>, <<0, 1, 1>>, <<1, 2>>}

MCShapes    == {<<4>>, <<2, 3>>, <<1, 2, 2>>, <<2, 1>>}
MCNewShapes == {<<-1>>, <<-1, 2>>, <<3, -1>>, <<-1, -1>>, <<2, -1, 2>>, <<4, 2>>, <<2, 0>>, <<6>>, <<1, 6>>}

ASSUME ModelsSayMore == \A m \in Models : ComputesAll(m) /\ StaysCausal(m)

VARIABLE which

NoGraph   == Init
NoLayers  == /\ model = CHOOSE m \in Models : TRUE
             /\ net = <<>> /\ training = FALSE /\ lastBuild = [shape |-> <<>>, ok |-> FALSE]
             /\ announced = <<>> /\ fwd = <<>> /\ bwd = <<>> /\ paramGrads = <<>> /\ calls = 0
NoTensors == shape = <<0>> /\ buf = <<>> /\ array = <<>> /\ ops = 0

MCInit ==
  \/ which = "ComputeGraph" /\ Init /\ NoLayers /\ NoTensors
  \/ which = "Layers" /\ LayersInit /\ NoGraph /\ NoTensors
  \/ which = "Tensors" /\ TensorInit /\ NoGraph /\ NoLayers

MCNext ==
  /\ UNCHANGED which
  /\ \/ which = "ComputeGraph" /\ Next /\ UNCHANGED <<layerVars, tensorVars>>
     \/ which = "Layers" /\ LayersNext /\ UNCHANGED <<vars, tensorVars>>
     \/ which = "Tensors" /\ TensorNext /\ UNCHANGED <<vars, layerVars>>

MCSpec == MCInit /\ [][MCNext]_<<which, vars, layerVars, tensorVars>>

=============================================================================
