----------------------------- MODULE LayerKernels -----------------------------
(***************************************************************************)
(* The built-in layers and losses, by the elements they read and write.     *)
(*                                                                         *)
(* What a layer computes is a set of edges <<o, i, w>>: element o of the    *)
(* output (its offset) depends on element i of the input, and the           *)
(* derivative is made of the factors w, a sequence of parameter elements    *)
(* and of values saved for backward.  uses relates outputs to elements of   *)
(* parameters in the same way.  What backward does is a set of edges of the *)
(* same form: the gradient of i gains that of o times w.  The arithmetic in *)
(* between is left out, and so are constant factors.                       *)
(***************************************************************************)
EXTENDS TensorOps

\* Edges one behind the other.
Then(R, S) ==
  LET from == [m \in {r[2] : r \in R} |-> {s \in S : s[1] = m}]
  IN  UNION {{<<r[1], s[2], r[3] \o s[3]>> : s \in from[r[2]]} : r \in R}

Flip(R) == {<<r[2], r[1], r[3]>> : r \in R}

\* The terms of a product with a parameter, or with a value saved: the output
\* depends on the first operand, the factor is the element of the second.
Linear(name, terms) == {<<t[1], t[2], <<<<name, t[3]>>>>>> : t \in terms}
AlongSaved(value, terms) == {<<t[1], t[2], <<Append(value, t[3])>>>> : t \in terms}

\* The same terms, as uses of the second operand.
LinearUses(name, saved, terms) == {<<t[1], <<name, t[3]>>, <<Append(saved, t[2])>>>> : t \in terms}

Bias(name, rows, cols) == {<<r * cols + c, <<name, c>>, <<>>>> : r \in 0..(rows - 1), c \in 0..(cols - 1)}

\* Mutation: the rows are taken to be as long as there are rows.
RowsOfWrongLength(rows, cols, call) ==
  {<<r * rows + c, r * rows + d, <<<<"row", call, r>>>>>> :
     r \in 0..(rows - 1), c \in 0..(cols - 1), d \in 0..(cols - 1)}

\* Every element of a row depends on every element of that row.
Rows(rows, cols, call) ==
  {<<r * cols + c, r * cols + d, <<<<"row", call, r>>>>>> :
     r \in 0..(rows - 1), c \in 0..(cols - 1), d \in 0..(cols - 1)}

-----------------------------------------------------------------------------
\* Results of build, and of forward and backward.
Refused(l)           == [ok |-> FALSE, shape |-> <<>>, layer |-> l]
Built(shape, l)      == [ok |-> TRUE, shape |-> shape, layer |-> [l EXCEPT !.built = TRUE]]
Allocated(shape, l, dims) == Built(shape, [l EXCEPT !.dims = dims, !.inits = @ + 1])

Failed(l)                     == [ok |-> FALSE, shape |-> <<>>, edges |-> {}, uses |-> {}, layer |-> l]
Computed(l, shape, edges, uses) == [ok |-> TRUE, shape |-> shape, edges |-> edges, uses |-> uses, layer |-> l]

Saves(l, call, s, pick) == [l EXCEPT !.ctx = [call |-> call, shape |-> s, pick |-> pick]]

-----------------------------------------------------------------------------
\* Dense: y = x W^T + b.
DenseBuild(L, l, s) ==
  IF l.built THEN Built(<<L.out>>, l)
  ELSE IF s = <<>> THEN Refused(l)
  ELSE Allocated([s EXCEPT ![Len(s)] = L.out], l, <<Last(s)>>)

DenseForward(L, l, call, s) ==
  LET W  == <<L.out, l.dims[1]>>
      Wt == transpose(W, 1, 2)
      terms == {<<t[1], t[2], Wt[t[3]]>> : t \in matmul(s, Swap(W, 1, 2))}
  IN  Computed(Saves(l, call, s, {}), <<s[1], L.out>>,
               Linear("weights", terms),
               LinearUses("weights", <<"x", call>>, terms) \union Bias("bias", s[1], L.out))

DenseBackward(L, l, s) ==
  LET g  == <<s[1], L.out>>
      Gt == transpose(g, 1, 2)
      dW == matmul(Swap(g, 1, 2), l.ctx.shape)
  IN  [edges |-> Flip(Linear("weights", matmul(g, <<L.out, l.dims[1]>>))),
       uses  |-> {<<Gt[t[2]], <<"weights", t[1]>>, <<<<"x", l.ctx.call, t[3]>>>>>> : t \in dW}
                 \union Bias("bias", l.ctx.shape[1], L.out)]

-----------------------------------------------------------------------------
\* Conv2D: a square kernel, a stride and a zero padding.
TruncDiv(a, b) == IF a >= 0 THEN a \div b ELSE -((-a) \div b)

OutSize(L, size) == TruncDiv(size + 2 * L.padding - L.kernel, L.stride) + 1

\* A sample <<C, H, W>> again is a no-op; the dimensions are stored before they
\* are looked at.
ConvBuild(L, l, s) ==
  LET out == <<L.filters, OutSize(L, s[2]), OutSize(L, s[3])>>
  IN  IF Len(s) # 3 THEN Refused(l)
      ELSE IF l.built /\ l.dims = s THEN Built(out, l)
      ELSE IF out[2] <= 0 \/ out[3] <= 0 THEN Refused([l EXCEPT !.dims = s])
      ELSE Allocated(out, l, s)

\* The offsets of the products x * k that make an output, for an input
\* <<N, C, H, W>> and an output <<N, F, oH, oW>>; taps in the padding are skipped.
ConvTerms(L, x, y) ==
  LET k == L.kernel
      Row(t) == t[3] * L.stride + t[6] - L.padding
      Col(t) == t[4] * L.stride + t[7] - L.padding
      taps == {t \in (0..(x[1]-1)) \X (0..(y[2]-1)) \X (0..(y[3]-1)) \X (0..(y[4]-1))
                     \X (0..(x[2]-1)) \X (0..(k-1)) \X (0..(k-1)) :
                 Row(t) \in 0..(x[3]-1) /\ Col(t) \in 0..(x[4]-1)}
  IN  {<<t[1] * (y[2]*y[3]*y[4]) + t[2] * (y[3]*y[4]) + t[3] * y[4] + t[4],
         t[1] * (x[2]*x[3]*x[4]) + t[5] * (x[3]*x[4]) + Row(t) * x[4] + Col(t),
         t[2] * (x[2]*k*k) + t[5] * (k*k) + t[6] * k + t[7]>> : t \in taps}

ConvBias(y) ==
  {<<t[1] * (y[2]*y[3]*y[4]) + t[2] * (y[3]*y[4]) + t[3] * y[4] + t[4], <<"bias", t[2]>>, <<>>>> :
     t \in (0..(y[1]-1)) \X (0..(y[2]-1)) \X (0..(y[3]-1)) \X (0..(y[4]-1))}

ConvForward(L, l, call, s) ==
  LET y == <<s[1], L.filters, OutSize(L, s[3]), OutSize(L, s[4])>>
  IN  IF Len(s) # 4 \/ ~l.built THEN Failed(l)
      ELSE Computed(Saves(l, call, s, {}), y,
                    Linear("kernel", ConvTerms(L, s, y)),
                    LinearUses("kernel", <<"x", call>>, ConvTerms(L, s, y)) \union ConvBias(y))

\* Mutation: the gradients are placed with the output's height and width.
ConvBackwardOutDims(L, l, g) ==
  LET x == <<g[1], l.dims[1], g[3], g[4]>>
  IN  [edges |-> Linear("kernel", ConvTerms(L, x, g)),
       uses  |-> LinearUses("kernel", <<"x", l.ctx.call>>, ConvTerms(L, x, g)) \union ConvBias(g)]

\* With the dimensions of build, not those of the last input.
ConvBackward(L, l, g) ==
  LET x == <<g[1]>> \o l.dims
  IN  [edges |-> Linear("kernel", ConvTerms(L, x, g)),
       uses  |-> LinearUses("kernel", <<"x", l.ctx.call>>, ConvTerms(L, x, g)) \union ConvBias(g)]

-----------------------------------------------------------------------------
\* Embedding: the input is `pick', a token for each position.
\* Mutation: without the isBuilt test.
EmbeddingBuildAnew(L, l, s) == Allocated(<<Last(s), L.dim>>, l, <<L.vocab, L.dim>>)

EmbeddingBuild(L, l, s) ==
  IF l.built THEN Built(<<Last(s), L.dim>>, l)
  ELSE Allocated(<<IF s = <<>> THEN 1 ELSE Last(s), L.dim>>, l, <<L.vocab, L.dim>>)

Lookups(L, positions, tokens) ==
  {<<p * L.dim + d, <<"weight", tokens[p] * L.dim + d>>, <<>>>> : p \in positions, d \in 0..(L.dim - 1)}

EmbeddingForward(L, l, call, s, tokens) ==
  LET saved == Saves(l, call, s, tokens)
  IN  IF Len(s) # 2 \/ ~l.built THEN Failed(l)
      ELSE IF \E p \in Offsets(s) : tokens[p] \notin 0..(L.vocab - 1) THEN Failed(saved)
      ELSE Computed(saved, s \o <<L.dim>>, {}, Lookups(L, Offsets(s), tokens))

EmbeddingBackward(L, l) ==
  [edges |-> {},
   uses  |-> Lookups(L, {p \in Offsets(l.ctx.shape) : l.ctx.pick[p] \in 0..(L.vocab - 1)}, l.ctx.pick)]

-----------------------------------------------------------------------------
\* Dropout: `pick' is the set of elements kept.
Identity(positions) == {<<i, i, <<>>>> : i \in positions}

Kept(positions, call) == {<<i, i, <<<<"kept", call>>>>>> : i \in positions}

DropoutForward(l, call, s, keep) ==
  IF l.training
  THEN Computed(Saves(l, call, s, keep), s, Kept(keep, call), {})
  ELSE Computed([l EXCEPT !.ctx = <<>>], s, Identity(Offsets(s)), {})

DropoutBackward(l, s) ==
  [edges |-> IF ~l.training \/ l.ctx = <<>> THEN Identity(Offsets(s)) ELSE Kept(l.ctx.pick, l.ctx.call),
   uses  |-> {}]

-----------------------------------------------------------------------------
\* BatchNorm1d and LayerNorm scale what they normalised by gamma and add beta.
Scaled(edges, cols) == {<<e[1], e[2], <<<<"gamma", e[1] % cols>>>> \o e[3]>> : e \in edges}

ScaleUses(rows, cols, call) ==
  {<<i, <<"gamma", i % cols>>, <<<<"xNorm", call, i>>>>>> : i \in 0..(rows * cols - 1)}
  \union Bias("beta", rows, cols)

Columns(rows, cols, call) ==
  {<<r * cols + c, q * cols + c, <<<<"column", call, c>>>>>> :
     r \in 0..(rows - 1), q \in 0..(rows - 1), c \in 0..(cols - 1)}

BatchNormBuild(l, s) ==
  IF l.built THEN Built(s, l)
  ELSE IF Len(s) # 2 THEN Refused(l)
  ELSE Allocated(s, l, <<s[2]>>)

\* Training or not, the statistics are those of the batch; the running ones are
\* updated in training and read nowhere.
BatchNormForward(l, call, s) ==
  IF Len(s) # 2 THEN Failed(l)
  ELSE Computed([Saves(l, call, s, {}) EXCEPT !.running = IF l.training THEN call ELSE @],
                s, Scaled(Columns(s[1], s[2], call), s[2]), ScaleUses(s[1], s[2], call))

BatchNormBackward(l) ==
  LET N == l.ctx.shape[1]
      F == l.dims[1]
  IN  [edges |-> Scaled(Columns(N, F, l.ctx.call), F), uses |-> ScaleUses(N, F, l.ctx.call)]

LayerNormBuild(L, l, s) ==
  IF l.built THEN Built(s, l)
  ELSE IF s = <<>> THEN Refused(l)
  ELSE Allocated(s, l, <<IF L.dim = -1 THEN Last(s) ELSE L.dim>>)

LayerNormForward(l, call, s) ==
  LET D == l.dims[1]
      N == IF Len(s) = 1 THEN 1 ELSE s[1]
  IN  Computed(Saves(l, call, <<N>>, {}), IF Len(s) = 1 THEN <<D>> ELSE <<N, D>>,
               Scaled(Rows(N, D, call), D), ScaleUses(N, D, call))

LayerNormBackward(l) ==
  LET D == l.dims[1]
      N == l.ctx.shape[1]
  IN  [edges |-> Scaled(Rows(N, D, l.ctx.call), D), uses |-> ScaleUses(N, D, l.ctx.call)]

-----------------------------------------------------------------------------
\* Activations pass any shape through build.  All but Softmax are elementwise,
\* and the derivative is computed from the saved input or output.
PassThroughBuild(l, s) == Built(s, l)

ElementByElement(s, call) == {<<i, i, <<<<"at", call, i>>>>>> : i \in Offsets(s)}

ElementwiseForward(l, call, s) == Computed(Saves(l, call, s, {}), s, ElementByElement(s, call), {})

ElementwiseBackward(l) == [edges |-> ElementByElement(l.ctx.shape, l.ctx.call), uses |-> {}]

SoftmaxRows(s, call) == IF Len(s) = 1 THEN Rows(1, s[1], call) ELSE Rows(s[1], s[2], call)

SoftmaxForward(l, call, s) == Computed(Saves(l, call, s, {}), s, SoftmaxRows(s, call), {})

SoftmaxBackward(l) == [edges |-> SoftmaxRows(l.ctx.shape, l.ctx.call), uses |-> {}]

=============================================================================
