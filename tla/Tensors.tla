------------------------------- MODULE Tensors -------------------------------
(***************************************************************************)
(* A program that computes with a tensor: each action replaces it by the    *)
(* result of a tensor operation.  `shape' and `buf' are the tensor as the   *)
(* code has it, `array' is what it stands for, a function from indices.     *)
(* Elements are sets of labels, sums of elements their unions.             *)
(***************************************************************************)
EXTENDS TensorOps

CONSTANTS Shapes,      \* shapes the program starts from and concatenates
          NewShapes,   \* arguments of reshape
          MaxNumel,    \* bound: elements of a tensor
          MaxOps       \* bound: operations in a row

\* A dimension of -1 is to be inferred.
ASSUME TensorsAssumption ==
  /\ MaxNumel \in Nat /\ MaxOps \in Nat
  /\ \A s \in Shapes : s \in Seq(Nat) /\ s # <<>>
  /\ \A s \in NewShapes : s \in Seq(Nat \union {-1}) /\ s # <<>>

VARIABLES shape, buf, array, ops
tensorVars == <<shape, buf, array, ops>>

Indices(s) ==
  {c \in [DOMAIN s -> UNION {0..(s[d] - 1) : d \in DOMAIN s}] : \A d \in DOMAIN s : c[d] < s[d]}

\* c comes before e when indices are read like numbers.
Before(c, e) ==
  \E d \in DOMAIN c : c[d] < e[d] /\ \A k \in 1..(d - 1) : c[k] = e[k]

Rank(c, s) == Cardinality({e \in Indices(s) : Before(e, c)})

\* A tensor of the given shape with elements never seen before.
FreshBuf(s, tag)   == [i \in Offsets(s) |-> {<<tag, i>>}]
FreshArray(s, tag) == [c \in Indices(s) |-> {<<tag, Rank(c, s)>>}]

TensorInit ==
  /\ shape \in Shapes
  /\ buf = FreshBuf(shape, 0)
  /\ array = FreshArray(shape, 0)
  /\ ops = 0

Step == ops < MaxOps /\ ops' = ops + 1

Transpose(d, e) ==
  /\ Step
  /\ shape' = Swap(shape, d, e)
  /\ buf' = [i \in DOMAIN transpose(shape, d, e) |-> buf[transpose(shape, d, e)[i]]]
  /\ array' = [c \in Indices(shape') |-> array[Swap(c, d, e)]]

Reshape(new) ==
  /\ Step
  /\ reshape(shape, new).ok
  /\ shape' = reshape(shape, new).shape
  /\ buf' = buf
  /\ array' = [c \in Indices(shape') |->
                 array[CHOOSE e \in Indices(shape) : Rank(e, shape) = Rank(c, shape')]]

\* Without keepdim a tensor of one dimension would get none, which reshape
\* refuses and value() of the refusal aborts.
Sum(dim, keepdim) ==
  LET r == reduce(shape, dim, keepdim)
      Kept(c) == IF keepdim THEN [c EXCEPT ![dim] = 0] ELSE RemoveAt(c, dim)
  IN  /\ Step
      /\ r.shape # <<>>
      /\ shape' = r.shape
      /\ buf' = [o \in Offsets(shape') |-> UNION {buf[i] : i \in {i \in DOMAIN buf : r.into[i] = o}}]
      /\ array' = [k \in Indices(shape') |->
                     UNION {array[c] : c \in {c \in Indices(shape) : Kept(c) = k}}]

SumAll(keepdim) ==
  LET r == reduceAll(shape, keepdim)
  IN  /\ Step
      /\ shape' = r.shape
      /\ buf' = [o \in Offsets(shape') |-> UNION {buf[i] : i \in {i \in DOMAIN buf : r.into[i] = o}}]
      /\ array' = [c \in Indices(shape') |-> UNION {array[e] : e \in Indices(shape)}]

Cat(other, dim) ==
  LET r == cat(shape, other, dim)
      new == FreshBuf(other, ops')
      newArray == FreshArray(other, ops')
  IN  /\ Step
      /\ Len(other) = Len(shape)
      /\ \A d \in DOMAIN shape : d = dim \/ other[d] = shape[d]
      /\ shapeNumel(shape) + shapeNumel(other) <= MaxNumel
      /\ shape' = r.shape
      /\ buf' = [o \in Offsets(shape') |->
                   UNION ({buf[i] : i \in {i \in DOMAIN buf : r.from1[i] = o}}
                     \union {new[i] : i \in {i \in DOMAIN new : r.from2[i] = o}})]
      /\ array' = [c \in Indices(shape') |->
                     IF c[dim] < shape[dim] THEN array[c]
                     ELSE newArray[[c EXCEPT ![dim] = @ - shape[dim]]]]

TensorNext ==
  \/ \E d, e \in DOMAIN shape : d < e /\ Transpose(d, e)
  \/ \E new \in NewShapes : Reshape(new)
  \/ \E dim \in DOMAIN shape, keepdim \in BOOLEAN : Sum(dim, keepdim)
  \/ \E keepdim \in BOOLEAN : SumAll(keepdim)
  \/ \E other \in Shapes, dim \in DOMAIN shape : Cat(other, dim)

TensorSpec == TensorInit /\ [][TensorNext]_tensorVars

-----------------------------------------------------------------------------
\* After any sequence of operations the buffer holds the elements that the
\* definitions of the operations on arrays give, each at the offset the strides
\* say, and nothing else.
BufferIsArray ==
  /\ DOMAIN buf = Offsets(shape)
  /\ \A c \in Indices(shape) : buf[Offset(c, rowMajorStrides(shape))] = array[c]

=============================================================================
