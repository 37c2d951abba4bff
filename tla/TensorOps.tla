------------------------------ MODULE TensorOps ------------------------------
(***************************************************************************)
(* Shapes, strides and the index arithmetic of the CPU kernels: Tensor.h,   *)
(* Tensor.cpp and CpuBackend.cpp.                                          *)
(*                                                                         *)
(* A tensor's buffer is a function from offsets 0..numel-1; a kernel is     *)
(* given by the offsets it reads for each offset it writes, what arithmetic *)
(* it does with them left out.  Every tensor is row-major, because the CPU  *)
(* backend's transpose copies.  Dimensions count from 1.                   *)
(***************************************************************************)
EXTENDS Integers, SequencesExt

Product(s) == FoldLeft(LAMBDA p, d : p * d, 1, s)

shapeNumel(s) == IF s = <<>> THEN 0 ELSE Product(s)

rowMajorStrides(s) == [d \in DOMAIN s |-> Product(SubSeq(s, d + 1, Len(s)))]

Offsets(s) == 0..(shapeNumel(s) - 1)

\* Tensor::at: the offset of an index.
Offset(index, strides) == FoldLeftDomain(LAMBDA sum, d : sum + index[d] * strides[d], 0, strides)

\* The loop of sum, max, transpose and cat that takes an offset apart:
\* coord = rem / strides[d]; rem %= strides[d].
Coords(offset, strides) ==
  LET rem[d \in 0..Len(strides)] == IF d = 0 THEN offset ELSE rem[d - 1] % strides[d]
  IN  [d \in DOMAIN strides |-> rem[d - 1] \div strides[d]]

Swap(s, d, e) == [s EXCEPT ![d] = s[e], ![e] = s[d]]

\* transpose: for each offset of the result the offset it is copied from.
transpose(s, d, e) ==
  LET out  == Swap(s, d, e)
      from == Swap(rowMajorStrides(s), d, e)
  IN  [i \in Offsets(out) |-> Offset(Coords(i, rowMajorStrides(out)), from)]

\* matmul of two matrices or two batches of matrices: <<c, a, b>> when the
\* result at c has the product of the operands at a and b as a summand.  Eigen
\* sees column-major A^T (K x M), B^T (N x K) and C^T (N x M).
matmul(a, b) ==
  LET batch == IF Len(a) = 3 THEN a[1] ELSE 1
      M == a[Len(a) - 1]
      K == a[Len(a)]
      N == b[Len(b)]
      At(k, m) == k + m * K
      Bt(n, k) == n + k * N
      Ct(n, m) == n + m * N
  IN  {<<i * M * N + Ct(n, m), i * M * K + At(k, m), i * K * N + Bt(n, k)>> :
         i \in 0..(batch - 1), m \in 0..(M - 1), n \in 0..(N - 1), k \in 0..(K - 1)}

\* reshape of a contiguous tensor; a dimension of -1 is inferred.  The guard
\* known # 0 stands for the division by zero the code would do.
reshape(s, new) ==
  LET holes  == {d \in DOMAIN new : new[d] = -1}
      known  == Product([d \in DOMAIN new |-> IF d \in holes THEN 1 ELSE new[d]])
      filled == [d \in DOMAIN new |-> IF d \in holes THEN shapeNumel(s) \div known ELSE new[d]]
      infers == holes = {} \/ /\ Cardinality(holes) = 1
                              /\ known # 0
                              /\ shapeNumel(s) % known = 0
  IN  IF infers /\ shapeNumel(filled) = shapeNumel(s)
      THEN [ok |-> TRUE, shape |-> filled]
      ELSE [ok |-> FALSE, shape |-> s]

\* Mutation: the coordinate that is summed over stays.
reduceKeepsCoord(s, dim, keepdim) ==
  LET out == [s EXCEPT ![dim] = 1]
  IN  [shape |-> IF keepdim THEN out ELSE RemoveAt(out, dim),
       into  |-> [i \in Offsets(s) |-> Offset(Coords(i, rowMajorStrides(s)), rowMajorStrides(out))]]

\* sum, mean and max over one dimension: the shape of the result and where
\* each element goes.
reduce(s, dim, keepdim) ==
  LET out == [s EXCEPT ![dim] = 1]
      To(i) == [Coords(i, rowMajorStrides(s)) EXCEPT ![dim] = 0]
  IN  [shape |-> IF keepdim THEN out ELSE RemoveAt(out, dim),
       into  |-> [i \in Offsets(s) |-> Offset(To(i), rowMajorStrides(out))]]

\* With no dimension given, all elements are reduced to one.
reduceAll(s, keepdim) ==
  [shape |-> IF keepdim THEN [d \in DOMAIN s |-> 1] ELSE <<1>>, into |-> [i \in Offsets(s) |-> 0]]

\* cat of two tensors: where the elements of each go.  Along the first dimension
\* the buffers are copied one behind the other.
cat(s, t, dim) ==
  LET out == [s EXCEPT ![dim] = s[dim] + t[dim]]
      Place(u, i, offset) ==
        Offset([Coords(i, rowMajorStrides(u)) EXCEPT ![dim] = @ + offset], rowMajorStrides(out))
  IN  [shape |-> out,
       from1 |-> [i \in Offsets(s) |-> IF dim = 1 THEN i ELSE Place(s, i, 0)],
       from2 |-> [i \in Offsets(t) |-> IF dim = 1 THEN shapeNumel(s) + i ELSE Place(t, i, s[dim])]]

=============================================================================
