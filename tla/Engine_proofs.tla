---------------------------- MODULE Engine_proofs ----------------------------
(***************************************************************************)
(* Proofs about ComputeGraph and Layers.                                   *)
(*                                                                         *)
(* ComputeGraph first, for any layers and number of passes, and any shape  *)
(* of the graph: node ids stay ordered along the tape, the round trip      *)
(* through JSON included.  The only facts the argument needs beyond        *)
(* NodeIdsOrdered are that the tape is a sequence of ops between natural   *)
(* node ids, and that the last op produces the largest of them, which is   *)
(* why MaxId finds a maximum.                                              *)
(*                                                                         *)
(* Then the passes, for chains: what the folds of forward and backward     *)
(* leave in the maps from node ids to tensors, op by op, and with it the   *)
(* gradients and the traces.                                               *)
(*                                                                         *)
(* Layers last, for any sequence of layers: what build announced is passed *)
(* on from layer to layer, and a build for the same shape allocates        *)
(* nothing.                                                                *)
(***************************************************************************)
EXTENDS ComputeGraph, Layers, DataInduction, SequenceTheorems

Op == [layer : Layers, in : Nat, out : Nat]

\* The inductive invariant.
IInv == tape \in Seq(Op) /\ NodeIdsOrdered

Ids == {0} \union {tape[i].in : i \in DOMAIN tape} \union {tape[i].out : i \in DOMAIN tape}

\* toJson's ids have a largest one, which fromJson finds.
LEMMA MaxIdIsMax ==
  ASSUME IInv
  PROVE  MaxId \in Nat /\ MaxId \in Ids /\ \A n \in Ids : n <= MaxId
<1> DEFINE top == IF tape = <<>> THEN 0 ELSE tape[Len(tape)].out
<1>1. top \in Ids /\ top \in Nat
  <2>1. CASE tape = <<>>
    BY <2>1 DEF Ids
  <2>2. CASE tape # <<>>
    <3>1. Len(tape) \in DOMAIN tape
      BY <2>2 DEF IInv
    <3>2. tape[Len(tape)] \in Op
      BY <3>1 DEF IInv
    <3>3. top = tape[Len(tape)].out
      BY <2>2
    <3>4. top \in Ids
      BY <3>1, <3>3 DEF Ids
    <3> QED BY <3>2, <3>3, <3>4 DEF Op
  <2> QED BY <2>1, <2>2
<1>2. \A n \in Ids : n <= top
  <2>1. ASSUME NEW i \in DOMAIN tape
        PROVE  tape[i].in <= top /\ tape[i].out <= top
    <3>1. tape # <<>> /\ i \in 1..Len(tape) /\ tape[i] \in Op /\ tape[Len(tape)] \in Op
      BY <2>1 DEF IInv
    <3>2. tape[i].in < tape[i].out
      BY <2>1 DEF IInv, NodeIdsOrdered
    <3>3. /\ tape[i].in \in Nat /\ tape[i].out \in Nat /\ tape[Len(tape)].out \in Nat
      BY <3>1 DEF Op
    <3>4. CASE i = Len(tape)
      BY <3>1, <3>2, <3>3, <3>4
    <3>5. CASE i < Len(tape)
      <4>1. Len(tape) \in DOMAIN tape
        BY <3>1 DEF IInv
      <4>2. tape[i].out < tape[Len(tape)].out
        BY <2>1, <3>5, <4>1 DEF IInv, NodeIdsOrdered
      <4> QED BY <3>1, <3>2, <3>3, <4>2
    <3>6. Len(tape) \in Nat
      BY DEF IInv
    <3> QED BY <3>1, <3>4, <3>5, <3>6
  <2>2. 0 <= top
    BY <1>1
  <2> QED BY <2>1, <2>2 DEF Ids
<1> HIDE DEF top
<1>3. \E m \in Ids : \A n \in Ids : n <= m
  BY <1>1, <1>2
<1>4. Ids \subseteq Nat
  <2>1. \A i \in DOMAIN tape : tape[i] \in Op
    BY DEF IInv
  <2>2. \A i \in DOMAIN tape : tape[i].in \in Nat /\ tape[i].out \in Nat
    BY <2>1 DEF Op
  <2> QED BY <2>2 DEF Ids
<1>5. MaxId = CHOOSE m \in Ids : \A n \in Ids : n <= m
  BY DEF MaxId, Ids
<1>6. MaxId \in Ids /\ \A n \in Ids : n <= MaxId
  BY <1>3, <1>5
<1> QED BY <1>4, <1>6

LEMMA InitIsOrdered == Init => IInv
BY DEF Init, IInv, NodeIdsOrdered

\* record() numbers the new node with an id above all others, and reads one
\* that was allocated.
LEMMA RecordKeepsOrder ==
  ASSUME IInv, Record
  PROVE  IInv'
<1>1. PICK l \in Layers, n \in 0..(nextId - 1) :
        tape' = Append(tape, [layer |-> l, in |-> n, out |-> nextId])
  BY DEF Record
<1> DEFINE op == [layer |-> l, in |-> n, out |-> nextId]
<1>2. nextId \in Nat /\ nextId' = nextId + 1 /\ output' = nextId
  BY DEF Record, IInv, NodeIdsOrdered
<1>3. op \in Op /\ tape \in Seq(Op) /\ tape' = Append(tape, op)
  BY <1>1, <1>2 DEF Op, IInv
<1>4. tape' \in Seq(Op) /\ Len(tape') = Len(tape) + 1 /\ Len(tape) \in Nat
  BY <1>3
<1>5. /\ \A i \in 1..Len(tape) : tape'[i] = tape[i]
      /\ tape'[Len(tape) + 1] = op
  BY <1>3
<1>6. \A i \in DOMAIN tape' : i \in 1..Len(tape) \/ i = Len(tape) + 1
  BY <1>4
<1>7. \A i \in 1..Len(tape) :
        tape[i] \in Op /\ tape[i].in < tape[i].out /\ tape[i].out < nextId
  BY <1>3 DEF IInv, NodeIdsOrdered
<1>8. op.in = n /\ op.out = nextId /\ n < nextId
  BY <1>2
<1>9. \A i \in DOMAIN tape' : tape'[i].in < tape'[i].out /\ tape'[i].out < nextId'
  <2> HIDE DEF op
  <2> QED BY <1>2, <1>5, <1>6, <1>7, <1>8 DEF Op
<1>10. ASSUME NEW i \in DOMAIN tape', NEW j \in DOMAIN tape', i < j
       PROVE  tape'[i].out < tape'[j].out
  <2>1. i \in 1..Len(tape)
    BY <1>4, <1>6, <1>10
  <2>2. CASE j \in 1..Len(tape)
    BY <1>3, <1>5, <1>10, <2>1, <2>2 DEF IInv, NodeIdsOrdered
  <2>3. CASE j = Len(tape) + 1
    BY <1>5, <1>7, <1>8, <2>1, <2>3
  <2> QED BY <1>6, <2>2, <2>3
<1>11. output' = tape'[Len(tape')].out
  BY <1>2, <1>4, <1>5, <1>8
<1> QED
  BY <1>2, <1>4, <1>9, <1>10, <1>11 DEF IInv, NodeIdsOrdered

LEMMA RoundTripKeepsOrder ==
  ASSUME IInv, RoundTrip
  PROVE  IInv'
<1>1. MaxId \in Nat /\ \A n \in Ids : n <= MaxId
  BY MaxIdIsMax
<1>2. nextId' = MaxId + 1 /\ tape' = tape /\ output' = output
  BY DEF RoundTrip, NextIdOfJson
<1>3. \A i \in DOMAIN tape : tape[i].out \in Ids /\ tape[i].out \in Nat
  <2>1. \A i \in DOMAIN tape : tape[i] \in Op
    BY DEF IInv
  <2> QED BY <2>1 DEF Ids, Op
<1>4. \A i \in DOMAIN tape' : tape'[i].out < nextId'
  BY <1>1, <1>2, <1>3
<1> QED BY <1>1, <1>2, <1>4 DEF IInv, NodeIdsOrdered

LEMMA NextKeepsOrder == IInv /\ [Next]_vars => IInv'
<1> SUFFICES ASSUME IInv, [Next]_vars PROVE IInv'
  OBVIOUS
<1>1. CASE Record
  BY <1>1, RecordKeepsOrder
<1>2. CASE RoundTrip
  BY <1>2, RoundTripKeepsOrder
<1>3. CASE UNCHANGED graph
  BY <1>3 DEF graph, IInv, NodeIdsOrdered
<1>4. Build \/ SetTraceMode \/ TrainStep \/ Predict \/ UNCHANGED vars => UNCHANGED graph
  BY DEF Build, SetTraceMode, TrainStep, Predict, vars, graph
<1> QED BY <1>1, <1>2, <1>3, <1>4 DEF Next

\* Recording order is a topological order of the graph, and a node id is never
\* given out twice, for any layers and any number of passes and round trips.
THEOREM IdsOrdered == Spec => []NodeIdsOrdered
<1>1. IInv => NodeIdsOrdered
  BY DEF IInv
<1> QED BY InitIsOrdered, NextKeepsOrder, <1>1, PTL DEF Spec

-----------------------------------------------------------------------------
(***************************************************************************)
(* The passes.  The node that the i-th op writes is i, so that a forward   *)
(* pass has written the nodes 0 to k after k ops, and in a chain the       *)
(* gradient behind the i-th op is the one that backward keeps for node i.  *)
(***************************************************************************)

Tensor == Seq(Nat \union Layers)
Maps   == UNION {[D -> Tensor] : D \in SUBSET Nat}

\* Nodes are numbered in the order of the ops, and a layer is recorded once.
Numbered ==
  /\ tape \in Seq(Op)
  /\ nextId = Len(tape) + 1
  /\ \A i \in DOMAIN tape : tape[i].out = i /\ tape[i].in < i
  /\ tape # <<>> => output = Len(tape)
  /\ \A i, j \in DOMAIN tape : tape[i].layer = tape[j].layer => i = j

\* Each op reads what the one before wrote.
InChain == \A i \in DOMAIN tape : tape[i].in = i - 1

LEMMA OpFacts ==
  ASSUME Numbered, NEW i \in DOMAIN tape
  PROVE  /\ tape[i] \in Op /\ tape[i].layer \in Layers
         /\ i \in Nat /\ i >= 1 /\ i <= Len(tape) /\ Len(tape) \in Nat
         /\ tape[i].out = i /\ tape[i].in \in 0 .. i-1
<1>1. tape[i] \in Op /\ i \in 1 .. Len(tape) /\ Len(tape) \in Nat
  BY DEF Numbered
<1>2. tape[i].in \in Nat /\ tape[i].layer \in Layers
  BY <1>1 DEF Op
<1>3. tape[i].out = i /\ tape[i].in < i
  BY DEF Numbered
<1> QED BY <1>1, <1>2, <1>3

LEMMA PutOf ==
  ASSUME NEW v \in Maps, NEW n \in Nat, NEW t \in Tensor
  PROVE  /\ Put(v, n, t) \in Maps
         /\ DOMAIN Put(v, n, t) = DOMAIN v \union {n}
         /\ Put(v, n, t)[n] = t
         /\ \A m \in DOMAIN v : m # n => Put(v, n, t)[m] = v[m]
<1>1. PICK D \in SUBSET Nat : v \in [D -> Tensor]
  BY DEF Maps
<1>2. Put(v, n, t) \in [D \union {n} -> Tensor]
  BY <1>1 DEF Put
<1>3. D \union {n} \in SUBSET Nat
  BY <1>1
<1>4. Put(v, n, t) \in Maps
  BY <1>2, <1>3 DEF Maps
<1> QED BY <1>1, <1>4 DEF Put

LEMMA EmptyMap == <<>> \in Maps /\ <<>> \in Tensor
<1>1. <<>> \in [{} -> Tensor]
  OBVIOUS
<1>2. <<>> \in Tensor
  BY DEF Tensor
<1> QED BY <1>1, <1>2 DEF Maps

LEMMA AtOf ==
  ASSUME NEW v \in Maps, NEW n
  PROVE  At(v, n) \in Tensor
<1>1. PICK D \in SUBSET Nat : v \in [D -> Tensor]
  BY DEF Maps
<1>2. <<>> \in Tensor
  BY DEF Tensor
<1> QED BY <1>1, <1>2 DEF At

LEMMA AppendOf ==
  ASSUME NEW t \in Tensor, NEW l \in Nat \union Layers
  PROVE  /\ Append(t, l) \in Tensor /\ Append(t, l) # <<>>
         /\ t # <<>> => Head(Append(t, l)) = Head(t)
<1>1. Append(t, l) \in Tensor /\ Append(t, l) # <<>>
  BY AppendProperties DEF Tensor
<1>2. ASSUME t # <<>> PROVE Head(Append(t, l)) = Head(t)
  <2>1. Len(t) \in Nat \ {0}
    BY <1>2 DEF Tensor
  <2> QED BY <2>1 DEF Tensor
<1> QED BY <1>1, <1>2

\* One op of a forward pass, and of a backward pass.
ForwardOp(v, op)  == Put(v, op.out, Append(At(v, op.in), op.layer))
BackwardOp(v, op) == Put(v, op.in, Append(At(v, op.out), op.layer))

LEMMA OpsKeepMaps ==
  ASSUME NEW v \in Maps, NEW op \in Op
  PROVE  /\ ForwardOp(v, op) \in Maps
         /\ DOMAIN ForwardOp(v, op) = DOMAIN v \union {op.out}
         /\ ForwardOp(v, op)[op.out] = Append(At(v, op.in), op.layer)
         /\ \A m \in DOMAIN v : m # op.out => ForwardOp(v, op)[m] = v[m]
         /\ BackwardOp(v, op) \in Maps
         /\ DOMAIN BackwardOp(v, op) = DOMAIN v \union {op.in}
         /\ BackwardOp(v, op)[op.in] = Append(At(v, op.out), op.layer)
<1>1. op.in \in Nat /\ op.out \in Nat /\ op.layer \in Nat \union Layers
  BY DEF Op
<1>2. /\ Append(At(v, op.in), op.layer) \in Tensor
      /\ Append(At(v, op.out), op.layer) \in Tensor
  BY <1>1, AtOf, AppendOf
<1> DEFINE f == Append(At(v, op.in), op.layer)
           b == Append(At(v, op.out), op.layer)
<1>3. f \in Tensor /\ b \in Tensor
  BY <1>2
<1>4. ForwardOp(v, op) = Put(v, op.out, f) /\ BackwardOp(v, op) = Put(v, op.in, b)
  BY DEF ForwardOp, BackwardOp
<1> HIDE DEF f, b
<1>5. /\ ForwardOp(v, op) \in Maps
      /\ DOMAIN ForwardOp(v, op) = DOMAIN v \union {op.out}
      /\ ForwardOp(v, op)[op.out] = f
      /\ \A m \in DOMAIN v : m # op.out => ForwardOp(v, op)[m] = v[m]
  BY <1>1, <1>3, <1>4, PutOf
<1>6. /\ BackwardOp(v, op) \in Maps
      /\ DOMAIN BackwardOp(v, op) = DOMAIN v \union {op.in}
      /\ BackwardOp(v, op)[op.in] = b
  BY <1>1, <1>3, <1>4, PutOf
<1> QED BY <1>5, <1>6 DEF f, b

\* After k ops the values of nodes 0 to k are those of this pass, each the
\* value of its input sent through the layer.
Produced(v, k, x) ==
  /\ 0 .. k \subseteq DOMAIN v /\ v[0] = x
  /\ \A i \in 1 .. k : v[i] = Append(v[tape[i].in], tape[i].layer)

LEMMA ForwardOpComputes ==
  ASSUME Numbered, NEW x, NEW v \in Maps, NEW k \in Nat, k + 1 \in DOMAIN tape, Produced(v, k, x)
  PROVE  ForwardOp(v, tape[k+1]) \in Maps /\ Produced(ForwardOp(v, tape[k+1]), k + 1, x)
<1> DEFINE op == tape[k+1]
           w == ForwardOp(v, op)
<1>1. op \in Op /\ op.out = k + 1 /\ op.in < k + 1 /\ op.in \in Nat
  BY OpFacts
<1> HIDE DEF op
<1>2. /\ w \in Maps /\ DOMAIN w = DOMAIN v \union {k + 1}
      /\ w[k+1] = Append(At(v, op.in), op.layer)
      /\ \A m \in DOMAIN v : m # k + 1 => w[m] = v[m]
  BY <1>1, OpsKeepMaps, ZenonT(40)
<1>3. op.in \in 0 .. k /\ op.in \in DOMAIN v /\ At(v, op.in) = v[op.in]
  BY <1>1 DEF At, Produced
<1>4. \A i \in 1 .. k : tape[i].in \in 0 .. k
  <2>1. ASSUME NEW i \in 1 .. k PROVE tape[i].in \in 0 .. k
    <3>1. i \in DOMAIN tape
      BY DEF Numbered
    <3>2. tape[i].in \in 0 .. i-1
      BY <3>1, OpFacts
    <3> QED BY <3>2
  <2> QED BY <2>1
<1> HIDE DEF w
<1>5. \A m \in 0 .. k : m \in DOMAIN v /\ w[m] = v[m]
  BY <1>2 DEF Produced
<1>6. 0 .. k+1 \subseteq DOMAIN w /\ w[0] = x
  BY <1>2, <1>5 DEF Produced
<1>7. ASSUME NEW i \in 1 .. k+1 PROVE w[i] = Append(w[tape[i].in], tape[i].layer)
  <2>1. CASE i = k + 1
    BY <1>2, <1>3, <1>5, <2>1 DEF op
  <2>2. CASE i \in 1 .. k
    <3>1. v[i] = Append(v[tape[i].in], tape[i].layer)
      BY <2>2 DEF Produced
    <3>2. w[i] = v[i] /\ w[tape[i].in] = v[tape[i].in]
      BY <1>4, <1>5, <2>2
    <3> QED BY <3>1, <3>2
  <2>3. i \in 1 .. k \/ i = k + 1
    OBVIOUS
  <2> QED BY <2>1, <2>2, <2>3
<1> QED BY <1>2, <1>6, <1>7 DEF Produced, w, op

LEMMA ValuesComputed ==
  ASSUME Numbered, tape # <<>>, values \in Maps, NEW x \in Tensor, NEW n \in 0 .. Len(tape)
  PROVE  ValuesAfter(n, x) \in Maps /\ Produced(ValuesAfter(n, x), n, x)
<1> DEFINE opsq == SubSeq(tape, 1, n)
           base == Put(values, tape[1].in, x)
           F == [i \in 1 .. n |-> [v \in Maps |-> ForwardOp(v, opsq[i])]]
           Eq(g) == g = [s \in SUBSET DOMAIN opsq |-> IF s = {} THEN base
                            ELSE ForwardOp(g[s \ {Max(s)}], opsq[Max(s)])]
           iter == CHOOSE g : Eq(g)
<1>1. /\ n \in Nat /\ DOMAIN opsq = 1 .. n
      /\ \A i \in 1 .. n : i \in DOMAIN tape /\ opsq[i] = tape[i] /\ opsq[i] \in Op
  BY DEF Numbered
<1>2. base \in Maps /\ Produced(base, 0, x)
  <2>1. tape[1].in = 0
    <3>1. 1 \in DOMAIN tape
      BY DEF Numbered
    <3>2. tape[1].in \in 0 .. 1-1
      BY <3>1, OpFacts
    <3> QED BY <3>2
  <2>2. base \in Maps /\ 0 \in DOMAIN base /\ base[0] = x
    <3> DEFINE z == tape[1].in
    <3>1. z = 0 /\ z \in Nat
      BY <2>1
    <3> HIDE DEF z
    <3>2. Put(values, z, x) \in Maps /\ DOMAIN Put(values, z, x) = DOMAIN values \union {z}
          /\ Put(values, z, x)[z] = x
      BY <3>1, PutOf
    <3> USE DEF z
    <3> QED BY <3>1, <3>2
  <2> QED BY <2>2 DEF Produced
<1>10. ValuesAfter(n, x) = iter[DOMAIN opsq]
  BY DEF ValuesAfter, FoldLeft, MapThenFoldSet, ForwardOp
<1>3. \A v \in Maps, op \in Op : ForwardOp(v, op) \in Maps
  BY OpsKeepMaps
<1> HIDE DEF base, opsq
<1>5. F \in [1 .. n -> [Maps -> Maps]]
  BY <1>1, <1>3
<1>6. PICK g : IsFold(g, n, Maps, base, F)
  <2> HIDE DEF F
  <2> QED BY <1>1, <1>2, <1>5, SubsetFold
<1>7. ASSUME NEW s \in SUBSET (1 .. n), s # {}
      PROVE  F[Max(s)][g[s \ {Max(s)}]] = ForwardOp(g[s \ {Max(s)}], opsq[Max(s)])
  <2>1. Max(s) \in 1 .. n /\ s \ {Max(s)} \in SUBSET (1 .. n)
    BY <1>1, <1>7, MaxExists
  <2> QED BY <2>1, <1>6 DEF IsFold
<1>8. Eq(g)
  BY <1>1, <1>6, <1>7 DEF IsFold
<1>9. Eq(iter)
  <2> HIDE DEF Eq
  <2> QED BY <1>8
<1> HIDE DEF iter
<1> DEFINE T == {k \in 0 .. n : iter[1 .. k] \in Maps /\ Produced(iter[1 .. k], k, x)}
<1>11. 0 \in T
  <2>1. iter[1 .. 0] = base
    BY <1>1, <1>9
  <2> QED BY <1>1, <1>2, <2>1
<1>12. ASSUME NEW k \in 0 .. n-1, k \in T PROVE k + 1 \in T
  <2>1. /\ 1 .. k+1 \in SUBSET (1 .. n) /\ 1 .. k+1 # {} /\ k + 1 \in 1 .. n
        /\ Max(1 .. k+1) = k + 1
        /\ (1 .. k+1) \ {k+1} = 1 .. k
    BY <1>1, IntervalTop
  <2>2. iter[1 .. k+1] = ForwardOp(iter[1 .. k], tape[k+1])
    BY <1>1, <1>9, <2>1
  <2>3. k \in Nat /\ k + 1 \in DOMAIN tape /\ k + 1 \in 0 .. n
    BY <1>1, <2>1
  <2>4. iter[1 .. k] \in Maps /\ Produced(iter[1 .. k], k, x)
    BY <1>12
  <2>5. iter[1 .. k+1] \in Maps /\ Produced(iter[1 .. k+1], k + 1, x)
    BY <2>2, <2>3, <2>4, ForwardOpComputes
  <2> QED BY <2>3, <2>5
<1> HIDE DEF T
<1>13. 0 .. n \subseteq T
  BY <1>1, <1>11, <1>12, IntervalInduction
<1>14. n \in T
  BY <1>1, <1>13
<1> QED BY <1>1, <1>10, <1>14 DEF T

\* The gradient of pass p behind the n-th op.
Back(n, p) == <<p>> \o LaterLayers(n)

LEMMA BackIs ==
  ASSUME Numbered, NEW p \in Nat, NEW n \in 0 .. Len(tape)
  PROVE  /\ Back(n, p) \in Tensor
         /\ Len(Back(n, p)) = Len(tape) - n + 1
         /\ Back(n, p)[1] = p
         /\ \A m \in 2 .. (Len(tape) - n + 1) : Back(n, p)[m] = tape[Len(tape) + 2 - m].layer
<1> DEFINE N == Len(tape)
           later == LaterLayers(n)
<1>1. N \in Nat /\ n \in Nat /\ n <= N
  BY DEF Numbered
<1>2. \A m \in 1 .. N - n : N + 1 - m \in DOMAIN tape
  BY <1>1 DEF Numbered
<1>3. \A m \in 1 .. N - n : tape[N + 1 - m].layer \in Nat \union Layers
  BY <1>2, OpFacts
<1>4. later = [m \in 1 .. N - n |-> tape[N + 1 - m].layer]
  BY DEF LaterLayers
<1> HIDE DEF later, N
<1>5. N - n \in Nat /\ later \in [1 .. N - n -> Nat \union Layers]
  BY <1>1, <1>3, <1>4
<1>6. later \in Tensor /\ Len(later) = N - n
  BY <1>5, SeqDef DEF Tensor
<1>7. <<p>> \in Tensor /\ Len(<<p>>) = 1 /\ <<p>>[1] = p
  BY DEF Tensor
<1> DEFINE s == <<p>> \o later
<1>8. /\ s \in Tensor /\ Len(s) = 1 + (N - n)
      /\ \A i \in 1 .. 1 + (N - n) : s[i] = IF i <= 1 THEN <<p>>[i] ELSE later[i - 1]
  BY <1>6, <1>7, ConcatProperties DEF Tensor
<1>9. Back(n, p) = s
  BY DEF Back, later
<1> HIDE DEF s
<1>10. s[1] = p
  BY <1>5, <1>7, <1>8
<1>11. ASSUME NEW m \in 2 .. (N - n + 1) PROVE s[m] = tape[N + 2 - m].layer
  <2>1. m - 1 \in 1 .. N - n /\ m \in 1 .. 1 + (N - n) /\ ~(m <= 1) /\ N + 1 - (m - 1) = N + 2 - m
    BY <1>1
  <2> QED BY <1>4, <1>8, <2>1
<1>12. Len(s) = N - n + 1
  BY <1>1, <1>8
<1> QED BY <1>8, <1>9, <1>10, <1>11, <1>12 DEF N

LEMMA BackEnds ==
  ASSUME Numbered, NEW p \in Nat
  PROVE  Back(Len(tape), p) = <<p>>
<1>1. Len(tape) \in Nat
  BY DEF Numbered
<1> DEFINE N == Len(tape)
<1>2. N \in 0 .. Len(tape) /\ Len(tape) - N + 1 = 1
  BY <1>1
<1> HIDE DEF N
<1>3. Back(N, p) \in Tensor /\ Len(Back(N, p)) = 1 /\ Back(N, p)[1] = p
  BY <1>2, BackIs
<1>4. Back(N, p) = <<p>>
  BY <1>3 DEF Tensor
<1> QED BY <1>4 DEF N

LEMMA BackSteps ==
  ASSUME Numbered, NEW p \in Nat, NEW n \in DOMAIN tape
  PROVE  Append(Back(n, p), tape[n].layer) = Back(n - 1, p)
<1> DEFINE s == Back(n, p)
           t == Back(n - 1, p)
           a == Append(s, tape[n].layer)
           N == Len(tape)
<1>1. N \in Nat /\ n \in Nat /\ n >= 1 /\ n <= N /\ n \in 0 .. N /\ n - 1 \in 0 .. N
      /\ tape[n].layer \in Nat \union Layers
  BY OpFacts
<1>2. /\ s \in Tensor /\ Len(s) = N - n + 1 /\ s[1] = p
      /\ \A m \in 2 .. (N - n + 1) : s[m] = tape[N + 2 - m].layer
  BY <1>1, BackIs
<1>3. /\ t \in Tensor /\ Len(t) = N - (n - 1) + 1 /\ t[1] = p
      /\ \A m \in 2 .. (N - (n - 1) + 1) : t[m] = tape[N + 2 - m].layer
  BY <1>1, BackIs
<1> HIDE DEF s, t, N
<1>4. /\ a \in Tensor /\ Len(a) = N - n + 2
      /\ \A m \in 1 .. (N - n + 1) : a[m] = s[m]
      /\ a[N - n + 2] = tape[n].layer
  <2> DEFINE l == tape[n].layer
  <2>4. l \in Nat \union Layers /\ s \in Tensor /\ a = Append(s, l)
    BY <1>1, <1>2
  <2> HIDE DEF l, a
  <2>1. a \in Tensor /\ Len(a) = Len(s) + 1 /\ Len(s) \in Nat
    BY <2>4 DEF Tensor
  <2>2. a[Len(s) + 1] = tape[n].layer /\ \A m \in 1 .. Len(s) : a[m] = s[m]
    BY <2>4 DEF Tensor, l
  <2>3. Len(s) + 1 = N - n + 2
    BY <1>1, <1>2
  <2> QED BY <1>2, <2>1, <2>2, <2>3
<1> HIDE DEF a
<1>5. Len(t) = N - n + 2
  BY <1>1, <1>3
<1>6. ASSUME NEW m \in 1 .. Len(a) PROVE a[m] = t[m]
  <2>1. CASE m = 1
    <3>1. 1 \in 1 .. (N - n + 1)
      BY <1>1
    <3> QED BY <1>2, <1>3, <1>4, <2>1, <3>1
  <2>2. CASE m \in 2 .. (N - n + 1)
    <3>1. m \in 1 .. (N - n + 1) /\ m \in 2 .. (N - (n - 1) + 1)
      BY <1>1, <2>2
    <3> QED BY <1>2, <1>3, <1>4, <2>2, <3>1
  <2>3. CASE m = N - n + 2
    <3>1. m \in 2 .. (N - (n - 1) + 1) /\ N + 2 - m = n
      BY <1>1, <2>3
    <3> QED BY <1>3, <1>4, <2>3, <3>1
  <2>4. m = 1 \/ m \in 2 .. (N - n + 1) \/ m = N - n + 2
    BY <1>1, <1>4
  <2> QED BY <2>1, <2>2, <2>3, <2>4
<1>7. a = t
  BY <1>3, <1>4, <1>5, <1>6, SeqEqual DEF Tensor
<1> QED BY <1>7 DEF a, s, t

\* The gradient of the input of the last of the first j ops of Walk.
Reached(m, j, p) == Len(tape) - j \in DOMAIN m /\ m[Len(tape) - j] = Back(Len(tape) - j, p)

LEMMA BackwardOpReaches ==
  ASSUME Numbered, InChain, NEW p \in Nat, NEW m \in Maps, NEW j \in Nat, j < Len(tape), Reached(m, j, p)
  PROVE  /\ BackwardOp(m, Walk[j+1]) \in Maps
         /\ Reached(BackwardOp(m, Walk[j+1]), j + 1, p)
<1> DEFINE N == Len(tape)
           n == N - j
           op == tape[n]
           w == BackwardOp(m, op)
<1>1. N \in Nat /\ n \in DOMAIN tape /\ N - (j + 1) = n - 1 /\ j + 1 \in 1 .. N /\ N - (j + 1) + 1 = n
  BY DEF Numbered
<1>2. Walk[j+1] = op
  BY <1>1 DEF Walk, Reverse
<1>3. op \in Op /\ op.out = n
  BY <1>1, OpFacts
<1>4. op.in = n - 1
  BY <1>1 DEF InChain
<1>5. At(m, n) = Back(n, p)
  BY DEF Reached, At
<1>6. Append(Back(n, p), op.layer) = Back(n - 1, p)
  BY <1>1, BackSteps
<1> HIDE DEF op, n, N
<1>7. w \in Maps /\ DOMAIN w = DOMAIN m \union {n - 1} /\ w[n - 1] = Append(At(m, n), op.layer)
  BY <1>3, <1>4, OpsKeepMaps
<1>8. Reached(w, j + 1, p)
  BY <1>1, <1>5, <1>6, <1>7 DEF Reached, N
<1> QED BY <1>2, <1>7, <1>8

LEMMA GradientsReach ==
  ASSUME Numbered, InChain, tape # <<>>, NEW p \in Nat, NEW n \in 0 .. Len(tape)
  PROVE  Reached(GradMapAfter(n, <<p>>), n, p)
<1> DEFINE opsq == SubSeq(Walk, 1, n)
           base == Put(<<>>, output, <<p>>)
           F == [i \in 1 .. n |-> [v \in Maps |-> BackwardOp(v, opsq[i])]]
           Eq(g) == g = [s \in SUBSET DOMAIN opsq |-> IF s = {} THEN base
                            ELSE BackwardOp(g[s \ {Max(s)}], opsq[Max(s)])]
           iter == CHOOSE g : Eq(g)
<1>0. /\ Len(tape) \in Nat /\ n \in Nat /\ n <= Len(tape)
  BY DEF Numbered
<1>1. /\ DOMAIN opsq = 1 .. n
      /\ \A i \in 1 .. n : opsq[i] = Walk[i] /\ opsq[i] \in Op
  <2>1. Walk = [i \in 1 .. Len(tape) |-> tape[Len(tape) - i + 1]]
    BY DEF Walk, Reverse
  <2>2. \A i \in 1 .. Len(tape) : Len(tape) - i + 1 \in DOMAIN tape
    BY <1>0 DEF Numbered
  <2>3. \A i \in 1 .. Len(tape) : Walk[i] \in Op
    BY <2>1, <2>2, OpFacts
  <2>4. \A i \in 1 .. n : i \in 1 .. Len(tape) /\ Walk[i] \in Op
    BY <1>0, <2>3
  <2>5. Len(opsq) = n /\ opsq \in Seq(Op) /\ \A i \in 1 .. n : opsq[i] = Walk[i]
    <3>1. /\ SubSeq(Walk, 1, n) \in Seq(Op)
          /\ Len(SubSeq(Walk, 1, n)) = IF 1 <= n THEN n-1+1 ELSE 0
          /\ \A i \in 1 .. n-1+1 : SubSeq(Walk, 1, n)[i] = Walk[1+i-1]
      BY <1>0, <2>4, SubSeqProperties
    <3>2. \A i \in 1 .. n : i \in 1 .. n-1+1 /\ 1+i-1 = i
      BY <1>0
    <3> HIDE DEF opsq
    <3>3. SubSeq(Walk, 1, n) = opsq
      BY DEF opsq
    <3> QED BY <1>0, <3>1, <3>2, <3>3
  <2>6. DOMAIN opsq = 1 .. Len(opsq)
    BY <2>5
  <2> QED BY <2>4, <2>5, <2>6
<1>2. base \in Maps /\ Reached(base, 0, p)
  <2>1. <<>> \in Maps
    BY EmptyMap
  <2>2. <<p>> \in Tensor
    BY DEF Tensor
  <2>3. output = Len(tape)
    BY DEF Numbered
  <2>4. base \in Maps /\ output \in DOMAIN base /\ base[output] = <<p>>
    <3> DEFINE e == <<>>
               t == <<p>>
    <3>1. e \in Maps /\ t \in Tensor /\ output \in Nat
      BY <1>0, <2>1, <2>2, <2>3
    <3>2. base = Put(e, output, t)
      OBVIOUS
    <3> HIDE DEF e, t, base
    <3>3. base \in Maps /\ DOMAIN base = DOMAIN e \union {output} /\ base[output] = t
      BY <3>1, <3>2, PutOf
    <3> QED BY <3>3 DEF t
  <2> QED BY <1>0, <2>3, <2>4, BackEnds DEF Reached
<1>10. GradMapAfter(n, <<p>>) = iter[DOMAIN opsq]
  BY DEF GradMapAfter, FoldLeft, MapThenFoldSet, BackwardOp
<1>3. \A v \in Maps, op \in Op : BackwardOp(v, op) \in Maps
  BY OpsKeepMaps
<1> HIDE DEF base, opsq
<1>5. F \in [1 .. n -> [Maps -> Maps]]
  BY <1>1, <1>3
<1>6. PICK g : IsFold(g, n, Maps, base, F)
  <2> HIDE DEF F
  <2> QED BY <1>0, <1>2, <1>5, SubsetFold
<1>7. ASSUME NEW s \in SUBSET (1 .. n), s # {}
      PROVE  F[Max(s)][g[s \ {Max(s)}]] = BackwardOp(g[s \ {Max(s)}], opsq[Max(s)])
  <2>1. Max(s) \in 1 .. n /\ s \ {Max(s)} \in SUBSET (1 .. n)
    BY <1>0, <1>7, MaxExists
  <2> QED BY <2>1, <1>6 DEF IsFold
<1>8. Eq(g)
  BY <1>1, <1>6, <1>7 DEF IsFold
<1>9. Eq(iter)
  <2> HIDE DEF Eq
  <2> QED BY <1>8
<1> HIDE DEF iter
<1> DEFINE T == {k \in 0 .. n : iter[1 .. k] \in Maps /\ Reached(iter[1 .. k], k, p)}
<1>11. 0 \in T
  <2>1. iter[1 .. 0] = base
    BY <1>1, <1>9
  <2> QED BY <1>0, <1>2, <2>1
<1>12. ASSUME NEW k \in 0 .. n-1, k \in T PROVE k + 1 \in T
  <2>1. /\ 1 .. k+1 \in SUBSET (1 .. n) /\ 1 .. k+1 # {} /\ k + 1 \in 1 .. n
        /\ Max(1 .. k+1) = k + 1
        /\ (1 .. k+1) \ {k+1} = 1 .. k
    BY <1>0, IntervalTop
  <2>2. iter[1 .. k+1] = BackwardOp(iter[1 .. k], Walk[k+1])
    BY <1>1, <1>9, <2>1
  <2>3. k \in Nat /\ k < Len(tape) /\ k + 1 \in 0 .. n
    BY <1>0, <2>1
  <2>4. iter[1 .. k] \in Maps /\ Reached(iter[1 .. k], k, p)
    BY <1>12
  <2>5. iter[1 .. k+1] \in Maps /\ Reached(iter[1 .. k+1], k + 1, p)
    BY <2>2, <2>3, <2>4, BackwardOpReaches
  <2> QED BY <2>3, <2>5
<1> HIDE DEF T
<1>13. 0 .. n \subseteq T
  BY <1>0, <1>11, <1>12, IntervalInduction
<1>14. n \in T
  BY <1>0, <1>13
<1> QED BY <1>1, <1>10, <1>14 DEF T

-----------------------------------------------------------------------------
\* What a forward pass leaves for backward and for the traces.
LEMMA ComputedOfPass ==
  ASSUME Numbered, NEW v \in Maps, NEW k \in 0 .. Len(tape), NEW p \in Nat, Produced(v, k, <<p>>)
  PROVE  \A i \in 0 .. k : v[i] \in Tensor /\ v[i] # <<>> /\ Head(v[i]) = p
<1> DEFINE Good(i) == v[i] \in Tensor /\ v[i] # <<>> /\ Head(v[i]) = p
           T == {i \in 0 .. k : \A m \in 0 .. i : Good(m)}
<1>1. k \in Nat /\ k <= Len(tape)
  BY DEF Numbered
<1>2. 0 \in T
  <2>1. v[0] = <<p>> /\ <<p>> \in Tensor /\ <<p>> # <<>> /\ Head(<<p>>) = p
    BY DEF Produced, Tensor
  <2>2. Good(0)
    BY <2>1
  <2> HIDE DEF Good
  <2> QED BY <1>1, <2>2
<1>3. ASSUME NEW i \in 0 .. k-1, i \in T PROVE i + 1 \in T
  <2>1. i + 1 \in DOMAIN tape /\ i + 1 \in 1 .. k /\ i + 1 \in 0 .. k
    BY <1>1 DEF Numbered
  <2>2. tape[i+1].in \in 0 .. i /\ tape[i+1].layer \in Nat \union Layers
    <3>1. tape[i+1].in \in 0 .. i+1-1 /\ tape[i+1].layer \in Layers
      BY <2>1, OpFacts
    <3> QED BY <3>1
  <2>3. v[i+1] = Append(v[tape[i+1].in], tape[i+1].layer)
    BY <2>1 DEF Produced
  <2>4. Good(tape[i+1].in)
    BY <1>3, <2>2
  <2>5. Good(i + 1)
    BY <2>2, <2>3, <2>4, AppendOf
  <2> HIDE DEF Good
  <2>6. \A m \in 0 .. i+1 : m \in 0 .. i \/ m = i + 1
    OBVIOUS
  <2>7. \A m \in 0 .. i : Good(m)
    BY <1>3
  <2>8. \A m \in 0 .. i+1 : Good(m)
    BY <2>5, <2>6, <2>7
  <2> QED BY <2>1, <2>8
<1> HIDE DEF T
<1>4. 0 .. k \subseteq T
  BY <1>1, <1>2, <1>3, IntervalInduction
<1> QED BY <1>4 DEF T

Trace == [input : Tensor, output : Tensor, gradOutput : Tensor, gradInput : Tensor]

\* The first k ops have traces of pass p.
OfPass(ts, k, p) ==
  /\ ts \in Seq(Trace) /\ Len(ts) = k
  /\ \A i \in 1 .. k : /\ ts[i].output = Append(ts[i].input, tape[i].layer)
                       /\ Head(ts[i].input) = p
                       /\ ts[i].gradOutput # <<>> => Head(ts[i].gradOutput) = p

LEMMA TracesOfForward ==
  ASSUME Numbered, NEW v \in Maps, NEW k \in 0 .. Len(tape), NEW p \in Nat, Produced(v, k, <<p>>)
  PROVE  /\ OfPass(TracesOf(k, v), k, p)
         /\ \A i \in 1 .. k : TracesOf(k, v)[i].gradOutput = <<>> /\ TracesOf(k, v)[i].gradInput = <<>>
<1> DEFINE e(i) == [input |-> v[tape[i].in], output |-> v[tape[i].out],
                    gradOutput |-> <<>>, gradInput |-> <<>>]
           ts == [i \in 1 .. k |-> e(i)]
<1>1. k \in Nat /\ k <= Len(tape)
  BY DEF Numbered
<1>2. ASSUME NEW i \in 1 .. k
      PROVE  /\ v[tape[i].in] \in Tensor /\ Head(v[tape[i].in]) = p /\ v[tape[i].out] \in Tensor
             /\ v[tape[i].out] = Append(v[tape[i].in], tape[i].layer)
  <2>1. i \in DOMAIN tape
    BY <1>1 DEF Numbered
  <2>2. tape[i].in \in 0 .. i-1 /\ tape[i].out = i
    BY <2>1, OpFacts
  <2>3. tape[i].in \in 0 .. k /\ i \in 0 .. k
    BY <1>1, <2>2
  <2>4. v[i] = Append(v[tape[i].in], tape[i].layer)
    BY DEF Produced
  <2>5. \A m \in 0 .. k : v[m] \in Tensor /\ Head(v[m]) = p
    BY ComputedOfPass
  <2> QED BY <2>2, <2>3, <2>4, <2>5
<1>3. <<>> \in Tensor
  BY DEF Tensor
<1>4. \A i \in 1 .. k : e(i) \in Trace
  BY <1>2, <1>3 DEF Trace
<1>5. TracesOf(k, v) = <<>> \o ts
  BY DEF TracesOf, TracesLeft
<1>6. ts \in Seq(Trace) /\ Len(ts) = k
  <2>1. ts \in [1 .. k -> Trace]
    BY <1>4
  <2> HIDE DEF ts
  <2> QED BY <1>1, <2>1, SeqDef
<1>7. TracesOf(k, v) = ts
  <2> HIDE DEF ts
  <2> QED BY <1>5, <1>6, ConcatEmptySeq
<1>8. \A i \in 1 .. k : /\ ts[i].input = v[tape[i].in] /\ ts[i].output = v[tape[i].out]
                         /\ ts[i].gradOutput = <<>> /\ ts[i].gradInput = <<>>
  OBVIOUS
<1> HIDE DEF ts, e
<1> QED BY <1>2, <1>6, <1>7, <1>8, ZenonT(40) DEF OfPass

\* backward walks the ops from the last to the first, and meets each with the
\* gradient that came through those behind it.
LEMMA GradientsMeet ==
  ASSUME Numbered, InChain, NEW p \in Nat, NEW i \in DOMAIN tape
  PROVE  /\ Walk[Len(tape) + 1 - i] = tape[i]
         /\ GradOfOut(Len(tape) + 1 - i, <<p>>) = Back(i, p)
<1> DEFINE N == Len(tape)
<1>1. N \in Nat /\ i \in 1 .. N /\ N + 1 - i \in 1 .. N /\ N - (N + 1 - i) + 1 = i
      /\ (N + 1 - i) - 1 = N - i /\ N - i \in 0 .. N /\ N - (N - i) = i /\ tape # <<>>
  BY DEF Numbered
<1>2. Walk[N + 1 - i] = tape[i]
  BY <1>1 DEF Walk, Reverse
<1>3. Reached(GradMapAfter(N - i, <<p>>), N - i, p)
  BY <1>1, GradientsReach
<1>4. tape[i].out = i
  BY OpFacts
<1>5. GradOfOut(N + 1 - i, <<p>>) = At(GradMapAfter(N - i, <<p>>), i)
  BY <1>1, <1>2, <1>4 DEF GradOfOut
<1>6. i \in DOMAIN GradMapAfter(N - i, <<p>>) /\ GradMapAfter(N - i, <<p>>)[i] = Back(i, p)
  BY <1>1, <1>3 DEF Reached
<1>7. At(GradMapAfter(N - i, <<p>>), i) = Back(i, p)
  BY <1>6 DEF At
<1> QED BY <1>2, <1>5, <1>7

\* Every layer is walked once.
LEMMA WalkedOnce ==
  ASSUME Numbered, NEW i \in DOMAIN tape
  PROVE  {n \in 1 .. Len(tape) : Walk[n].layer = tape[i].layer} = {Len(tape) + 1 - i}
<1> DEFINE N == Len(tape)
<1>1. N \in Nat /\ i \in 1 .. N /\ DOMAIN tape = 1 .. N
  BY DEF Numbered
<1>2. \A n \in 1 .. N : N - n + 1 \in 1 .. N /\ Walk[n] = tape[N - n + 1]
  BY <1>1 DEF Walk, Reverse
<1>3. \A m, n \in 1 .. N : tape[m].layer = tape[n].layer => m = n
  BY <1>1 DEF Numbered
<1>4. ASSUME NEW n \in 1 .. N PROVE Walk[n].layer = tape[i].layer <=> n = N + 1 - i
  <2>1. Walk[n].layer = tape[i].layer => N - n + 1 = i
    BY <1>1, <1>2, <1>3
  <2>2. N - n + 1 = i <=> n = N + 1 - i
    BY <1>1
  <2> QED BY <1>2, <2>1, <2>2
<1>5. N + 1 - i \in 1 .. N
  BY <1>1
<1> HIDE DEF N
<1>6. {n \in 1 .. N : Walk[n].layer = tape[i].layer} = {N + 1 - i}
  BY <1>4, <1>5
<1> QED BY <1>6 DEF N

-----------------------------------------------------------------------------
\* The inductive invariant of the passes.
PassInv ==
  /\ IInv /\ Numbered /\ (Chain => InChain)
  /\ values \in Maps /\ passes \in Nat
  /\ Chain => traces \in Seq(Trace) /\ GradientsOfThisPass /\ TracesOfOnePass

LEMMA PassInit == Init => PassInv
<1> SUFFICES ASSUME Init PROVE PassInv
  OBVIOUS
<1>1. IInv
  BY InitIsOrdered
<1>2. Numbered /\ InChain
  BY DEF Init, Numbered, InChain
<1>3. values \in Maps
  <2>1. <<>> \in Maps
    BY EmptyMap
  <2>2. <<>> \in Tensor
    BY DEF Tensor
  <2> DEFINE e == <<>>
             z == 0
  <2>3. e \in Maps /\ e \in Tensor /\ z \in Nat
    BY <2>1, <2>2
  <2>4. values = Put(e, z, e)
    BY DEF Init
  <2> HIDE DEF e, z
  <2> QED BY <2>3, <2>4, PutOf
<1>4. passes \in Nat /\ traces \in Seq(Trace) /\ GradientsOfThisPass /\ TracesOfOnePass
  BY DEF Init, GradientsOfThisPass, TracesOfOnePass
<1> QED BY <1>1, <1>2, <1>3, <1>4 DEF PassInv

\* A new op reads a node that is there and writes the next one.
LEMMA RecordKeepsNumbers ==
  ASSUME PassInv, Record
  PROVE  Numbered' /\ (Chain => InChain')
<1>1. PICK l \in Layers \ Recorded, n \in 0 .. (nextId - 1) :
        /\ Chain => n = nextId - 1
        /\ tape' = Append(tape, [layer |-> l, in |-> n, out |-> nextId])
  BY DEF Record
<1> DEFINE op == [layer |-> l, in |-> n, out |-> nextId]
           N == Len(tape)
<1>2. N \in Nat /\ DOMAIN tape = 1 .. N /\ tape \in Seq(Op) /\ nextId = N + 1
      /\ nextId' = N + 2 /\ output' = N + 1 /\ tape' = Append(tape, op)
  BY <1>1 DEF Record, PassInv, Numbered
<1>3. op \in Op /\ op.out = N + 1 /\ op.in = n /\ n \in Nat /\ n < N + 1 /\ op.layer = l
  BY <1>2 DEF Op
<1> HIDE DEF op, N
<1>4. /\ tape' \in Seq(Op) /\ Len(tape') = N + 1 /\ tape'[N + 1] = op
      /\ \A i \in 1 .. N : tape'[i] = tape[i]
      /\ DOMAIN tape' = 1 .. N + 1
  BY <1>2, <1>3 DEF N
<1>5. \A i \in 1 .. N : tape[i].out = i /\ tape[i].in < i /\ tape[i].layer # l
  BY <1>1, <1>2 DEF PassInv, Numbered, Recorded
<1>6. \A i \in 1 .. N + 1 : i \in 1 .. N \/ i = N + 1
  BY <1>2
<1>7. \A i \in DOMAIN tape' : tape'[i].out = i /\ tape'[i].in < i
  BY <1>3, <1>4, <1>5, <1>6
<1>8. \A i, j \in 1 .. N : tape[i].layer = tape[j].layer => i = j
  BY <1>2 DEF PassInv, Numbered
<1>9. \A i, j \in DOMAIN tape' : tape'[i].layer = tape'[j].layer => i = j
  <2> SUFFICES ASSUME NEW i \in 1 .. N + 1, NEW j \in 1 .. N + 1, tape'[i].layer = tape'[j].layer
               PROVE  i = j
    BY <1>4
  <2>1. CASE i \in 1 .. N /\ j \in 1 .. N
    BY <1>4, <1>8, <2>1
  <2>2. CASE i = N + 1 /\ j \in 1 .. N
    BY <1>3, <1>4, <1>5, <2>2
  <2>3. CASE i \in 1 .. N /\ j = N + 1
    BY <1>3, <1>4, <1>5, <2>3
  <2> QED BY <1>6, <2>1, <2>2, <2>3
<1>10. Numbered'
  BY <1>2, <1>4, <1>7, <1>9 DEF Numbered
<1>11. ASSUME Chain PROVE InChain'
  <2>1. op.in = N
    BY <1>1, <1>2, <1>3, <1>11
  <2>2. \A i \in 1 .. N : tape[i].in = i - 1
    BY <1>2, <1>11 DEF PassInv, InChain
  <2>3. ASSUME NEW i \in 1 .. N + 1 PROVE tape'[i].in = i - 1
    BY <1>2, <1>4, <1>6, <2>1, <2>2
  <2> QED BY <1>4, <2>3 DEF InChain
<1> QED BY <1>10, <1>11

\* fromJson goes on with the number behind the last node.
LEMMA RoundTripKeepsNumbers ==
  ASSUME PassInv, RoundTrip
  PROVE  Numbered' /\ (Chain => InChain')
<1> DEFINE N == Len(tape)
<1>1. N \in Nat /\ DOMAIN tape = 1 .. N
  BY DEF PassInv, Numbered
<1>2. \A n \in Ids : n <= N
  <2>1. \A i \in DOMAIN tape : tape[i].in <= N /\ tape[i].out <= N
    <3>1. ASSUME NEW i \in DOMAIN tape PROVE tape[i].in <= N /\ tape[i].out <= N
      <4>1. tape[i].in \in 0 .. i-1 /\ tape[i].out = i
        BY OpFacts DEF PassInv
      <4> QED BY <1>1, <4>1
    <3> QED BY <3>1
  <2> QED BY <1>1, <2>1 DEF Ids
<1>3. N \in Ids
  <2>1. CASE N = 0
    BY <2>1 DEF Ids
  <2>2. CASE N # 0
    <3>1. N \in DOMAIN tape
      BY <1>1, <2>2
    <3>2. tape[N].out = N
      BY <3>1, OpFacts DEF PassInv
    <3> QED BY <3>1, <3>2 DEF Ids
  <2> QED BY <2>1, <2>2
<1>4. MaxId \in Nat /\ MaxId \in Ids /\ \A n \in Ids : n <= MaxId
  BY MaxIdIsMax DEF PassInv
<1>5. MaxId = N
  <2>1. N <= MaxId /\ MaxId <= N
    BY <1>2, <1>3, <1>4
  <2> HIDE DEF N
  <2> QED BY <1>1, <1>4, <2>1
<1>6. nextId' = N + 1 /\ tape' = tape /\ output' = output
  BY <1>5 DEF RoundTrip, NextIdOfJson
<1> QED BY <1>6 DEF PassInv, Numbered, InChain

\* A forward pass that ran k ops.
LEMMA ForwardDoes ==
  ASSUME PassInv, tape # <<>>, NEW k \in 0 .. Len(tape), passes' = passes + 1, Forward(k, <<passes'>>)
  PROVE  /\ passes' \in Nat
         /\ values' \in Maps /\ Produced(values', k, <<passes'>>)
         /\ OfPass(TracesOf(k, values'), k, passes')
<1> DEFINE p == passes'
           v == values'
<1>1. p \in Nat /\ Numbered /\ values \in Maps
  BY DEF PassInv
<1>2. v = ValuesAfter(k, <<p>>)
  BY DEF Forward
<1>3. <<p>> \in Tensor
  BY <1>1 DEF Tensor
<1>4. v \in Maps /\ Produced(v, k, <<p>>)
  <2> DEFINE x == <<p>>
  <2>1. x \in Tensor /\ v = ValuesAfter(k, x)
    BY <1>2, <1>3
  <2> HIDE DEF x, v, p
  <2>2. v \in Maps /\ Produced(v, k, x)
    BY <1>1, <2>1, ValuesComputed
  <2> QED BY <2>2 DEF x
<1> HIDE DEF p, v
<1>5. OfPass(TracesOf(k, v), k, p)
  BY <1>1, <1>4, TracesOfForward
<1> QED BY <1>1, <1>4, <1>5 DEF p, v

LEMMA TracesInPlace ==
  ASSUME Numbered, tape' = tape, NEW k \in 0 .. Len(tape), NEW p, OfPass(traces', k, p)
  PROVE  traces' \in Seq(Trace) /\ TracesOfOnePass'
<1>1. k \in Nat /\ k <= Len(tape)
  BY DEF Numbered
<1>2. traces' \in Seq(Trace) /\ Len(traces') = k /\ DOMAIN traces' = 1 .. k
  BY DEF OfPass
<1>3. ASSUME NEW i \in 1 .. k
      PROVE  /\ traces'[i].output = Append(traces'[i].input, tape[i].layer)
             /\ Head(traces'[i].input) = Head(traces'[1].input)
             /\ traces'[i].gradOutput # <<>> => Head(traces'[i].gradOutput) = Head(traces'[i].input)
  <2>1. 1 \in 1 .. k
    BY <1>1
  <2> QED BY <2>1 DEF OfPass
<1> QED BY <1>1, <1>2, <1>3 DEF TracesOfOnePass

LEMMA KeptTraces ==
  ASSUME PassInv, UNCHANGED <<tape, traces>>
  PROVE  Chain => traces' \in Seq(Trace) /\ TracesOfOnePass'
BY DEF PassInv, TracesOfOnePass

\* The traces that backward completes.
LEMMA BackwardTraces ==
  ASSUME PassInv, Chain, tape # <<>>, passes' = passes + 1, UNCHANGED tape,
         Forward(Len(tape), <<passes'>>), NEW j \in 0 .. Len(tape), Backward(j, <<passes'>>)
  PROVE  traces' \in Seq(Trace) /\ TracesOfOnePass'
<1>1. CASE ~traceMode
  BY <1>1, KeptTraces DEF Backward
<1>2. CASE traceMode
  <2> DEFINE N == Len(tape)
             p == passes'
             forward == TracesOf(N, values')
             done(i) == [forward[i] EXCEPT !.gradOutput = GradOfOut(N + 1 - i, <<p>>),
                                           !.gradInput = Append(@, tape[i].layer)]
  <2>1. N \in Nat /\ N \in 0 .. Len(tape) /\ DOMAIN tape = 1 .. N /\ Numbered /\ InChain
    BY DEF PassInv, Numbered
  <2>2. p \in Nat /\ values' \in Maps /\ Produced(values', N, <<p>>) /\ OfPass(forward, N, p)
    BY <2>1, ForwardDoes
  <2>3. \A i \in 1 .. N : forward[i].gradInput = <<>>
    <3> HIDE DEF p, N, forward
    <3>1. \A i \in 1 .. N : TracesOf(N, values')[i].gradInput = <<>>
      BY <2>1, <2>2, TracesOfForward DEF N
    <3> QED BY <3>1 DEF forward
  <2>4. Len(forward) = N /\ \A i \in 1 .. N : forward[i] \in Trace
    <3> HIDE DEF forward, N
    <3> QED BY <2>2 DEF OfPass
  <2>5. traces' = [i \in 1 .. N |-> IF i \in 1 .. N /\ N + 1 - i <= j THEN done(i) ELSE forward[i]]
    BY <1>2, <2>4 DEF Backward
  <2>6. ASSUME NEW i \in 1 .. N
        PROVE  /\ done(i) \in Trace /\ done(i).input = forward[i].input
               /\ done(i).output = forward[i].output /\ Head(done(i).gradOutput) = p
    <3> DEFINE b == GradOfOut(N + 1 - i, <<p>>)
               l == tape[i].layer
    <3>1. b = Back(i, p)
      BY <2>1, <2>2, GradientsMeet
    <3>2. i \in 0 .. N /\ Len(tape) - i + 1 \in Nat \ {0}
      BY <2>1
    <3>3. Back(i, p) \in Tensor /\ Len(Back(i, p)) = Len(tape) - i + 1 /\ Back(i, p)[1] = p
      BY <2>1, <2>2, <3>2, BackIs
    <3>4. b \in Tensor /\ Head(b) = p
      <4> HIDE DEF b, p
      <4> QED BY <3>1, <3>2, <3>3 DEF Tensor
    <3>5. l \in Nat \union Layers
      BY <2>1, OpFacts
    <3>6. Append(<<>>, l) \in Tensor
      BY <3>5 DEF Tensor
    <3>7. forward[i] \in Trace /\ forward[i].gradInput = <<>>
      BY <2>3, <2>4
    <3> HIDE DEF b, l, forward, p, N
    <3>8. done(i) = [forward[i] EXCEPT !.gradOutput = b, !.gradInput = Append(forward[i].gradInput, l)]
      BY <3>7 DEF b, l, Trace
    <3> HIDE DEF done
    <3>9. done(i) = [input |-> forward[i].input, output |-> forward[i].output,
                     gradOutput |-> b, gradInput |-> Append(<<>>, l)]
      BY <3>7, <3>8 DEF Trace
    <3>10. forward[i].input \in Tensor /\ forward[i].output \in Tensor
      BY <3>7 DEF Trace
    <3> QED BY <3>4, <3>6, <3>9, <3>10 DEF Trace
  <2> HIDE DEF done, forward, p, N
  <2>7. ASSUME NEW i \in 1 .. N
        PROVE  /\ traces'[i] \in Trace
               /\ traces'[i].output = Append(traces'[i].input, tape[i].layer)
               /\ Head(traces'[i].input) = p
               /\ traces'[i].gradOutput # <<>> => Head(traces'[i].gradOutput) = p
    <3>1. traces'[i] = IF i \in 1 .. N /\ N + 1 - i <= j THEN done(i) ELSE forward[i]
      BY <2>5
    <3>2. /\ forward[i].output = Append(forward[i].input, tape[i].layer)
          /\ Head(forward[i].input) = p
          /\ forward[i].gradOutput # <<>> => Head(forward[i].gradOutput) = p
      BY <2>2 DEF OfPass
    <3>3. traces'[i] = done(i) \/ traces'[i] = forward[i]
      BY <3>1
    <3> QED BY <2>4, <2>6, <3>2, <3>3
  <2>8. traces' \in [1 .. N -> Trace]
    BY <2>5, <2>7
  <2>9. traces' \in Seq(Trace) /\ Len(traces') = N
    BY <2>1, <2>8, SeqDef
  <2>10. OfPass(traces', N, p)
    BY <2>7, <2>9 DEF OfPass
  <2> QED BY <2>1, <2>10, TracesInPlace
<1> QED BY <1>1, <1>2

\* What backward adds to the gradients once all of it succeeded.
LEMMA BackwardGradients ==
  ASSUME PassInv, Chain, tape # <<>>, passes' = passes + 1, UNCHANGED tape,
         Forward(Len(tape), <<passes'>>), Backward(Len(tape), <<passes'>>)
  PROVE  GradientsOfThisPass'
<1> DEFINE N == Len(tape)
           p == passes'
<1>1. N \in Nat /\ DOMAIN tape = 1 .. N /\ Numbered /\ InChain /\ p \in Nat
  BY DEF PassInv, Numbered
<1>2. ASSUME NEW i \in 1 .. N
      PROVE  grads'[tape[i].layer] = {<<values'[tape[i].in], Back(i, p)>>}
  <2> DEFINE l == tape[i].layer
             k == N + 1 - i
  <2>1. l \in Layers /\ \A m \in 1 .. N : tape[m].layer = l => m = i
    BY <1>1, OpFacts DEF Numbered
  <2>2. {n \in 1 .. N : Walk[n].layer = l} = {k}
    BY <1>1, WalkedOnce
  <2>3. GradOfOut(k, <<p>>) = Back(i, p)
    BY <1>1, GradientsMeet
  <2>4. lastInput'[l] = values'[tape[i].in]
    <3> DEFINE c == CHOOSE m \in 1 .. N : tape[m].layer = l
    <3>1. c = i
      BY <2>1
    <3>2. \E m \in 1 .. N : tape[m].layer = l
      BY <2>1
    <3>3. lastInput'[l] = values'[tape[c].in]
      BY <2>1, <3>2 DEF Forward
    <3> HIDE DEF c, l
    <3> QED BY <3>1, <3>3
  <2>5. grads'[l] = {<<lastInput'[l], GradOfOut(n, <<p>>)>> : n \in {m \in 1 .. N : Walk[m].layer = l}}
    BY <2>1 DEF Backward
  <2> HIDE DEF l, k
  <2>6. grads'[l] = {<<lastInput'[l], GradOfOut(k, <<p>>)>>}
    BY <2>2, <2>5
  <2>7. grads'[l] = {<<values'[tape[i].in], Back(i, p)>>}
    BY <2>3, <2>4, <2>6
  <2> QED BY <2>7 DEF l
<1>3. \A i \in DOMAIN tape' :
        grads'[tape'[i].layer] = {<<values'[tape'[i].in], <<passes'>> \o LaterLayers(i)'>>}
  BY <1>1, <1>2, ZenonT(40) DEF Back, LaterLayers
<1> QED BY <1>3 DEF GradientsOfThisPass

LEMMA TrainStepKeeps ==
  ASSUME PassInv, TrainStep
  PROVE  PassInv'
<1>1. tape # <<>> /\ passes' = passes + 1 /\ UNCHANGED graph
  BY DEF TrainStep
<1>2. IInv' /\ Numbered' /\ (Chain => InChain')
  BY <1>1 DEF PassInv, IInv, NodeIdsOrdered, Numbered, InChain, graph
<1>3. tape' = tape /\ Numbered /\ Len(tape) \in Nat
  BY <1>1 DEF graph, PassInv, Numbered
<1>4. CASE \E k \in 0 .. (Len(tape) - 1) :
             /\ Forward(k, <<passes'>>)
             /\ traces' = (IF traceMode THEN TracesOf(k, values') ELSE traces)
             /\ ~trained'
  <2>1. PICK k \in 0 .. Len(tape) :
             /\ Forward(k, <<passes'>>)
             /\ traces' = (IF traceMode THEN TracesOf(k, values') ELSE traces)
             /\ ~trained'
    BY <1>3, <1>4
  <2>2. passes' \in Nat /\ values' \in Maps /\ OfPass(TracesOf(k, values'), k, passes')
    BY <1>1, <2>1, ForwardDoes
  <2>3. Chain => traces' \in Seq(Trace) /\ TracesOfOnePass'
    <3>1. CASE traceMode
      <4>1. OfPass(traces', k, passes')
        BY <2>1, <2>2, <3>1
      <4> QED BY <1>3, <4>1, TracesInPlace
    <3>2. CASE ~traceMode
      BY <1>3, <2>1, <3>2, KeptTraces
    <3> QED BY <3>1, <3>2
  <2>4. GradientsOfThisPass'
    BY <2>1 DEF GradientsOfThisPass
  <2> QED BY <1>2, <2>2, <2>3, <2>4 DEF PassInv
<1>5. CASE /\ Forward(Len(tape), <<passes'>>)
           /\ \E j \in 0 .. Len(tape) : Backward(j, <<passes'>>) /\ trained' = (j = Len(tape))
  <2>1. PICK j \in 0 .. Len(tape) : Backward(j, <<passes'>>) /\ trained' = (j = Len(tape))
    BY <1>5
  <2>2. passes' \in Nat /\ values' \in Maps /\ OfPass(TracesOf(Len(tape), values'), Len(tape), passes')
    <3> DEFINE k == Len(tape)
    <3>1. k \in 0 .. Len(tape) /\ Forward(k, <<passes'>>)
      BY <1>3, <1>5
    <3> HIDE DEF k
    <3>2. passes' \in Nat /\ values' \in Maps /\ OfPass(TracesOf(k, values'), k, passes')
      BY <1>1, <3>1, ForwardDoes
    <3> QED BY <3>2 DEF k
  <2>3. Chain => traces' \in Seq(Trace) /\ TracesOfOnePass'
    BY <1>1, <1>3, <1>5, <2>1, BackwardTraces
  <2>4. ASSUME Chain PROVE GradientsOfThisPass'
    <3>1. CASE j = Len(tape)
      BY <1>1, <1>3, <1>5, <2>1, <2>4, <3>1, BackwardGradients
    <3>2. CASE j # Len(tape)
      BY <2>1, <3>2 DEF GradientsOfThisPass
    <3> QED BY <3>1, <3>2
  <2> QED BY <1>2, <2>2, <2>3, <2>4 DEF PassInv
<1> QED BY <1>4, <1>5 DEF TrainStep

LEMMA PredictKeeps ==
  ASSUME PassInv, Predict
  PROVE  PassInv'
<1>1. tape # <<>> /\ passes' = passes + 1 /\ UNCHANGED graph /\ ~trained'
  BY DEF Predict
<1>2. IInv' /\ Numbered' /\ (Chain => InChain') /\ GradientsOfThisPass'
  BY <1>1 DEF PassInv, IInv, NodeIdsOrdered, Numbered, InChain, graph, GradientsOfThisPass
<1>3. tape' = tape /\ Numbered
  BY <1>1 DEF graph, PassInv
<1>4. PICK k \in 0 .. Len(tape) :
           /\ Forward(k, <<passes'>>)
           /\ traces' = (IF traceMode THEN TracesOf(k, values') ELSE traces)
  BY DEF Predict
<1>5. passes' \in Nat /\ values' \in Maps /\ OfPass(TracesOf(k, values'), k, passes')
  BY <1>1, <1>4, ForwardDoes
<1>6. Chain => traces' \in Seq(Trace) /\ TracesOfOnePass'
  <2>1. CASE traceMode
    <3>1. OfPass(traces', k, passes')
      BY <1>4, <1>5, <2>1
    <3> QED BY <1>3, <3>1, TracesInPlace
  <2>2. CASE ~traceMode
    BY <1>3, <1>4, <2>2, KeptTraces
  <2> QED BY <2>1, <2>2
<1> QED BY <1>2, <1>5, <1>6 DEF PassInv

\* Recording adds an op behind those that have traces.
LEMMA RecordKeeps ==
  ASSUME PassInv, Record
  PROVE  PassInv'
<1>1. IInv' /\ Numbered' /\ (Chain => InChain')
  BY RecordKeepsOrder, RecordKeepsNumbers DEF PassInv
<1>2. UNCHANGED <<values, passes, traces>> /\ ~trained'
  BY DEF Record
<1>3. ASSUME Chain PROVE TracesOfOnePass'
  <2>1. PICK op : tape' = Append(tape, op) /\ op \in Op
    <3>1. PICK l \in Layers, n \in 0 .. (nextId - 1) :
            tape' = Append(tape, [layer |-> l, in |-> n, out |-> nextId])
      BY DEF Record
    <3>2. nextId \in Nat
      BY DEF PassInv, IInv, NodeIdsOrdered
    <3> QED BY <3>1, <3>2 DEF Op
  <2>2. /\ tape \in Seq(Op) /\ Len(tape) \in Nat /\ Len(tape') = Len(tape) + 1
        /\ \A i \in 1 .. Len(tape) : tape'[i] = tape[i]
    BY <2>1 DEF PassInv, Numbered
  <2>3. traces \in Seq(Trace) /\ Len(traces) <= Len(tape)
    BY <1>3 DEF PassInv, TracesOfOnePass
  <2>4. \A i \in DOMAIN traces : tape'[i] = tape[i]
    <3>1. \A i \in DOMAIN traces : i \in 1 .. Len(tape)
      BY <2>2, <2>3
    <3> QED BY <2>2, <3>1
  <2>5. Len(traces) <= Len(tape')
    BY <2>2, <2>3
  <2> QED BY <1>2, <1>3, <2>4, <2>5 DEF PassInv, TracesOfOnePass
<1> QED BY <1>1, <1>2, <1>3 DEF PassInv, GradientsOfThisPass

LEMMA RoundTripKeeps ==
  ASSUME PassInv, RoundTrip
  PROVE  PassInv'
<1>1. IInv' /\ Numbered' /\ (Chain => InChain')
  BY RoundTripKeepsOrder, RoundTripKeepsNumbers DEF PassInv
<1>2. traces' = <<>> /\ ~trained' /\ passes' = passes
  BY DEF RoundTrip
<1>3. values' \in Maps
  <2>1. <<>> \in Maps
    BY EmptyMap
  <2>2. CASE tape = <<>>
    BY <2>1, <2>2 DEF RoundTrip
  <2>3. CASE tape # <<>>
    <3> DEFINE e == <<>>
               z == tape[1].in
    <3>1. 1 \in DOMAIN tape
      BY <2>3 DEF PassInv, Numbered
    <3>2. z \in 0 .. 1-1
      BY <3>1, OpFacts DEF PassInv
    <3>3. e \in Maps /\ e \in Tensor /\ z \in Nat
      BY <2>1, <3>2 DEF Tensor
    <3>4. values' = Put(e, z, e)
      BY <2>3 DEF RoundTrip
    <3> HIDE DEF e, z
    <3> QED BY <3>3, <3>4, PutOf
  <2> QED BY <2>2, <2>3
<1>4. traces' \in Seq(Trace) /\ TracesOfOnePass'
  <2>1. Len(tape') \in Nat
    BY <1>1 DEF Numbered
  <2> QED BY <1>2, <2>1 DEF TracesOfOnePass
<1> QED BY <1>1, <1>2, <1>3, <1>4 DEF PassInv, GradientsOfThisPass

LEMMA StillKeeps ==
  ASSUME PassInv, Build \/ SetTraceMode \/ UNCHANGED vars
  PROVE  PassInv'
<1>1. /\ UNCHANGED <<graph, values, passes, traces>>
      /\ ~trained' \/ UNCHANGED <<grads, trained>>
  BY DEF Build, SetTraceMode, vars, layers
<1>2. UNCHANGED <<tape, nextId, output>>
  BY <1>1 DEF graph
<1>3. IInv' /\ Numbered' /\ (Chain => InChain')
  BY <1>2 DEF PassInv, IInv, NodeIdsOrdered, Numbered, InChain
<1>4. Chain => GradientsOfThisPass'
  BY <1>1, <1>2 DEF PassInv, GradientsOfThisPass, LaterLayers
<1>5. Chain => traces' \in Seq(Trace) /\ TracesOfOnePass'
  BY <1>1, <1>2, KeptTraces
<1> QED BY <1>1, <1>3, <1>4, <1>5 DEF PassInv

LEMMA NextKeepsPass == PassInv /\ [Next]_vars => PassInv'
BY TrainStepKeeps, PredictKeeps, RecordKeeps, RoundTripKeeps, StillKeeps DEF Next

\* In a chain of any length, whatever failed in earlier passes, a training step
\* that succeeded leaves with each layer the one gradient that came through
\* exactly the layers behind it, beside the input of the same pass.
THEOREM OwnPassGradients == Chain => (Spec => []GradientsOfThisPass)
<1> SUFFICES ASSUME Chain PROVE Spec => []GradientsOfThisPass
  OBVIOUS
<1>1. PassInv => GradientsOfThisPass
  BY DEF PassInv
<1> QED BY PassInit, NextKeepsPass, <1>1, PTL DEF Spec

\* Traces are those of one pass, also when passes fail half-way, ops are
\* recorded behind them, tracing is switched or the graph goes through JSON.
THEOREM OnePassTraced == Chain => (Spec => []TracesOfOnePass)
<1> SUFFICES ASSUME Chain PROVE Spec => []TracesOfOnePass
  OBVIOUS
<1>1. PassInv => TracesOfOnePass
  BY DEF PassInv
<1> QED BY PassInit, NextKeepsPass, <1>1, PTL DEF Spec

-----------------------------------------------------------------------------
\* The state of a layer is a record, whatever its fields hold.
IsLayer(l) ==
  l = [built |-> l.built, dims |-> l.dims, inits |-> l.inits,
       training |-> l.training, ctx |-> l.ctx, running |-> l.running]

SameWeights(l, m) == m.built = l.built /\ m.dims = l.dims /\ m.inits = l.inits

ConvOut(L, s) == <<L.filters, OutSize(L, s[2]), OutSize(L, s[3])>>

Passing == {"BatchNorm1d", "LayerNorm", "Dropout", "Softmax", "Elementwise"}

\* The layer was built with a shape s and announced t.
Settled(L, l, s, t) ==
  /\ l.built
  /\ L.kind = "Conv2D" => Len(s) = 3 /\ l.dims = s /\ t = ConvOut(L, s)
  /\ L.kind \in Passing => t = s

\* An update of a field.
LEMMA FieldsUpdated ==
  ASSUME NEW l, IsLayer(l), NEW v
  PROVE  /\ [l EXCEPT !.built = v] =
              [built |-> v, dims |-> l.dims, inits |-> l.inits, training |-> l.training, ctx |-> l.ctx, running |-> l.running]
         /\ [l EXCEPT !.dims = v] =
              [built |-> l.built, dims |-> v, inits |-> l.inits, training |-> l.training, ctx |-> l.ctx, running |-> l.running]
         /\ [l EXCEPT !.inits = v] =
              [built |-> l.built, dims |-> l.dims, inits |-> v, training |-> l.training, ctx |-> l.ctx, running |-> l.running]
         /\ [l EXCEPT !.training = v] =
              [built |-> l.built, dims |-> l.dims, inits |-> l.inits, training |-> v, ctx |-> l.ctx, running |-> l.running]
         /\ [l EXCEPT !.ctx = v] =
              [built |-> l.built, dims |-> l.dims, inits |-> l.inits, training |-> l.training, ctx |-> v, running |-> l.running]
         /\ [l EXCEPT !.running = v] =
              [built |-> l.built, dims |-> l.dims, inits |-> l.inits, training |-> l.training, ctx |-> l.ctx, running |-> v]
<1>1. [l EXCEPT !.built = v] =
        [built |-> v, dims |-> l.dims, inits |-> l.inits, training |-> l.training, ctx |-> l.ctx, running |-> l.running]
  BY DEF IsLayer
<1>2. [l EXCEPT !.dims = v] =
        [built |-> l.built, dims |-> v, inits |-> l.inits, training |-> l.training, ctx |-> l.ctx, running |-> l.running]
  BY DEF IsLayer
<1>3. [l EXCEPT !.inits = v] =
        [built |-> l.built, dims |-> l.dims, inits |-> v, training |-> l.training, ctx |-> l.ctx, running |-> l.running]
  BY DEF IsLayer
<1>4. [l EXCEPT !.training = v] =
        [built |-> l.built, dims |-> l.dims, inits |-> l.inits, training |-> v, ctx |-> l.ctx, running |-> l.running]
  BY DEF IsLayer
<1>5. [l EXCEPT !.ctx = v] =
        [built |-> l.built, dims |-> l.dims, inits |-> l.inits, training |-> l.training, ctx |-> v, running |-> l.running]
  BY DEF IsLayer
<1>6. [l EXCEPT !.running = v] =
        [built |-> l.built, dims |-> l.dims, inits |-> l.inits, training |-> l.training, ctx |-> l.ctx, running |-> v]
  BY DEF IsLayer
<1> QED BY <1>1, <1>2, <1>3, <1>4, <1>5, <1>6, Zenon

LEMMA InitsUpdated ==
  ASSUME NEW l, IsLayer(l), NEW v
  PROVE  LET m == [l EXCEPT !.inits = v]
         IN  IsLayer(m) /\ m.dims = l.dims /\ m.built = l.built
<1> DEFINE m == [l EXCEPT !.inits = v]
<1>1. m = [built |-> l.built, dims |-> l.dims, inits |-> v,
           training |-> l.training, ctx |-> l.ctx, running |-> l.running]
  BY DEF IsLayer
<1> HIDE DEF m
<1>2. IsLayer(m) /\ m.dims = l.dims /\ m.built = l.built
  BY <1>1 DEF IsLayer
<1> QED BY <1>2 DEF m

\* A build that succeeded: it announces s, and the layer has the dimensions d.
Succeeds(r, s, d) ==
  r.ok = TRUE /\ r.shape = s /\ IsLayer(r.layer) /\ r.layer.built /\ r.layer.dims = d

LEMMA RefusedIs ==
  ASSUME NEW l, IsLayer(l)
  PROVE  Refused(l).ok = FALSE /\ Refused(l).layer = l
BY DEF Refused

LEMMA BuiltIs ==
  ASSUME NEW l, IsLayer(l), NEW s
  PROVE  Succeeds(Built(s, l), s, l.dims) /\ Built(s, l).layer.inits = l.inits
<1> DEFINE m == [l EXCEPT !.built = TRUE]
<1>1. m = [built |-> TRUE, dims |-> l.dims, inits |-> l.inits,
           training |-> l.training, ctx |-> l.ctx, running |-> l.running]
  BY FieldsUpdated, Zenon
<1>2. Built(s, l) = [ok |-> TRUE, shape |-> s, layer |-> m]
  BY DEF Built
<1> HIDE DEF m
<1> QED BY <1>1, <1>2 DEF IsLayer, Succeeds

LEMMA AllocatedIs ==
  ASSUME NEW l, IsLayer(l), NEW s, NEW d
  PROVE  Succeeds(Allocated(s, l, d), s, d)
<1> DEFINE m0 == [l EXCEPT !.dims = d]
           n == m0.inits + 1
           m == [m0 EXCEPT !.inits = n]
<1>0. [l EXCEPT !.dims = d, !.inits = @ + 1] = [m0 EXCEPT !.inits = @ + 1]
  OBVIOUS
<1>1. Allocated(s, l, d) = Built(s, m)
  BY <1>0 DEF Allocated
<1>2. m0 = [built |-> l.built, dims |-> d, inits |-> l.inits,
            training |-> l.training, ctx |-> l.ctx, running |-> l.running]
  BY FieldsUpdated, Zenon
<1> HIDE DEF m0
<1>3. IsLayer(m0) /\ m0.dims = d
  BY <1>2 DEF IsLayer
<1> HIDE DEF n
<1>4. IsLayer(m) /\ m.dims = d
  BY <1>3, InitsUpdated
<1> HIDE DEF m
<1> QED BY <1>1, <1>4, BuiltIs

LEMMA BuildSettles ==
  ASSUME NEW l, IsLayer(l), NEW L, L.kind \in Kinds, NEW s
  PROVE  /\ LayerBuild(L, l, s).ok \in BOOLEAN
         /\ IsLayer(LayerBuild(L, l, s).layer)
         /\ LayerBuild(L, l, s).ok => Settled(L, LayerBuild(L, l, s).layer, s, LayerBuild(L, l, s).shape)
<1> DEFINE r == LayerBuild(L, l, s)
           Goal == r.ok \in BOOLEAN /\ IsLayer(r.layer) /\ (r.ok => Settled(L, r.layer, s, r.shape))
<1>1. ASSUME L.kind # "Conv2D", NEW t, L.kind \in Passing => t = s,
             r = Refused(l) \/ r = Built(t, l) \/ \E d : r = Allocated(t, l, d)
      PROVE  Goal
  <2> HIDE DEF r
  <2>1. CASE r = Refused(l)
    BY <2>1, RefusedIs
  <2>2. ASSUME NEW d, Succeeds(r, t, d) PROVE Goal
    BY <1>1, <2>2 DEF Succeeds, Settled
  <2>3. CASE r = Built(t, l)
    <3>1. Succeeds(r, t, l.dims)
      BY <2>3, BuiltIs
    <3> QED BY <2>2, <3>1
  <2>4. ASSUME NEW d, r = Allocated(t, l, d) PROVE Goal
    <3>1. Succeeds(r, t, d)
      BY <2>4, AllocatedIs
    <3> QED BY <2>2, <3>1
  <2> QED BY <1>1, <2>1, <2>3, <2>4
<1>2. CASE L.kind = "Conv2D"
  <2> DEFINE stored == [l EXCEPT !.dims = s]
  <2>1. r = ConvBuild(L, l, s)
    BY <1>2 DEF LayerBuild
  <2>2. \/ r = Refused(l) \/ r = Refused(stored)
        \/ Len(s) = 3 /\ l.dims = s /\ r = Built(ConvOut(L, s), l)
        \/ Len(s) = 3 /\ r = Allocated(ConvOut(L, s), l, s)
    BY <2>1 DEF ConvBuild, ConvOut
  <2>3. IsLayer(stored)
    <3>1. stored = [built |-> l.built, dims |-> s, inits |-> l.inits,
                    training |-> l.training, ctx |-> l.ctx, running |-> l.running]
      BY FieldsUpdated, Zenon
    <3> HIDE DEF stored
    <3> QED BY <3>1 DEF IsLayer
  <2> HIDE DEF r, stored
  <2>4. CASE r = Refused(l) \/ r = Refused(stored)
    BY <2>3, <2>4, RefusedIs DEF r
  <2>5. CASE Len(s) = 3 /\ Succeeds(r, ConvOut(L, s), s)
    BY <1>2, <2>5 DEF Succeeds, Settled, Passing, r
  <2>6. CASE Len(s) = 3 /\ l.dims = s /\ r = Built(ConvOut(L, s), l)
    <3>1. Succeeds(r, ConvOut(L, s), s)
      BY <2>6, BuiltIs
    <3> QED BY <2>5, <2>6, <3>1
  <2>7. CASE Len(s) = 3 /\ r = Allocated(ConvOut(L, s), l, s)
    <3>1. Succeeds(r, ConvOut(L, s), s)
      BY <2>7, AllocatedIs
    <3> QED BY <2>5, <2>7, <3>1
  <2> QED BY <2>2, <2>4, <2>6, <2>7
<1>3. CASE L.kind = "Dense"
  <2>1. \E t : r = Refused(l) \/ r = Built(t, l) \/ \E d : r = Allocated(t, l, d)
    BY <1>3 DEF LayerBuild, DenseBuild
  <2> HIDE DEF r, Goal
  <2> QED BY <1>1, <1>3, <2>1 DEF Passing, Goal, r
<1>4. CASE L.kind = "Embedding"
  <2>1. \E t : r = Refused(l) \/ r = Built(t, l) \/ \E d : r = Allocated(t, l, d)
    BY <1>4 DEF LayerBuild, EmbeddingBuild
  <2> HIDE DEF r, Goal
  <2> QED BY <1>1, <1>4, <2>1 DEF Passing, Goal, r
<1>5. CASE L.kind = "Attention"
  <2>1. \E t : r = Refused(l) \/ r = Built(t, l) \/ \E d : r = Allocated(t, l, d)
    BY <1>5 DEF LayerBuild, AttentionBuild
  <2> HIDE DEF r, Goal
  <2> QED BY <1>1, <1>5, <2>1 DEF Passing, Goal, r
<1>6. CASE L.kind \in Passing
  <2>1. r = Refused(l) \/ r = Built(s, l) \/ \E d : r = Allocated(s, l, d)
    BY <1>6 DEF LayerBuild, BatchNormBuild, LayerNormBuild, PassThroughBuild, Passing
  <2>2. L.kind # "Conv2D"
    BY <1>6 DEF Passing
  <2> HIDE DEF r, Goal
  <2> QED BY <1>1, <2>1, <2>2 DEF Goal, r
<1> QED BY <1>2, <1>3, <1>4, <1>5, <1>6 DEF Kinds, Passing

\* Built again, a layer keeps its weights: only a convolution looks at the
\* shape, and refuses what has not three dimensions.
LEMMA RebuildKeeps ==
  ASSUME NEW l, IsLayer(l), NEW L, L.kind \in Kinds, NEW s, NEW t, Settled(L, l, s, t),
         NEW u, u = s \/ Len(u) # 3
  PROVE  /\ LayerBuild(L, l, u).layer.inits = l.inits
         /\ LayerBuild(L, l, u).ok => LayerBuild(L, l, u).shape = t \/ Len(LayerBuild(L, l, u).shape) # 3
<1> DEFINE r == LayerBuild(L, l, u)
<1>1. CASE L.kind = "Dense"
  <2>1. r = Built(<<L.out>>, l)
    BY <1>1 DEF LayerBuild, DenseBuild, Settled
  <2>2. Len(<<L.out>>) # 3
    OBVIOUS
  <2> HIDE DEF r
  <2>3. r.layer.inits = l.inits /\ r.shape = <<L.out>>
    BY <2>1, BuiltIs, RefusedIs, ZenonT(40) DEF Succeeds
  <2> QED BY <2>2, <2>3 DEF r
<1>2. CASE L.kind = "Conv2D"
  <2>1. r = IF u = s /\ Len(u) = 3 THEN Built(ConvOut(L, s), l) ELSE Refused(l)
    BY <1>2 DEF LayerBuild, ConvBuild, ConvOut, Settled
  <2> HIDE DEF r
  <2>2. r.layer.inits = l.inits /\ (r.ok => r.shape = ConvOut(L, s))
    BY <2>1, BuiltIs, RefusedIs DEF Succeeds
  <2> QED BY <1>2, <2>2 DEF r, Settled
<1>3. CASE L.kind = "Embedding"
  <2>1. r = Built(<<Last(u), L.dim>>, l)
    BY <1>3 DEF LayerBuild, EmbeddingBuild, Settled
  <2>2. Len(<<Last(u), L.dim>>) # 3
    OBVIOUS
  <2> HIDE DEF r
  <2>3. r.layer.inits = l.inits /\ r.shape = <<Last(u), L.dim>>
    BY <2>1, BuiltIs, RefusedIs, ZenonT(40) DEF Succeeds
  <2> QED BY <2>2, <2>3 DEF r
<1>4. CASE L.kind \in Passing
  <2>1. r = Built(u, l)
    BY <1>4 DEF LayerBuild, BatchNormBuild, LayerNormBuild, PassThroughBuild, Settled, Passing
  <2> HIDE DEF r
  <2>2. r.layer.inits = l.inits /\ r.shape = u
    BY <2>1, BuiltIs, RefusedIs, ZenonT(40) DEF Succeeds
  <2> QED BY <1>4, <2>2 DEF r, Settled
<1>5. CASE L.kind = "Attention"
  <2>1. r = Built(<<u[1], L.dim>>, l) \/ r = Refused(l)
    BY <1>5 DEF LayerBuild, AttentionBuild, Settled
  <2>2. Len(<<u[1], L.dim>>) # 3
    OBVIOUS
  <2> HIDE DEF r
  <2> DEFINE v == <<u[1], L.dim>>
  <2>4. Built(v, l).shape = v /\ Built(v, l).layer.inits = l.inits
    BY BuiltIs DEF Succeeds
  <2>3. r.layer.inits = l.inits /\ (r.ok => r.shape = <<u[1], L.dim>>)
    BY <2>1, <2>4, RefusedIs, Zenon
  <2> QED BY <2>2, <2>3 DEF r
<1> QED BY <1>1, <1>2, <1>3, <1>4, <1>5 DEF Kinds, Passing

LEMMA SavesIs ==
  ASSUME NEW l, IsLayer(l), NEW call, NEW s, NEW pick
  PROVE  /\ IsLayer(Saves(l, call, s, pick)) /\ SameWeights(l, Saves(l, call, s, pick))
         /\ Saves(l, call, s, pick).training = l.training
<1> DEFINE m == Saves(l, call, s, pick)
<1>1. m = [built |-> l.built, dims |-> l.dims, inits |-> l.inits, training |-> l.training,
           ctx |-> [call |-> call, shape |-> s, pick |-> pick], running |-> l.running]
  BY DEF IsLayer, Saves
<1> HIDE DEF m
<1>2. IsLayer(m) /\ SameWeights(l, m) /\ m.training = l.training
  BY <1>1 DEF IsLayer, SameWeights
<1> QED BY <1>2 DEF m

LEMMA ComputedIs ==
  ASSUME NEW m, NEW s, NEW e, NEW q
  PROVE  Computed(m, s, e, q).layer = m
BY DEF Computed

\* Whatever forward saves, it leaves what build made and the mode the layer is in.
LEMMA ForwardKeeps ==
  ASSUME NEW l, IsLayer(l), NEW L, L.kind \in Kinds, NEW call, NEW s, NEW tokens, NEW keep
  PROVE  /\ IsLayer(LayerForward(L, l, call, s, tokens, keep).layer)
         /\ SameWeights(l, LayerForward(L, l, call, s, tokens, keep).layer)
         /\ LayerForward(L, l, call, s, tokens, keep).layer.training = l.training
<1> DEFINE r == LayerForward(L, l, call, s, tokens, keep)
           Fine(m) == IsLayer(m) /\ SameWeights(l, m) /\ m.training = l.training
<1>1. Fine(l)
  BY DEF SameWeights
<1>2. Failed(l).layer = l
  BY DEF Failed
<1>3. Fine(Saves(l, call, s, {})) /\ Fine(Saves(l, call, s, tokens)) /\ Fine(Saves(l, call, s, keep))
  BY SavesIs
<1>4. CASE L.kind = "Dense"
  <2>1. r.layer = Saves(l, call, s, {})
    BY <1>4, ComputedIs DEF LayerForward, DenseForward
  <2> HIDE DEF r, Fine
  <2> QED BY <1>3, <2>1 DEF r, Fine
<1>5. CASE L.kind = "Conv2D"
  <2>1. r.layer = l \/ r.layer = Saves(l, call, s, {})
    BY <1>2, <1>5, ComputedIs DEF LayerForward, ConvForward
  <2> HIDE DEF r, Fine
  <2> QED BY <1>1, <1>3, <2>1 DEF r, Fine
<1>6. CASE L.kind = "Embedding"
  <2> DEFINE m == Saves(l, call, s, tokens)
  <2>1. Failed(m).layer = m
    BY DEF Failed
  <2>2. r.layer = l \/ r.layer = m
    BY <1>2, <1>6, <2>1, ComputedIs DEF LayerForward, EmbeddingForward
  <2> HIDE DEF r, Fine, m
  <2> QED BY <1>1, <1>3, <2>2 DEF r, Fine, m
<1>7. CASE L.kind = "Dropout"
  <2> DEFINE m == [l EXCEPT !.ctx = <<>>]
  <2>1. m = [built |-> l.built, dims |-> l.dims, inits |-> l.inits, training |-> l.training,
             ctx |-> <<>>, running |-> l.running]
    BY DEF IsLayer
  <2>2. r.layer = m \/ r.layer = Saves(l, call, s, keep)
    BY <1>7, ComputedIs DEF LayerForward, DropoutForward
  <2> HIDE DEF r, m
  <2>3. Fine(m)
    BY <2>1 DEF IsLayer, SameWeights
  <2> HIDE DEF Fine
  <2> QED BY <1>3, <2>2, <2>3 DEF r, Fine
<1>8. CASE L.kind = "BatchNorm1d"
  <2> DEFINE z == Saves(l, call, s, {})
             x == IF l.training THEN call ELSE z.running
             m == [z EXCEPT !.running = x]
  <2>1. IsLayer(z) /\ SameWeights(l, z) /\ z.training = l.training
    BY SavesIs
  <2>2. r.layer = l \/ r.layer = m
    BY <1>2, <1>8, ComputedIs DEF LayerForward, BatchNormForward
  <2> HIDE DEF r, z, x
  <2>3. m = [built |-> z.built, dims |-> z.dims, inits |-> z.inits, training |-> z.training,
             ctx |-> z.ctx, running |-> x]
    BY <2>1 DEF IsLayer
  <2> HIDE DEF m
  <2>4. Fine(m)
    BY <2>1, <2>3 DEF IsLayer, SameWeights
  <2> HIDE DEF Fine
  <2> QED BY <1>1, <2>2, <2>4 DEF r, Fine
<1>9. CASE L.kind = "LayerNorm"
  <2> DEFINE z == Saves(l, call, <<IF Len(s) = 1 THEN 1 ELSE s[1]>>, {})
  <2>1. Fine(z)
    BY SavesIs
  <2>2. r.layer = z
    BY <1>9, ComputedIs DEF LayerForward, LayerNormForward
  <2> HIDE DEF r, Fine, z
  <2> QED BY <2>1, <2>2 DEF r, Fine
<1>10. CASE L.kind = "Attention"
  <2> DEFINE a == AttentionForward(L, l, call, s)
  <2>1. a.layer \in {Failed(l).layer, Saves(l, call, s, {})}
    BY Zenon DEF AttentionForward, Computed
  <2>2. r = a
    BY <1>10 DEF LayerForward
  <2> HIDE DEF r, a, Fine
  <2>3. r.layer = l \/ r.layer = Saves(l, call, s, {})
    BY <1>2, <2>1, <2>2
  <2> QED BY <1>1, <1>3, <2>3 DEF r, Fine
<1>11. CASE L.kind = "Softmax"
  <2>1. r.layer = Saves(l, call, s, {})
    BY <1>11, ComputedIs DEF LayerForward, SoftmaxForward
  <2> HIDE DEF r, Fine
  <2> QED BY <1>3, <2>1 DEF r, Fine
<1>12. CASE L.kind = "Elementwise"
  <2>1. r.layer = Saves(l, call, s, {})
    BY <1>12, ComputedIs DEF LayerForward, ElementwiseForward
  <2> HIDE DEF r, Fine
  <2> QED BY <1>3, <2>1 DEF r, Fine
<1> QED BY <1>4, <1>5, <1>6, <1>7, <1>8, <1>9, <1>10, <1>11, <1>12 DEF Kinds

-----------------------------------------------------------------------------
\* Sequential, layer by layer.
StepOf(pass, prev, k) ==
  IF pass.forward THEN ForwardStep(pass.call, pass.tokens, pass.keep, prev, k) ELSE BuildStep(prev, k)

\* The equation of the fold over the first n layers.
IsLoop(g, n, pass, base) ==
  g = [s \in SUBSET (1 .. n) |-> IF s = {} THEN base ELSE StepOf(pass, g[s \ {Max(s)}], Max(s))]

LEMMA StepsExist ==
  ASSUME NEW n \in Nat, NEW base, NEW pass
  PROVE  \E g : IsLoop(g, n, pass, base)
<1> DEFINE IsIt(g, k) == IsLoop(g, k, pass, base)
           T == {k \in 0 .. n : \E g : IsIt(g, k)}
<1> USE DEF IsLoop
<1>1. 0 \in T
  <2> DEFINE g == [s \in SUBSET (1 .. 0) |-> base]
  <2>1. \A s \in SUBSET (1 .. 0) : s = {}
    OBVIOUS
  <2>2. IsIt(g, 0)
    BY <2>1
  <2>3. 0 \in 0 .. n
    OBVIOUS
  <2> HIDE DEF g, IsIt
  <2> QED BY <2>2, <2>3
<1>2. ASSUME NEW k \in 0 .. n-1, k \in T PROVE k + 1 \in T
  <2>1. PICK g : IsIt(g, k)
    BY <1>2
  <2> DEFINE h == [s \in SUBSET (1 .. k+1) |->
                     IF k + 1 \in s THEN StepOf(pass, g[s \ {k+1}], k+1) ELSE g[s]]
  <2>2. \A s \in SUBSET (1 .. k+1) : s \ {k+1} \in SUBSET (1 .. k)
    OBVIOUS
  <2>3. \A s \in SUBSET (1 .. k) : h[s] = g[s]
    OBVIOUS
  <2>4. ASSUME NEW s \in SUBSET (1 .. k+1)
        PROVE  h[s] = IF s = {} THEN base ELSE StepOf(pass, h[s \ {Max(s)}], Max(s))
    <3>1. CASE k + 1 \in s
      <4>1. s \subseteq Int /\ \A x \in s : x <= k + 1
        OBVIOUS
      <4>2. Max(s) = k + 1
        BY <3>1, <4>1, MaxIs
      <4> QED BY <3>1, <4>2, <2>2, <2>3
    <3>2. CASE k + 1 \notin s
      <4>1. s \in SUBSET (1 .. k) /\ s \ {Max(s)} \in SUBSET (1 .. k)
        BY <3>2, <2>2
      <4> QED BY <4>1, <2>1, <2>3
    <3> QED BY <3>1, <3>2
  <2>5. h = [s \in SUBSET (1 .. k+1) |-> h[s]]
    OBVIOUS
  <2> HIDE DEF h
  <2>6. IsIt(h, k + 1)
    BY <2>4, <2>5
  <2>7. k + 1 \in 0 .. n
    OBVIOUS
  <2> HIDE DEF IsIt
  <2> QED BY <2>6, <2>7
<1> HIDE DEF T
<1>3. 0 .. n \subseteq T
  BY <1>1, <1>2, IntervalInduction
<1>4. n \in T
  BY <1>3
<1> HIDE DEF IsLoop
<1> QED BY <1>4 DEF T

\* f holds the results of the first layers.
Follows(f, pass, base) ==
  f[0] = base /\ \A k \in 0 .. Depth - 1 : f[k+1] = StepOf(pass, f[k], k+1)

LEMMA StepsFollow ==
  ASSUME Depth \in Nat, NEW base, NEW pass
  PROVE  \E f : Follows(f, pass, base) /\ f[Depth] = (CHOOSE g : IsLoop(g, Depth, pass, base))[1 .. Depth]
<1> DEFINE n == Depth
           iter == CHOOSE g : IsLoop(g, Depth, pass, base)
           f == [k \in 0 .. n |-> iter[1 .. k]]
<1>0. n \in Nat
  OBVIOUS
<1>1. IsLoop(iter, n, pass, base)
  BY <1>0, StepsExist
<1> HIDE DEF iter
<1>2. iter[1 .. 0] = base
  BY <1>1 DEF IsLoop
<1>3. ASSUME NEW k \in 0 .. n - 1 PROVE iter[1 .. k+1] = StepOf(pass, iter[1 .. k], k+1)
  <2> HIDE DEF n
  <2>1. /\ 1 .. k+1 \in SUBSET (1 .. n) /\ 1 .. k+1 # {}
        /\ Max(1 .. k+1) = k + 1 /\ (1 .. k+1) \ {k+1} = 1 .. k
    BY <1>0, IntervalTop
  <2> QED BY <1>1, <2>1 DEF IsLoop
<1>4. Follows(f, pass, base) /\ f[n] = iter[1 .. n]
  <2>1. \A k \in 0 .. n : f[k] = iter[1 .. k]
    OBVIOUS
  <2>2. 0 \in 0 .. n /\ n \in 0 .. n /\ \A k \in 0 .. n-1 : k \in 0 .. n /\ k+1 \in 0 .. n
    BY <1>0
  <2> HIDE DEF f
  <2> QED BY <1>2, <1>3, <2>1, <2>2 DEF Follows
<1> HIDE DEF f
<1> QED BY <1>4 DEF iter

BuildPass == [forward |-> FALSE]
BuildBase(s) == [ok |-> TRUE, shape |-> s, layers |-> net]

LEMMA BuildFollows ==
  ASSUME Depth \in Nat, DOMAIN net = 1 .. Depth, NEW s
  PROVE  \E f : Follows(f, BuildPass, BuildBase(s)) /\ f[Depth] = SequentialBuild(s)
<1> DEFINE pass == BuildPass
           base == BuildBase(s)
           ks == [i \in DOMAIN net |-> i]
           Eq(g) == g = [t \in SUBSET DOMAIN ks |-> IF t = {} THEN base
                                                    ELSE BuildStep(g[t \ {Max(t)}], ks[Max(t)])]
<1>1. SequentialBuild(s) = (CHOOSE g : Eq(g))[DOMAIN ks]
  BY DEF SequentialBuild, FoldLeftDomain, FoldLeft, MapThenFoldSet, BuildBase
<1>2. DOMAIN ks = 1 .. Depth
  OBVIOUS
<1>3. \A t \in SUBSET (1 .. Depth) : t # {} => ks[Max(t)] = Max(t)
  BY MaxExists
<1>4. \A prev, k : StepOf(pass, prev, k) = BuildStep(prev, k)
  BY DEF StepOf, BuildPass
<1>5. \A g : Eq(g) <=> IsLoop(g, Depth, pass, base)
  <2> SUFFICES ASSUME NEW g PROVE Eq(g) <=> IsLoop(g, Depth, pass, base)
    OBVIOUS
  <2> HIDE DEF ks, base, pass
  <2> DEFINE here(t) == IF t = {} THEN base ELSE BuildStep(g[t \ {Max(t)}], ks[Max(t)])
             there(t) == IF t = {} THEN base ELSE StepOf(pass, g[t \ {Max(t)}], Max(t))
  <2>1. \A t \in SUBSET (1 .. Depth) : here(t) = there(t)
    BY <1>3, <1>4
  <2>2. Eq(g) <=> g = [t \in SUBSET (1 .. Depth) |-> here(t)]
    BY <1>2
  <2>3. IsLoop(g, Depth, pass, base) <=> g = [t \in SUBSET (1 .. Depth) |-> there(t)]
    BY DEF IsLoop
  <2> HIDE DEF here, there, Eq
  <2>4. [t \in SUBSET (1 .. Depth) |-> here(t)] = [t \in SUBSET (1 .. Depth) |-> there(t)]
    BY <2>1
  <2> QED BY <2>2, <2>3, <2>4
<1>6. (CHOOSE g : Eq(g)) = CHOOSE g : IsLoop(g, Depth, pass, base)
  <2> HIDE DEF Eq, pass, base
  <2> QED BY <1>5
<1> HIDE DEF Eq, ks
<1> QED BY <1>1, <1>2, <1>6, StepsFollow

ForwardPassOf(call, tokens, keep) == [forward |-> TRUE, call |-> call, tokens |-> tokens, keep |-> keep]
ForwardBase(s) == [ok |-> TRUE, shape |-> s, layers |-> net, edges |-> Identity(Offsets(s)), uses |-> {},
                   inputs |-> <<>>]

LEMMA ForwardFollows ==
  ASSUME Depth \in Nat, DOMAIN net = 1 .. Depth, NEW call, NEW s, NEW tokens, NEW keep
  PROVE  \E f : /\ Follows(f, ForwardPassOf(call, tokens, keep), ForwardBase(s))
                /\ f[Depth] = SequentialForward(call, s, tokens, keep)
<1> DEFINE pass == ForwardPassOf(call, tokens, keep)
           base == ForwardBase(s)
           ks == [i \in DOMAIN net |-> i]
           Eq(g) == g = [t \in SUBSET DOMAIN ks |->
                           IF t = {} THEN base
                           ELSE ForwardStep(call, tokens, keep, g[t \ {Max(t)}], ks[Max(t)])]
<1>1. SequentialForward(call, s, tokens, keep) = (CHOOSE g : Eq(g))[DOMAIN ks]
  BY DEF SequentialForward, FoldLeftDomain, FoldLeft, MapThenFoldSet, ForwardBase
<1>2. DOMAIN ks = 1 .. Depth
  OBVIOUS
<1>3. \A t \in SUBSET (1 .. Depth) : t # {} => ks[Max(t)] = Max(t)
  BY MaxExists
<1>4. \A prev, k : StepOf(pass, prev, k) = ForwardStep(call, tokens, keep, prev, k)
  BY DEF StepOf, ForwardPassOf
<1>5. \A g : Eq(g) <=> IsLoop(g, Depth, pass, base)
  <2> SUFFICES ASSUME NEW g PROVE Eq(g) <=> IsLoop(g, Depth, pass, base)
    OBVIOUS
  <2> HIDE DEF ks, base, pass
  <2> DEFINE here(t) == IF t = {} THEN base
                        ELSE ForwardStep(call, tokens, keep, g[t \ {Max(t)}], ks[Max(t)])
             there(t) == IF t = {} THEN base ELSE StepOf(pass, g[t \ {Max(t)}], Max(t))
  <2>1. \A t \in SUBSET (1 .. Depth) : here(t) = there(t)
    BY <1>3, <1>4
  <2>2. Eq(g) <=> g = [t \in SUBSET (1 .. Depth) |-> here(t)]
    BY <1>2
  <2>3. IsLoop(g, Depth, pass, base) <=> g = [t \in SUBSET (1 .. Depth) |-> there(t)]
    BY DEF IsLoop
  <2> HIDE DEF here, there, Eq
  <2>4. [t \in SUBSET (1 .. Depth) |-> here(t)] = [t \in SUBSET (1 .. Depth) |-> there(t)]
    BY <2>1
  <2> QED BY <2>2, <2>3, <2>4
<1>6. (CHOOSE g : Eq(g)) = CHOOSE g : IsLoop(g, Depth, pass, base)
  <2> HIDE DEF Eq, pass, base
  <2> QED BY <1>5
<1> HIDE DEF Eq, ks
<1> QED BY <1>1, <1>2, <1>6, StepsFollow

-----------------------------------------------------------------------------
LayersSpec == LayersInit /\ [][LayersNext]_layerVars

\* The layers of a model that was built for s pass shapes t on.
Passes(ls, t, s) ==
  t[0] = s /\ \A k \in 1 .. Depth : Settled(model.layers[k], ls[k], t[k-1], t[k])

LInv ==
  /\ model \in Models
  /\ net = [k \in 1 .. Depth |-> net[k]]
  /\ \A k \in 1 .. Depth : IsLayer(net[k])
  /\ lastBuild.ok => \E t : Passes(net, t, lastBuild.shape)

LEMMA ModelFacts ==
  ASSUME LInv
  PROVE  Depth \in Nat /\ DOMAIN net = 1 .. Depth /\ \A k \in 1 .. Depth : model.layers[k].kind \in Kinds
BY LayersAssumption DEF LInv, LayersAssumption, Depth

\* What the first layers did in a build.
BuildKept(r, k) ==
  /\ r.ok \in BOOLEAN
  /\ r.layers = [j \in 1 .. Depth |-> r.layers[j]]
  /\ \A j \in 1 .. Depth : IsLayer(r.layers[j])
  /\ \A j \in k+1 .. Depth : r.layers[j] = net[j]

\* A step of a build: what the layer did, or nothing.
LEMMA BuildStepIs ==
  ASSUME LInv, NEW k \in 0 .. Depth - 1, NEW r, BuildKept(r, k)
  PROVE  LET new == LayerBuild(model.layers[k+1], net[k+1], r.shape)
             next == BuildStep(r, k+1)
         IN  /\ BuildKept(next, k+1)
             /\ next.ok => r.ok /\ new.ok /\ next.shape = new.shape
             /\ next.layers[k+1] = IF r.ok THEN new.layer ELSE r.layers[k+1]
             /\ \A j \in 1 .. Depth : j # k+1 => next.layers[j] = r.layers[j]
<1> DEFINE new == LayerBuild(model.layers[k+1], net[k+1], r.shape)
           next == BuildStep(r, k+1)
           ls == [r.layers EXCEPT ![k+1] = new.layer]
<1>1. Depth \in Nat /\ k + 1 \in 1 .. Depth /\ k \in Nat
  BY ModelFacts
<1>2. next = IF r.ok THEN [ok |-> new.ok, shape |-> new.shape, layers |-> ls] ELSE r
  BY DEF BuildStep
<1>3. new.ok \in BOOLEAN /\ IsLayer(new.layer)
  BY <1>1, ModelFacts, BuildSettles DEF LInv
<1>4. /\ ls = [j \in 1 .. Depth |-> ls[j]]
      /\ \A j \in 1 .. Depth : ls[j] = IF j = k+1 THEN new.layer ELSE r.layers[j]
  BY <1>1 DEF BuildKept
<1>7. \A j \in (k+1)+1 .. Depth : j \in k+1 .. Depth /\ j \in 1 .. Depth /\ j # k+1
  BY <1>1
<1>8. /\ r.ok \in BOOLEAN /\ r.layers = [j \in 1 .. Depth |-> r.layers[j]]
      /\ \A j \in 1 .. Depth : IsLayer(r.layers[j])
      /\ \A j \in (k+1)+1 .. Depth : r.layers[j] = net[j]
  BY <1>7 DEF BuildKept
<1> HIDE DEF new, ls, next
<1>5. CASE r.ok
  <2>1. next.ok = new.ok /\ next.shape = new.shape /\ next.layers = ls
    BY <1>2, <1>5
  <2>2. BuildKept(next, k+1)
    <3>1. \A j \in 1 .. Depth : IsLayer(ls[j])
      BY <1>3, <1>4, <1>8
    <3>2. \A j \in (k+1)+1 .. Depth : ls[j] = net[j]
      BY <1>4, <1>7, <1>8
    <3> QED BY <1>3, <1>4, <2>1, <3>1, <3>2 DEF BuildKept
  <2> QED BY <1>1, <1>4, <1>5, <2>1, <2>2 DEF new, next
<1>6. CASE ~r.ok
  <2>1. next = r
    BY <1>2, <1>6
  <2>2. BuildKept(next, k+1)
    BY <1>8, <2>1 DEF BuildKept
  <2> QED BY <1>6, <2>1, <2>2 DEF new, next
<1> QED BY <1>5, <1>6

\* A build that succeeds leaves layers that pass shapes on.
LEMMA BuildPasses ==
  ASSUME LInv, NEW s
  PROVE  LET r == SequentialBuild(s)
         IN  /\ r.layers = [j \in 1 .. Depth |-> r.layers[j]]
             /\ \A j \in 1 .. Depth : IsLayer(r.layers[j])
             /\ r.ok => \E t : Passes(r.layers, t, s)
<1>1. Depth \in Nat /\ DOMAIN net = 1 .. Depth
  BY ModelFacts
<1>2. PICK f : Follows(f, BuildPass, BuildBase(s)) /\ f[Depth] = SequentialBuild(s)
  BY <1>1, BuildFollows
<1>3. f[0] = BuildBase(s) /\ \A k \in 0 .. Depth - 1 : f[k+1] = BuildStep(f[k], k+1)
  BY <1>2 DEF Follows, StepOf, BuildPass
<1> DEFINE Fits(k) == /\ BuildKept(f[k], k)
                      /\ f[k].ok => \A j \in 1 .. k : Settled(model.layers[j], f[k].layers[j],
                                                              f[j-1].shape, f[j].shape)
           T == {k \in 0 .. Depth : Fits(k)}
<1>4. 0 \in T
  <2>1. BuildKept(f[0], 0)
    <3>1. f[0].ok = TRUE /\ f[0].layers = net
      BY <1>3 DEF BuildBase
    <3> QED BY <3>1 DEF LInv, BuildKept
  <2> QED BY <1>1, <2>1
<1>5. ASSUME NEW k \in 0 .. Depth - 1, k \in T PROVE k + 1 \in T
  <2> DEFINE new == LayerBuild(model.layers[k+1], net[k+1], f[k].shape)
  <2>1. k + 1 \in 1 .. Depth /\ k + 1 \in 0 .. Depth /\ (k + 1) - 1 = k /\ k \in Nat
    BY <1>1
  <2>2. Fits(k)
    BY <1>5
  <2>3. f[k+1] = BuildStep(f[k], k+1)
    BY <1>3
  <2>4. /\ BuildKept(f[k+1], k+1)
        /\ f[k+1].ok => f[k].ok /\ new.ok /\ f[k+1].shape = new.shape
        /\ f[k+1].layers[k+1] = IF f[k].ok THEN new.layer ELSE f[k].layers[k+1]
        /\ \A j \in 1 .. Depth : j # k+1 => f[k+1].layers[j] = f[k].layers[j]
    BY <2>2, <2>3, BuildStepIs
  <2>5. ASSUME f[k+1].ok, NEW j \in 1 .. k+1
        PROVE  Settled(model.layers[j], f[k+1].layers[j], f[j-1].shape, f[j].shape)
    <3>1. CASE j = k + 1
      <4>1. new.ok => Settled(model.layers[k+1], new.layer, f[k].shape, new.shape)
        BY <2>1, ModelFacts, BuildSettles DEF LInv
      <4> HIDE DEF new
      <4> QED BY <2>1, <2>4, <2>5, <3>1, <4>1
    <3>2. CASE j # k + 1
      <4>1. j \in 1 .. k /\ j \in 1 .. Depth
        BY <1>1, <2>1, <2>5, <3>2
      <4>2. f[k+1].layers[j] = f[k].layers[j] /\ f[k].ok
        BY <2>4, <2>5, <3>2, <4>1
      <4> QED BY <2>2, <4>1, <4>2
    <3> QED BY <3>1, <3>2
  <2> QED BY <2>1, <2>4, <2>5
<1> HIDE DEF T
<1>6. 0 .. Depth \subseteq T
  BY <1>1, <1>4, <1>5, IntervalInduction
<1> USE DEF T
<1>7. Fits(Depth)
  BY <1>1, <1>6
<1>8. f[Depth].ok => \E t : Passes(f[Depth].layers, t, s)
  <2> SUFFICES ASSUME f[Depth].ok PROVE \E t : Passes(f[Depth].layers, t, s)
    OBVIOUS
  <2> DEFINE t == [j \in 0 .. Depth |-> f[j].shape]
  <2>1. t[0] = s
    BY <1>1, <1>3 DEF BuildBase
  <2>2. \A j \in 1 .. Depth : t[j-1] = f[j-1].shape /\ t[j] = f[j].shape
    BY <1>1
  <2> HIDE DEF t
  <2>3. Passes(f[Depth].layers, t, s)
    BY <1>7, <2>1, <2>2 DEF Passes
  <2> QED BY <2>3
<1> QED BY <1>2, <1>7, <1>8 DEF BuildKept

\* Building again for the shape of the build before initialises nothing.
LEMMA BuildAgainKeeps ==
  ASSUME LInv, lastBuild.ok
  PROVE  \A j \in 1 .. Depth : SequentialBuild(lastBuild.shape).layers[j].inits = net[j].inits
<1> DEFINE s == lastBuild.shape
<1>1. Depth \in Nat /\ DOMAIN net = 1 .. Depth
  BY ModelFacts
<1>2. PICK t : Passes(net, t, s)
  BY DEF LInv
<1>3. PICK f : Follows(f, BuildPass, BuildBase(s)) /\ f[Depth] = SequentialBuild(s)
  BY <1>1, BuildFollows
<1>4. f[0] = BuildBase(s) /\ \A k \in 0 .. Depth - 1 : f[k+1] = BuildStep(f[k], k+1)
  BY <1>3 DEF Follows, StepOf, BuildPass
<1> HIDE DEF s
<1> DEFINE Fits(k) == /\ BuildKept(f[k], k)
                      /\ f[k].ok => f[k].shape = t[k] \/ Len(f[k].shape) # 3
                      /\ \A j \in 1 .. Depth : f[k].layers[j].inits = net[j].inits
           T == {k \in 0 .. Depth : Fits(k)}
<1>5. 0 \in T
  <2>1. f[0].ok = TRUE /\ f[0].layers = net /\ f[0].shape = s
    BY <1>4 DEF BuildBase
  <2>2. BuildKept(f[0], 0)
    BY <2>1 DEF LInv, BuildKept
  <2> QED BY <1>1, <1>2, <2>1, <2>2 DEF Passes
<1>6. ASSUME NEW k \in 0 .. Depth - 1, k \in T PROVE k + 1 \in T
  <2> DEFINE new == LayerBuild(model.layers[k+1], net[k+1], f[k].shape)
  <2>1. k + 1 \in 1 .. Depth /\ k + 1 \in 0 .. Depth /\ (k + 1) - 1 = k /\ k \in Nat
    BY <1>1
  <2>2. Fits(k)
    BY <1>6
  <2>3. f[k+1] = BuildStep(f[k], k+1)
    BY <1>4
  <2>4. /\ BuildKept(f[k+1], k+1)
        /\ f[k+1].ok => f[k].ok /\ new.ok /\ f[k+1].shape = new.shape
        /\ f[k+1].layers[k+1] = IF f[k].ok THEN new.layer ELSE f[k].layers[k+1]
        /\ \A j \in 1 .. Depth : j # k+1 => f[k+1].layers[j] = f[k].layers[j]
    BY <2>2, <2>3, BuildStepIs
  <2>5. Settled(model.layers[k+1], net[k+1], t[k], t[k+1])
    BY <1>2, <2>1 DEF Passes
  <2>6. f[k].ok => /\ new.layer.inits = net[k+1].inits
                   /\ new.ok => new.shape = t[k+1] \/ Len(new.shape) # 3
    <3> SUFFICES ASSUME f[k].ok
                 PROVE  new.layer.inits = net[k+1].inits /\ (new.ok => new.shape = t[k+1] \/ Len(new.shape) # 3)
      OBVIOUS
    <3>1. f[k].shape = t[k] \/ Len(f[k].shape) # 3
      BY <2>2
    <3>2. IsLayer(net[k+1]) /\ model.layers[k+1].kind \in Kinds
      BY <2>1, ModelFacts DEF LInv
    <3> HIDE DEF Fits, T
    <3> QED BY <2>5, <3>1, <3>2, RebuildKeeps
  <2> HIDE DEF new
  <2>7. ASSUME NEW j \in 1 .. Depth PROVE f[k+1].layers[j].inits = net[j].inits
    BY <2>2, <2>4, <2>6
  <2>8. f[k+1].ok => f[k+1].shape = t[k+1] \/ Len(f[k+1].shape) # 3
    BY <2>4, <2>6
  <2> QED BY <2>1, <2>4, <2>7, <2>8
<1> HIDE DEF T
<1>7. 0 .. Depth \subseteq T
  BY <1>1, <1>5, <1>6, IntervalInduction
<1> USE DEF T
<1>8. Fits(Depth)
  BY <1>1, <1>7
<1> QED BY <1>3, <1>8 DEF s

\* A forward pass leaves what build made, and every layer in its mode.
LEMMA ForwardPassKeeps ==
  ASSUME LInv, NEW call, NEW s, NEW tokens, NEW keep
  PROVE  LET r == SequentialForward(call, s, tokens, keep)
         IN  /\ r.layers = [j \in 1 .. Depth |-> r.layers[j]]
             /\ \A j \in 1 .. Depth : /\ IsLayer(r.layers[j]) /\ SameWeights(net[j], r.layers[j])
                                      /\ r.layers[j].training = net[j].training
<1>1. Depth \in Nat /\ DOMAIN net = 1 .. Depth
  BY ModelFacts
<1>2. PICK f : /\ Follows(f, ForwardPassOf(call, tokens, keep), ForwardBase(s))
               /\ f[Depth] = SequentialForward(call, s, tokens, keep)
  BY <1>1, ForwardFollows
<1>3. /\ f[0] = ForwardBase(s)
      /\ \A k \in 0 .. Depth - 1 : f[k+1] = ForwardStep(call, tokens, keep, f[k], k+1)
  BY <1>2 DEF Follows, StepOf, ForwardPassOf
<1> DEFINE Fits(k) == /\ f[k].layers = [j \in 1 .. Depth |-> f[k].layers[j]]
                      /\ \A j \in 1 .. Depth : /\ IsLayer(f[k].layers[j]) /\ SameWeights(net[j], f[k].layers[j])
                                               /\ f[k].layers[j].training = net[j].training
           T == {k \in 0 .. Depth : Fits(k)}
<1>4. 0 \in T
  <2>1. f[0].layers = net
    BY <1>3 DEF ForwardBase
  <2> QED BY <1>1, <2>1 DEF LInv, SameWeights
<1>5. ASSUME NEW k \in 0 .. Depth - 1, k \in T PROVE k + 1 \in T
  <2> DEFINE new == LayerForward(model.layers[k+1], net[k+1], call, f[k].shape, tokens, keep)
             ls == [f[k].layers EXCEPT ![k+1] = new.layer]
  <2>1. k + 1 \in 1 .. Depth /\ k + 1 \in 0 .. Depth
    BY <1>1
  <2>2. Fits(k)
    BY <1>5
  <2>3. f[k+1] = ForwardStep(call, tokens, keep, f[k], k+1)
    BY <1>3
  <2>4. f[k+1].layers = ls \/ f[k+1] = f[k]
    BY <2>3 DEF ForwardStep
  <2>5. IsLayer(new.layer) /\ SameWeights(net[k+1], new.layer) /\ new.layer.training = net[k+1].training
    <3> DEFINE l == net[k+1]
               L == model.layers[k+1]
    <3>1. IsLayer(l) /\ L.kind \in Kinds
      BY <2>1, ModelFacts DEF LInv
    <3> DEFINE r == LayerForward(L, l, call, f[k].shape, tokens, keep)
    <3> HIDE DEF l, L
    <3>2. IsLayer(r.layer) /\ SameWeights(l, r.layer) /\ r.layer.training = l.training
      BY <3>1, ForwardKeeps
    <3> QED BY <3>2 DEF l, L
  <2>6. /\ ls = [j \in 1 .. Depth |-> ls[j]]
        /\ \A j \in 1 .. Depth : ls[j] = IF j = k+1 THEN new.layer ELSE f[k].layers[j]
    BY <2>1, <2>2
  <2> HIDE DEF ls, new
  <2>7. CASE f[k+1].layers = ls
    BY <2>1, <2>2, <2>5, <2>6, <2>7
  <2>8. CASE f[k+1] = f[k]
    BY <2>1, <2>2, <2>8
  <2> QED BY <2>4, <2>7, <2>8
<1> HIDE DEF T
<1>6. 0 .. Depth \subseteq T
  BY <1>1, <1>4, <1>5, IntervalInduction
<1> USE DEF T
<1>7. Fits(Depth)
  BY <1>1, <1>6
<1> QED BY <1>2, <1>7

\* What build made of a layer is not changed by a call that keeps its weights.
LEMMA PassesOn ==
  ASSUME NEW ls, NEW others, Depth \in Nat,
         \A j \in 1 .. Depth : SameWeights(ls[j], others[j]), NEW s, \E t : Passes(ls, t, s)
  PROVE  \E t : Passes(others, t, s)
<1>1. PICK t : Passes(ls, t, s)
  OBVIOUS
<1>2. ASSUME NEW j \in 1 .. Depth
      PROVE  Settled(model.layers[j], others[j], t[j-1], t[j])
  <2>1. Settled(model.layers[j], ls[j], t[j-1], t[j]) /\ SameWeights(ls[j], others[j])
    BY <1>1 DEF Passes
  <2> QED BY <2>1 DEF Settled, SameWeights
<1>3. Passes(others, t, s)
  BY <1>1, <1>2 DEF Passes
<1> QED BY <1>3

LEMMA LayersStart ==
  ASSUME LayersInit
  PROVE  LInv
<1>1. net = [k \in 1 .. Depth |-> New]
  BY DEF LayersInit
<1>2. \A k \in 1 .. Depth : net[k] = New
  BY <1>1
<1>3. IsLayer(New)
  BY DEF IsLayer, New
<1>4. net = [k \in 1 .. Depth |-> net[k]] /\ \A k \in 1 .. Depth : IsLayer(net[k])
  BY <1>1, <1>2, <1>3
<1> QED BY <1>4 DEF LayersInit, LInv

\* A step keeps the weights, unless it builds for another shape.
LEMMA LayersStep ==
  ASSUME LInv, [LayersNext]_layerVars
  PROVE  /\ LInv'
         /\ lastBuild.ok /\ lastBuild'.shape = lastBuild.shape =>
              \A k \in 1 .. Depth : net'[k].inits = net[k].inits
<1> DEFINE Keeps == lastBuild.ok /\ lastBuild'.shape = lastBuild.shape =>
                      \A k \in 1 .. Depth : net'[k].inits = net[k].inits
           Good == LInv' /\ Keeps
<1>1. Depth \in Nat /\ DOMAIN net = 1 .. Depth
  BY ModelFacts
<1>2. ASSUME model' = model, lastBuild' = lastBuild,
             net' = [k \in 1 .. Depth |-> net'[k]],
             \A k \in 1 .. Depth : IsLayer(net'[k]) /\ SameWeights(net[k], net'[k])
      PROVE  Good
  <2>1. Depth' = Depth
    BY <1>2 DEF Depth
  <2>2. Keeps
    BY <1>2 DEF SameWeights
  <2>3. lastBuild.ok => \E t : Passes(net', t, lastBuild.shape)
    BY <1>1, <1>2, PassesOn DEF LInv
  <2>4. \A t : Passes(net, t, lastBuild.shape)' <=> Passes(net', t, lastBuild.shape)
    BY <1>2, <2>1 DEF Passes
  <2>5. LInv'
    BY <1>2, <2>1, <2>3, <2>4 DEF LInv
  <2> QED BY <2>2, <2>5
<1>3. ASSUME model' = model, lastBuild' = lastBuild, net' = net PROVE Good
  <2>1. net' = [k \in 1 .. Depth |-> net'[k]]
    BY <1>3 DEF LInv
  <2>2. \A k \in 1 .. Depth : IsLayer(net'[k]) /\ SameWeights(net[k], net'[k])
    BY <1>3 DEF LInv, SameWeights
  <2> HIDE DEF Good
  <2> QED BY <1>2, <1>3, <2>1, <2>2
<1>4. ASSUME NEW s \in model.shapes, BuildModel(s) PROVE Good
  <2> DEFINE r == SequentialBuild(s)
  <2>1. net' = r.layers /\ lastBuild' = [shape |-> s, ok |-> r.ok] /\ model' = model
    BY <1>4 DEF BuildModel
  <2>2. Depth' = Depth
    BY <2>1 DEF Depth
  <2>3. /\ r.layers = [j \in 1 .. Depth |-> r.layers[j]]
        /\ \A j \in 1 .. Depth : IsLayer(r.layers[j])
        /\ r.ok => \E t : Passes(r.layers, t, s)
    BY BuildPasses
  <2>4. lastBuild.ok /\ s = lastBuild.shape => \A j \in 1 .. Depth : r.layers[j].inits = net[j].inits
    BY BuildAgainKeeps
  <2> HIDE DEF r
  <2>5. \A t : Passes(net, t, s)' <=> Passes(net', t, s')
    BY <2>1, <2>2 DEF Passes
  <2>6. lastBuild'.shape = s /\ lastBuild'.ok = r.ok
    BY <2>1
  <2>7. \A t : Passes(net, t, lastBuild.shape)' <=> Passes(r.layers, t, s)
    BY <2>1, <2>2, <2>6 DEF Passes
  <2>8. LInv'
    BY <2>1, <2>2, <2>3, <2>6, <2>7 DEF LInv
  <2>9. Keeps
    BY <2>1, <2>4, <2>6
  <2> QED BY <2>8, <2>9
<1>5. ASSUME NEW t \in BOOLEAN, SetTraining(t) PROVE Good
  <2>1. net' = [k \in 1 .. Depth |-> [net[k] EXCEPT !.training = t]] /\ model' = model /\ lastBuild' = lastBuild
    BY <1>5 DEF SetTraining
  <2>2. net' = [k \in 1 .. Depth |-> net'[k]]
    BY <2>1
  <2>3. ASSUME NEW k \in 1 .. Depth
        PROVE  IsLayer(net'[k]) /\ SameWeights(net[k], net'[k])
    <3> DEFINE l == net[k]
               m == [l EXCEPT !.training = t]
    <3>1. net'[k] = m
      BY <2>1
    <3>2. IsLayer(l)
      BY DEF LInv
    <3> HIDE DEF l
    <3>3. m = [built |-> l.built, dims |-> l.dims, inits |-> l.inits, training |-> t,
               ctx |-> l.ctx, running |-> l.running]
      BY <3>2 DEF IsLayer
    <3> HIDE DEF m
    <3>4. IsLayer(m) /\ SameWeights(l, m)
      BY <3>3 DEF IsLayer, SameWeights
    <3> QED BY <3>1, <3>4 DEF l
  <2> HIDE DEF Good
  <2> QED BY <1>2, <2>1, <2>2, <2>3
<1>6. ASSUME NEW N \in Batches, NEW tokens \in Tokens(N), NEW keep \in Masks(N), ForwardPass(N, tokens, keep)
      PROVE  Good
  <2> DEFINE r == SequentialForward(calls', InputShape(N), tokens, keep)
  <2>1. net' = r.layers /\ model' = model /\ lastBuild' = lastBuild
    BY <1>6 DEF ForwardPass
  <2>2. /\ r.layers = [j \in 1 .. Depth |-> r.layers[j]]
        /\ \A j \in 1 .. Depth : IsLayer(r.layers[j]) /\ SameWeights(net[j], r.layers[j])
    BY ForwardPassKeeps
  <2> HIDE DEF r, Good
  <2> QED BY <1>2, <2>1, <2>2
<1>7. ASSUME NEW loss \in Losses, BackwardPass(loss) PROVE Good
  <2>1. model' = model /\ lastBuild' = lastBuild /\ net' = net
    BY <1>7 DEF BackwardPass
  <2> HIDE DEF Good
  <2> QED BY <1>3, <2>1
<1>8. ASSUME ZeroGrad PROVE Good
  <2>1. model' = model /\ lastBuild' = lastBuild /\ net' = net
    BY <1>8 DEF ZeroGrad
  <2> HIDE DEF Good
  <2> QED BY <1>3, <2>1
<1>9. ASSUME UNCHANGED layerVars PROVE Good
  <2>1. model' = model /\ lastBuild' = lastBuild /\ net' = net
    BY <1>9 DEF layerVars
  <2> HIDE DEF Good
  <2> QED BY <1>3, <2>1
<1> HIDE DEF Good
<1>10. \/ \E s \in model.shapes : BuildModel(s)
       \/ \E t \in BOOLEAN : SetTraining(t)
       \/ \E N \in Batches : \E tokens \in Tokens(N), keep \in Masks(N) : ForwardPass(N, tokens, keep)
       \/ \E loss \in Losses : BackwardPass(loss)
       \/ ZeroGrad
       \/ UNCHANGED layerVars
  BY DEF LayersNext
<1>11. Good
  BY <1>4, <1>5, <1>6, <1>7, <1>8, <1>9, <1>10
<1> QED BY <1>11 DEF Good

\* Building again for the same shape initialises no layer anew, whatever the
\* layers are, however many and however they were used in between.
THEOREM RebuildKept == LayersSpec => RebuildKeepsWeights
<1>1. LayersInit => LInv
  BY LayersStart
<1>2. LInv /\ [LayersNext]_layerVars => LInv'
  BY LayersStep
<1>3. LInv /\ [LayersNext]_layerVars =>
        [lastBuild.ok /\ lastBuild'.shape = lastBuild.shape =>
           \A k \in 1 .. Depth : net'[k].inits = net[k].inits]_layerVars
  BY LayersStep
<1> QED BY <1>1, <1>2, <1>3, PTL DEF LayersSpec, RebuildKeepsWeights

-----------------------------------------------------------------------------
(***************************************************************************)
(* Tensors, for the gradients of the layers: from what Product and Offset  *)
(* come to, the offsets, the strides and the transposes of matrices and of *)
(* batches of matrices.                                                    *)
(***************************************************************************)

\* An offset taken apart in two and in three dimensions.
LEMMA CoordsTwo ==
  ASSUME NEW o, NEW u, NEW v
  PROVE  LET c == Coords(o, <<u, v>>)
         IN  c = [d \in 1 .. 2 |-> c[d]] /\ c[1] = o \div u /\ c[2] = (o % u) \div v
<1> DEFINE strides == <<u, v>>
           Eq(r) == r = [d \in 0 .. Len(strides) |-> IF d = 0 THEN o ELSE r[d-1] % strides[d]]
           rem == CHOOSE r : Eq(r)
<1>1. Len(strides) = 2 /\ DOMAIN strides = 1 .. 2 /\ strides[1] = u /\ strides[2] = v
  OBVIOUS
<1>2. Coords(o, strides) = [d \in DOMAIN strides |-> rem[d-1] \div strides[d]]
  BY DEF Coords
<1> HIDE DEF strides
<1>3. Eq(rem)
  <2> DEFINE r == [d \in 0 .. 2 |-> IF d = 0 THEN o ELSE IF d = 1 THEN o % u ELSE (o % u) % v]
  <2>1. \A d \in 0 .. 2 : r[d] = IF d = 0 THEN o ELSE r[d-1] % strides[d]
    <3>1. r[0] = o /\ r[1] = o % u /\ r[2] = (o % u) % v
      OBVIOUS
    <3>2. r[1] = r[1-1] % strides[1] /\ r[2] = r[2-1] % strides[2]
      BY <1>1, <3>1
    <3>3. \A d \in 0 .. 2 : d = 0 \/ d = 1 \/ d = 2
      OBVIOUS
    <3> HIDE DEF r
    <3> QED BY <3>1, <3>2, <3>3
  <2>2. r = [d \in 0 .. 2 |-> r[d]]
    OBVIOUS
  <2> HIDE DEF r
  <2>3. Eq(r)
    BY <1>1, <2>1, <2>2
  <2> HIDE DEF Eq
  <2> QED BY <2>3
<1> HIDE DEF rem
<1>4. rem[0] = o /\ rem[1] = o % u
  <2>1. rem[0] = o
    BY <1>1, <1>3
  <2>2. rem[1] = rem[1-1] % strides[1]
    BY <1>1, <1>3
  <2> QED BY <1>1, <2>1, <2>2
<1>5. /\ Coords(o, strides) = [d \in 1 .. 2 |-> Coords(o, strides)[d]]
      /\ Coords(o, strides)[1] = rem[1-1] \div strides[1]
      /\ Coords(o, strides)[2] = rem[2-1] \div strides[2]
  BY <1>1, <1>2
<1> QED BY <1>1, <1>4, <1>5 DEF strides

LEMMA CoordsThree ==
  ASSUME NEW o, NEW u, NEW v, NEW w
  PROVE  LET c == Coords(o, <<u, v, w>>)
         IN  c = [d \in 1 .. 3 |-> c[d]] /\ c[1] = o \div u /\ c[2] = (o % u) \div v /\ c[3] = ((o % u) % v) \div w
<1> DEFINE strides == <<u, v, w>>
           Eq(r) == r = [d \in 0 .. Len(strides) |-> IF d = 0 THEN o ELSE r[d-1] % strides[d]]
           rem == CHOOSE r : Eq(r)
<1>1. /\ Len(strides) = 3 /\ DOMAIN strides = 1 .. 3
      /\ strides[1] = u /\ strides[2] = v /\ strides[3] = w
  OBVIOUS
<1>2. Coords(o, strides) = [d \in DOMAIN strides |-> rem[d-1] \div strides[d]]
  BY DEF Coords
<1> HIDE DEF strides
<1>3. Eq(rem)
  <2> DEFINE r == [d \in 0 .. 3 |-> IF d = 0 THEN o ELSE IF d = 1 THEN o % u
                                    ELSE IF d = 2 THEN (o % u) % v ELSE ((o % u) % v) % w]
  <2>1. \A d \in 0 .. 3 : r[d] = IF d = 0 THEN o ELSE r[d-1] % strides[d]
    <3>1. r[0] = o /\ r[1] = o % u /\ r[2] = (o % u) % v /\ r[3] = ((o % u) % v) % w
      OBVIOUS
    <3>2. /\ r[1] = r[1-1] % strides[1] /\ r[2] = r[2-1] % strides[2]
          /\ r[3] = r[3-1] % strides[3]
      BY <1>1, <3>1
    <3>3. \A d \in 0 .. 3 : d = 0 \/ d = 1 \/ d = 2 \/ d = 3
      OBVIOUS
    <3> HIDE DEF r
    <3> QED BY <3>1, <3>2, <3>3
  <2>2. r = [d \in 0 .. 3 |-> r[d]]
    OBVIOUS
  <2> HIDE DEF r
  <2>3. Eq(r)
    BY <1>1, <2>1, <2>2
  <2> HIDE DEF Eq
  <2> QED BY <2>3
<1> HIDE DEF rem
<1>4. rem[0] = o /\ rem[1] = o % u /\ rem[2] = (o % u) % v
  <2>1. rem[0] = o
    BY <1>1, <1>3
  <2>2. rem[1] = rem[1-1] % strides[1] /\ rem[2] = rem[2-1] % strides[2]
    BY <1>1, <1>3
  <2> QED BY <1>1, <2>1, <2>2
<1>5. /\ Coords(o, strides) = [d \in 1 .. 3 |-> Coords(o, strides)[d]]
      /\ Coords(o, strides)[1] = rem[1-1] \div strides[1]
      /\ Coords(o, strides)[2] = rem[2-1] \div strides[2]
      /\ Coords(o, strides)[3] = rem[3-1] \div strides[3]
  BY <1>1, <1>2
<1> QED BY <1>1, <1>4, <1>5 DEF strides

\* The last elements of a sequence.
LEMMA SubSeqLast ==
  ASSUME NEW s \in Seq(Nat), NEW m \in Nat, NEW n \in Nat, Len(s) = n, m > 0
  PROVE  /\ m = n + 1 => SubSeq(s, m, n) = <<>>
         /\ m = n => SubSeq(s, m, n) = <<s[m]>>
         /\ m = n - 1 => SubSeq(s, m, n) = <<s[m], s[n]>>
<1> DEFINE t == SubSeq(s, m, n)
<1>1. CASE m = n + 1
  BY <1>1, SubSeqEmpty
<1>2. CASE m = n
  <2>1. m \in Int /\ n \in Int /\ \A i \in m .. n : s[i] \in Nat
    BY <1>2
  <2>2. t \in Seq(Nat) /\ Len(t) = 1 /\ \A i \in 1 .. n-m+1 : t[i] = s[m+i-1]
    BY <1>2, <2>1, SubSeqProperties
  <2> HIDE DEF t
  <2>3. t[1] = s[m+1-1] /\ m+1-1 = m
    BY <1>2, <2>2
  <2>4. t = <<t[1]>>
    BY <2>2
  <2>5. t = <<s[m]>>
    BY <2>3, <2>4
  <2> QED BY <1>2, <2>5 DEF t
<1>3. CASE m = n - 1
  <2>1. m \in Int /\ n \in Int /\ \A i \in m .. n : s[i] \in Nat
    BY <1>3
  <2>2. t \in Seq(Nat) /\ Len(t) = 2 /\ \A i \in 1 .. n-m+1 : t[i] = s[m+i-1]
    BY <1>3, <2>1, SubSeqProperties
  <2> HIDE DEF t
  <2>3. t[1] = s[m+1-1] /\ m+1-1 = m /\ t[2] = s[m+2-1] /\ m+2-1 = n
    BY <1>3, <2>2
  <2>4. t = <<t[1], t[2]>>
    BY <2>2
  <2>5. t = <<s[m], s[n]>>
    BY <2>3, <2>4
  <2> QED BY <1>3, <2>5 DEF t
<1>4. CASE m # n + 1 /\ m # n /\ m # n - 1
  BY <1>4
<1> QED BY <1>1, <1>2, <1>3, <1>4

\* The strides of a matrix and of a batch of matrices.
LEMMA Strides ==
  ASSUME NEW a \in Nat, NEW b \in Nat, NEW c \in Nat
  PROVE  /\ rowMajorStrides(<<a, b>>) = <<b, 1>>
         /\ rowMajorStrides(<<a, b, c>>) = <<b * c, c, 1>>
<1>1. rowMajorStrides(<<a, b>>) = <<b, 1>>
  <2> DEFINE s == <<a, b>>
  <2>0. s \in Seq(Nat) /\ Len(s) = 2 /\ DOMAIN s = 1 .. 2 /\ s[1] = a /\ s[2] = b
    OBVIOUS
  <2>1. Len(s) = 2 /\ DOMAIN s = 1 .. 2 /\ SubSeq(s, 2, 2) = <<b>> /\ SubSeq(s, 3, 2) = <<>>
    <3> HIDE DEF s
    <3>1. SubSeq(s, 2, 2) = <<s[2]>> /\ SubSeq(s, 3, 2) = <<>>
      <4>0. 2 \in Nat /\ 3 \in Nat /\ 2 > 0 /\ 3 > 0 /\ 3 = 2 + 1
        OBVIOUS
      <4>1. SubSeq(s, 2, 2) = <<s[2]>>
        BY <2>0, <4>0, SubSeqLast, Zenon
      <4>2. SubSeq(s, 3, 2) = <<>>
        BY <2>0, <4>0, SubSeqLast, Zenon
      <4> QED BY <4>1, <4>2
    <3> QED BY <2>0, <3>1
  <2> HIDE DEF s
  <2>2. Product(<<b>>) = b /\ Product(<<>>) = 1
    BY ProductNone, ProductOne
  <2>3. \A d \in 1 .. 2 : Product(SubSeq(s, d + 1, Len(s))) = <<b, 1>>[d]
    <3>0. 1 + 1 = 2 /\ 2 + 1 = 3
      OBVIOUS
    <3>1. Product(SubSeq(s, 1 + 1, Len(s))) = b /\ Product(SubSeq(s, 2 + 1, Len(s))) = 1
      BY <2>1, <2>2, <3>0, Zenon
    <3>2. \A d \in 1 .. 2 : d = 1 \/ d = 2
      OBVIOUS
    <3> QED BY <3>1, <3>2
  <2>4. rowMajorStrides(s) = [d \in 1 .. 2 |-> <<b, 1>>[d]]
    BY <2>1, <2>3 DEF rowMajorStrides
  <2> QED BY <2>4 DEF s
<1>2. rowMajorStrides(<<a, b, c>>) = <<b * c, c, 1>>
  <2> DEFINE s == <<a, b, c>>
             t == <<b * c, c, 1>>
  <2>0. s \in Seq(Nat) /\ Len(s) = 3 /\ DOMAIN s = 1 .. 3 /\ s[1] = a /\ s[2] = b /\ s[3] = c
    OBVIOUS
  <2>1. /\ Len(s) = 3 /\ DOMAIN s = 1 .. 3
        /\ SubSeq(s, 2, 3) = <<b, c>> /\ SubSeq(s, 3, 3) = <<c>> /\ SubSeq(s, 4, 3) = <<>>
    <3> HIDE DEF s
    <3>1. SubSeq(s, 2, 3) = <<s[2], s[3]>> /\ SubSeq(s, 3, 3) = <<s[3]>> /\ SubSeq(s, 4, 3) = <<>>
      <4>0. /\ 2 \in Nat /\ 3 \in Nat /\ 4 \in Nat /\ 2 > 0 /\ 3 > 0 /\ 4 > 0
            /\ 2 = 3 - 1 /\ 4 = 3 + 1
        OBVIOUS
      <4>1. SubSeq(s, 2, 3) = <<s[2], s[3]>>
        BY <2>0, <4>0, SubSeqLast, Zenon
      <4>2. SubSeq(s, 3, 3) = <<s[3]>>
        BY <2>0, <4>0, SubSeqLast, Zenon
      <4>3. SubSeq(s, 4, 3) = <<>>
        BY <2>0, <4>0, SubSeqLast, Zenon
      <4> QED BY <4>1, <4>2, <4>3
    <3> QED BY <2>0, <3>1
  <2>5. t[1] = b * c /\ t[2] = c /\ t[3] = 1 /\ t = [d \in 1 .. 3 |-> t[d]]
    OBVIOUS
  <2> HIDE DEF s, t
  <2>2. Product(<<b, c>>) = b * c /\ Product(<<c>>) = c /\ Product(<<>>) = 1
    BY ProductNone, ProductOne, ProductTwo
  <2>3. \A d \in 1 .. 3 : Product(SubSeq(s, d + 1, Len(s))) = t[d]
    <3>0. 1 + 1 = 2 /\ 2 + 1 = 3 /\ 3 + 1 = 4
      OBVIOUS
    <3>1. /\ Product(SubSeq(s, 1 + 1, Len(s))) = b * c /\ Product(SubSeq(s, 2 + 1, Len(s))) = c
          /\ Product(SubSeq(s, 3 + 1, Len(s))) = 1
      BY <2>1, <2>2, <3>0, Zenon
    <3>2. \A d \in 1 .. 3 : d = 1 \/ d = 2 \/ d = 3
      OBVIOUS
    <3> QED BY <2>5, <3>1, <3>2
  <2>4. rowMajorStrides(s) = [d \in 1 .. 3 |-> t[d]]
    BY <2>1, <2>3 DEF rowMajorStrides
  <2> QED BY <2>4, <2>5 DEF s, t
<1> QED BY <1>1, <1>2

\* An index in two and in three dimensions.
LEMMA OffsetTwo ==
  ASSUME NEW u \in Nat, NEW v \in Nat, NEW x \in [1 .. 2 -> Nat]
  PROVE  Offset(x, <<u, v>>) = x[1] * u + x[2] * v
<1> DEFINE strides == <<u, v>>
<1>1. strides \in [1 .. 2 -> Nat] /\ strides[1] = u /\ strides[2] = v
  OBVIOUS
<1> HIDE DEF strides
<1>2. PICK f : f[0] = 0 /\ f[2] = Offset(x, strides) /\ \A k \in 0 .. 2-1 : f[k+1] = f[k] + x[k+1] * strides[k+1]
  <2> DEFINE n == 2
  <2>1. n \in Nat /\ strides \in [1 .. n -> Nat] /\ x \in [1 .. n -> Nat]
    BY <1>1
  <2> HIDE DEF n
  <2>2. \E f : /\ f[0] = 0 /\ f[n] = Offset(x, strides)
              /\ \A k \in 0 .. n-1 : f[k+1] = f[k] + x[k+1] * strides[k+1]
    BY <2>1, OffsetSteps
  <2> QED BY <2>2 DEF n
<1>3. f[0+1] = f[0] + x[0+1] * strides[0+1] /\ f[1+1] = f[1] + x[1+1] * strides[1+1]
  BY <1>2
<1>4. x[1] * u \in Nat /\ x[2] * v \in Nat
  BY ProductNat
<1>5. Offset(x, strides) = x[1] * u + x[2] * v
  BY <1>1, <1>2, <1>3, <1>4
<1> QED BY <1>5 DEF strides

LEMMA OffsetThree ==
  ASSUME NEW u \in Nat, NEW v \in Nat, NEW w \in Nat, NEW x \in [1 .. 3 -> Nat]
  PROVE  Offset(x, <<u, v, w>>) = x[1] * u + x[2] * v + x[3] * w
<1> DEFINE strides == <<u, v, w>>
<1>1. strides \in [1 .. 3 -> Nat] /\ strides[1] = u /\ strides[2] = v /\ strides[3] = w
  OBVIOUS
<1> HIDE DEF strides
<1>2. PICK f : f[0] = 0 /\ f[3] = Offset(x, strides) /\ \A k \in 0 .. 3-1 : f[k+1] = f[k] + x[k+1] * strides[k+1]
  <2> DEFINE n == 3
  <2>1. n \in Nat /\ strides \in [1 .. n -> Nat] /\ x \in [1 .. n -> Nat]
    BY <1>1
  <2> HIDE DEF n
  <2>2. \E f : /\ f[0] = 0 /\ f[n] = Offset(x, strides)
              /\ \A k \in 0 .. n-1 : f[k+1] = f[k] + x[k+1] * strides[k+1]
    BY <2>1, OffsetSteps
  <2> QED BY <2>2 DEF n
<1>3. /\ f[0+1] = f[0] + x[0+1] * strides[0+1] /\ f[1+1] = f[1] + x[1+1] * strides[1+1]
      /\ f[2+1] = f[2] + x[2+1] * strides[2+1]
  BY <1>2
<1>4. x[1] * u \in Nat /\ x[2] * v \in Nat /\ x[3] * w \in Nat
  BY ProductNat
<1>5. Offset(x, strides) = x[1] * u + x[2] * v + x[3] * w
  BY <1>1, <1>2, <1>3, <1>4
<1> QED BY <1>5 DEF strides

\* The offsets of a tensor.
LEMMA OffsetsTwo ==
  ASSUME NEW a \in Nat, NEW b \in Nat
  PROVE  Offsets(<<a, b>>) = 0 .. a * b - 1
<1>1. <<a, b>> # <<>>
  OBVIOUS
<1>2. shapeNumel(<<a, b>>) = a * b
  BY <1>1, ProductTwo DEF shapeNumel
<1> QED BY <1>2, Zenon DEF Offsets

LEMMA OffsetsThree ==
  ASSUME NEW a \in Nat, NEW b \in Nat, NEW c \in Nat
  PROVE  Offsets(<<a, b, c>>) = 0 .. a * b * c - 1
<1>1. <<a, b, c>> # <<>>
  OBVIOUS
<1>2. shapeNumel(<<a, b, c>>) = a * b * c
  BY <1>1, ProductThree DEF shapeNumel
<1> QED BY <1>2, Zenon DEF Offsets

LEMMA OffsetsFour ==
  ASSUME NEW a \in Nat, NEW b \in Nat, NEW c \in Nat, NEW d \in Nat
  PROVE  Offsets(<<a, b, c, d>>) = 0 .. a * b * c * d - 1
<1>1. <<a, b, c, d>> # <<>>
  OBVIOUS
<1>2. shapeNumel(<<a, b, c, d>>) = a * b * c * d
  BY <1>1, ProductFour DEF shapeNumel
<1> QED BY <1>2, Zenon DEF Offsets

LEMMA DivByOne ==
  ASSUME NEW x \in Nat
  PROVE  x \div 1 = x
OBVIOUS

\* transpose of a matrix.
LEMMA TransposeTwo ==
  ASSUME NEW a \in Nat, NEW b \in Nat, NEW y \in 0 .. b-1, NEW z \in 0 .. a-1
  PROVE  transpose(<<a, b>>, 1, 2)[y * a + z] = z * b + y
<1> DEFINE s == <<a, b>>
           out == Swap(s, 1, 2)
           from == Swap(rowMajorStrides(s), 1, 2)
           i == y * a + z
           c == Coords(i, rowMajorStrides(out))
<1>1. out = <<b, a>>
  BY DEF Swap
<1>2. from = <<1, b>>
  <2>1. rowMajorStrides(s) = <<b, 1>>
    BY Strides
  <2> HIDE DEF s
  <2>2. from = Swap(<<b, 1>>, 1, 2)
    BY <2>1
  <2>3. Swap(<<b, 1>>, 1, 2) = <<1, b>>
    BY DEF Swap
  <2> QED BY <2>2, <2>3
<1>3. i \in 0 .. b * a - 1 /\ y \in Nat /\ z \in Nat /\ i \in Nat
  BY DigitBounds, ProductNat
<1>4. i \in Offsets(out)
  BY <1>1, <1>3, OffsetsTwo
<1>5. transpose(s, 1, 2)[i] = Offset(c, from)
  <2>1. transpose(s, 1, 2) = [j \in Offsets(out) |-> Offset(Coords(j, rowMajorStrides(out)), from)]
    BY DEF transpose
  <2> HIDE DEF s, out, from, i
  <2> QED BY <1>4, <2>1
<1> HIDE DEF out, from
<1>6. rowMajorStrides(out) = <<a, 1>>
  BY <1>1, Strides
<1>7. i \div a = y /\ i % a = z
  BY DigitOf
<1> HIDE DEF i
<1>8. c = Coords(i, <<a, 1>>)
  BY <1>6
<1>9. c = [d \in 1 .. 2 |-> c[d]] /\ c[1] = y /\ c[2] = z
  <2> HIDE DEF c
  <2>1. c = [d \in 1 .. 2 |-> c[d]] /\ c[1] = i \div a /\ c[2] = (i % a) \div 1
    BY <1>8, CoordsTwo
  <2>2. z \div 1 = z
    BY <1>3, DivByOne
  <2> QED BY <1>7, <2>1, <2>2
<1> HIDE DEF c
<1>10. c \in [1 .. 2 -> Nat]
  <2>1. \A d \in 1 .. 2 : c[d] \in Nat
    BY <1>3, <1>9
  <2> QED BY <1>9, <2>1
<1>11. Offset(c, <<1, b>>) = c[1] * 1 + c[2] * b
  BY <1>10, OffsetTwo
<1>12. transpose(s, 1, 2)[i] = z * b + y
  BY <1>2, <1>3, <1>5, <1>9, <1>11, ProductNat
<1> QED BY <1>12 DEF s, i

\* Row x, column y of matrix i of a batch of matrices of P rows and Q columns.
Cell(i, x, y, P, Q) == i * (P * Q) + (x * Q + y)

\* transpose of each matrix of a batch.
LEMMA TransposeThree ==
  ASSUME NEW n \in Nat, NEW a \in Nat, NEW b \in Nat,
         NEW x \in 0 .. n-1, NEW y \in 0 .. b-1, NEW z \in 0 .. a-1
  PROVE  transpose(<<n, a, b>>, 2, 3)[Cell(x, y, z, b, a)] = Cell(x, z, y, a, b)
<1> DEFINE s == <<n, a, b>>
           out == Swap(s, 2, 3)
           from == Swap(rowMajorStrides(s), 2, 3)
           j == y * a + z
           i == x * (b * a) + j
           c == Coords(i, rowMajorStrides(out))
<1>1. out = <<n, b, a>>
  BY DEF Swap
<1>2. from = <<a * b, 1, b>>
  <2>1. rowMajorStrides(s) = <<a * b, b, 1>>
    BY Strides
  <2> HIDE DEF s
  <2>2. from = Swap(<<a * b, b, 1>>, 2, 3)
    BY <2>1
  <2>3. Swap(<<a * b, b, 1>>, 2, 3) = <<a * b, 1, b>>
    <3> DEFINE p == a * b
    <3> HIDE DEF p
    <3>1. Swap(<<p, b, 1>>, 2, 3) = <<p, 1, b>>
      BY DEF Swap
    <3> QED BY <3>1 DEF p
  <2> QED BY <2>2, <2>3
<1>3. /\ j \in 0 .. b * a - 1 /\ x \in Nat /\ y \in Nat /\ z \in Nat /\ j \in Nat
      /\ a * b \in Nat /\ b * a \in Nat /\ b * a = a * b
  BY DigitBounds, ProductNat
<1>4. i \in Offsets(out)
  <2>1. i \in 0 .. n * (b * a) - 1
    <3> HIDE DEF j
    <3> QED BY <1>3, DigitBounds
  <2>2. n * (b * a) = n * b * a
    OBVIOUS
  <2> HIDE DEF i
  <2> QED BY <1>1, <2>1, <2>2, OffsetsThree
<1>5. transpose(s, 2, 3)[i] = Offset(c, from)
  <2>1. transpose(s, 2, 3) = [k \in Offsets(out) |-> Offset(Coords(k, rowMajorStrides(out)), from)]
    BY DEF transpose
  <2> HIDE DEF s, out, from, i
  <2> QED BY <1>4, <2>1
<1> HIDE DEF out, from
<1>6. rowMajorStrides(out) = <<b * a, a, 1>>
  BY <1>1, Strides
<1>7. j \div a = y /\ j % a = z
  BY <1>3, DigitOf
<1> HIDE DEF j
<1>8. i \div (b * a) = x /\ i % (b * a) = j
  BY <1>3, DigitOf
<1> HIDE DEF i
<1>9. c = Coords(i, <<b * a, a, 1>>)
  BY <1>6
<1>10. c = [d \in 1 .. 3 |-> c[d]] /\ c[1] = x /\ c[2] = y /\ c[3] = z
  <2> HIDE DEF c
  <2>1. /\ c = [d \in 1 .. 3 |-> c[d]] /\ c[1] = i \div (b * a)
        /\ c[2] = (i % (b * a)) \div a /\ c[3] = ((i % (b * a)) % a) \div 1
    BY <1>9, CoordsThree
  <2>2. z \div 1 = z
    BY <1>3, DivByOne
  <2> QED BY <1>7, <1>8, <2>1, <2>2
<1> HIDE DEF c
<1>11. c \in [1 .. 3 -> Nat]
  <2>1. \A d \in 1 .. 3 : c[d] \in Nat
    BY <1>3, <1>10
  <2> QED BY <1>10, <2>1
<1>12. Offset(c, <<a * b, 1, b>>) = c[1] * (a * b) + c[2] * 1 + c[3] * b
  BY <1>3, <1>11, OffsetThree
<1>13. transpose(s, 2, 3)[i] = x * (a * b) + (z * b + y)
  <2>1. x * (a * b) \in Nat /\ z * b \in Nat
    BY <1>3, ProductNat
  <2> DEFINE p == x * (a * b)
             q == z * b
  <2>2. transpose(s, 2, 3)[i] = p + y * 1 + q
    BY <1>2, <1>5, <1>10, <1>12
  <2> HIDE DEF p, q
  <2>3. p + y * 1 + q = p + (q + y)
    BY <1>3, <2>1 DEF p, q
  <2> QED BY <2>2, <2>3 DEF p, q
<1> QED BY <1>13 DEF s, i, j, Cell

-----------------------------------------------------------------------------
(***************************************************************************)
(* Linear maps, as sets of edges with their factors: composition is        *)
(* associative, distributes over union and has the identity; and the chain *)
(* rule, that composing n maps from the output back gives what composing   *)
(* them from the input does.                                               *)
(***************************************************************************)

\* The factors of an edge are a sequence, of whatever.
IsList(p) == \E X : p \in Seq(X)

IsRel(R) == \A r \in R : r = <<r[1], r[2], r[3]>> /\ IsList(r[3])

\* Concatenation of sequences over different sets.
LEMMA FactorsJoin ==
  ASSUME NEW p, NEW q, IsList(p), IsList(q)
  PROVE  IsList(p \o q)
<1>1. PICK X : p \in Seq(X)
  BY DEF IsList
<1>2. PICK Y : q \in Seq(Y)
  BY DEF IsList
<1>3. p \in Seq(X \union Y) /\ q \in Seq(X \union Y)
  BY <1>1, <1>2
<1>4. p \o q \in Seq(X \union Y)
  BY <1>3, ConcatProperties
<1> QED BY <1>4 DEF IsList

LEMMA FactorsAssociate ==
  ASSUME NEW p, NEW q, NEW r, IsList(p), IsList(q), IsList(r)
  PROVE  (p \o q) \o r = p \o (q \o r)
<1>1. PICK X : p \in Seq(X)
  BY DEF IsList
<1>2. PICK Y : q \in Seq(Y)
  BY DEF IsList
<1>3. PICK Z : r \in Seq(Z)
  BY DEF IsList
<1> DEFINE A == X \union Y \union Z
<1>4. p \in Seq(A) /\ q \in Seq(A) /\ r \in Seq(A)
  BY <1>1, <1>2, <1>3
<1> HIDE DEF A
<1> QED BY <1>4, ConcatAssociative

LEMMA FactorsNone ==
  ASSUME NEW p, IsList(p)
  PROVE  p \o <<>> = p /\ <<>> \o p = p
BY ConcatEmptySeq DEF IsList

LEMMA NoFactors == IsList(<<>>)
<1>1. <<>> \in Seq({})
  OBVIOUS
<1> QED BY <1>1 DEF IsList

LEMMA OneFactor ==
  ASSUME NEW v
  PROVE  IsList(<<v>>)
<1>1. <<v>> \in Seq({v})
  OBVIOUS
<1> QED BY <1>1 DEF IsList

\* e leads along r and on along s.
Joins(e, r, s) == s[1] = r[2] /\ e = <<r[1], s[2], r[3] \o s[3]>>

\* What a composition leads along.
LEMMA InThen ==
  ASSUME NEW R, NEW S, NEW e
  PROVE  e \in Then(R, S) <=> \E r \in R, s \in S : Joins(e, r, s)
<1> DEFINE from == [m \in {r[2] : r \in R} |-> {s \in S : s[1] = m}]
           At2(r) == {<<r[1], s[2], r[3] \o s[3]>> : s \in from[r[2]]}
<1>1. Then(R, S) = UNION {At2(r) : r \in R}
  BY DEF Then
<1>2. \A r \in R : from[r[2]] = {s \in S : s[1] = r[2]}
  OBVIOUS
<1>3. \A r \in R : e \in At2(r) <=> \E s \in S : Joins(e, r, s)
  BY <1>2 DEF Joins
<1> HIDE DEF At2
<1>4. e \in Then(R, S) <=> \E r \in R : e \in At2(r)
  BY <1>1
<1> QED BY <1>3, <1>4

\* Composition makes edges of edges,
LEMMA ThenIsRel ==
  ASSUME NEW R, NEW S, IsRel(R), IsRel(S)
  PROVE  IsRel(Then(R, S))
<1> SUFFICES ASSUME NEW e \in Then(R, S)
             PROVE  e = <<e[1], e[2], e[3]>> /\ IsList(e[3])
  BY DEF IsRel
<1>1. PICK r \in R, s \in S : Joins(e, r, s)
  BY InThen
<1>4. IsList(r[3] \o s[3])
  BY FactorsJoin DEF IsRel
<1>5. e = <<r[1], s[2], r[3] \o s[3]>>
  BY <1>1 DEF Joins
<1> QED BY <1>4, <1>5

\* is associative,
LEMMA ThenAssociates ==
  ASSUME NEW R, NEW S, NEW T, IsRel(R), IsRel(S), IsRel(T)
  PROVE  Then(Then(R, S), T) = Then(R, Then(S, T))
<1>0. ASSUME NEW r \in R, NEW s \in S, NEW t \in T
      PROVE  (r[3] \o s[3]) \o t[3] = r[3] \o (s[3] \o t[3])
  <2>1. IsList(r[3]) /\ IsList(s[3]) /\ IsList(t[3])
    BY DEF IsRel
  <2> DEFINE p == r[3]
             q == s[3]
             u == t[3]
  <2> HIDE DEF p, q, u
  <2>2. IsList(p) /\ IsList(q) /\ IsList(u)
    BY <2>1 DEF p, q, u
  <2>3. (p \o q) \o u = p \o (q \o u)
    BY <2>2, FactorsAssociate
  <2> QED BY <2>3 DEF p, q, u
<1>1. ASSUME NEW e \in Then(Then(R, S), T) PROVE e \in Then(R, Then(S, T))
  <2>1. PICK d \in Then(R, S), t \in T : Joins(e, d, t)
    BY InThen
  <2>2. PICK r \in R, s \in S : Joins(d, r, s)
    BY InThen
  <2> DEFINE f == <<s[1], t[2], s[3] \o t[3]>>
  <2>3. d[1] = r[1] /\ d[2] = s[2] /\ d[3] = r[3] \o s[3] /\ s[1] = r[2]
    BY <2>2 DEF Joins
  <2>4. Joins(f, s, t)
    BY <2>1, <2>3 DEF Joins
  <2>5. Joins(e, r, f)
    <3>1. e = <<r[1], t[2], r[3] \o (s[3] \o t[3])>>
      BY <1>0, <2>1, <2>3 DEF Joins
    <3> QED BY <2>3, <3>1 DEF Joins
  <2> HIDE DEF f
  <2> QED BY <2>4, <2>5, InThen
<1>2. ASSUME NEW e \in Then(R, Then(S, T)) PROVE e \in Then(Then(R, S), T)
  <2>1. PICK r \in R, d \in Then(S, T) : Joins(e, r, d)
    BY InThen
  <2>2. PICK s \in S, t \in T : Joins(d, s, t)
    BY InThen
  <2> DEFINE f == <<r[1], s[2], r[3] \o s[3]>>
  <2>3. d[1] = s[1] /\ d[2] = t[2] /\ d[3] = s[3] \o t[3] /\ t[1] = s[2]
    BY <2>2 DEF Joins
  <2>4. Joins(f, r, s)
    BY <2>1, <2>3 DEF Joins
  <2>5. Joins(e, f, t)
    <3>1. e = <<r[1], t[2], (r[3] \o s[3]) \o t[3]>>
      BY <1>0, <2>1, <2>3 DEF Joins
    <3> QED BY <2>3, <3>1 DEF Joins
  <2> HIDE DEF f
  <2> QED BY <2>4, <2>5, InThen
<1> QED BY <1>1, <1>2

\* distributes over union,
LEMMA ThenUnion ==
  ASSUME NEW R, NEW S, NEW T
  PROVE  Then(R, S \union T) = Then(R, S) \union Then(R, T)
<1>1. \A e : e \in Then(R, S \union T) <=> e \in Then(R, S) \/ e \in Then(R, T)
  BY InThen
<1> QED BY <1>1

LEMMA ThenNothing ==
  ASSUME NEW R
  PROVE  Then(R, {}) = {} /\ Then({}, R) = {}
BY InThen

\* and has the identity as its unit.
LEMMA ThenIdentity ==
  ASSUME NEW R, NEW P, IsRel(R), \A r \in R : r[2] \in P
  PROVE  Then(R, Identity(P)) = R
<1>1. ASSUME NEW r \in R PROVE r = <<r[1], r[2], r[3] \o <<>>>>
  <2>2. r[3] \o <<>> = r[3]
    BY FactorsNone DEF IsRel
  <2> QED BY <2>2 DEF IsRel
<1>2. ASSUME NEW e \in R PROVE e \in Then(R, Identity(P))
  <2> DEFINE s == <<e[2], e[2], <<>>>>
  <2>1. s \in Identity(P) /\ s[1] = e[2] /\ s[2] = e[2] /\ s[3] = <<>>
    BY DEF Identity
  <2> HIDE DEF s
  <2>2. Joins(e, e, s)
    BY <1>1, <2>1 DEF Joins
  <2> QED BY <2>1, <2>2, InThen
<1>3. ASSUME NEW e \in Then(R, Identity(P)) PROVE e \in R
  <2>1. PICK r \in R, s \in Identity(P) : Joins(e, r, s)
    BY InThen
  <2>2. s[2] = s[1] /\ s[3] = <<>>
    BY DEF Identity
  <2>3. e = <<r[1], r[2], r[3] \o <<>>>>
    BY <2>1, <2>2 DEF Joins
  <2>4. e = r
    BY <1>1, <2>3
  <2> QED BY <2>4
<1> QED BY <1>2, <1>3

LEMMA RelUnion ==
  ASSUME NEW R, NEW S, IsRel(R), IsRel(S)
  PROVE  IsRel(R \union S)
BY DEF IsRel

\* What is behind a mask need not be computed.
LEMMA ThenMasked ==
  ASSUME NEW A, NEW B, NEW C, NEW K, K \subseteq B,
         \A a \in A, b \in B : b[1] = a[2] => b \in K
  PROVE  Then(A, Then(K, C)) = Then(A, Then(B, C))
<1>1. ASSUME NEW e, e \in Then(A, Then(K, C)) PROVE e \in Then(A, Then(B, C))
  <2>1. PICK a \in A, d \in Then(K, C) : Joins(e, a, d)
    BY <1>1, InThen
  <2>2. d \in Then(B, C)
    BY InThen
  <2> QED BY <2>1, <2>2, InThen
<1>2. ASSUME NEW e, e \in Then(A, Then(B, C)) PROVE e \in Then(A, Then(K, C))
  <2>1. PICK a \in A, d \in Then(B, C) : Joins(e, a, d)
    BY <1>2, InThen
  <2>2. PICK b \in B, c \in C : Joins(d, b, c)
    BY InThen
  <2>3. b[1] = a[2]
    BY <2>1, <2>2 DEF Joins
  <2>4. d \in Then(K, C)
    BY <2>2, <2>3, InThen
  <2> QED BY <2>1, <2>4, InThen
<1> QED BY <1>1, <1>2

\* What n stages do one after the other, E[k] the edges of a stage and U[k] its
\* uses of parameters: F and V accumulate them from the input on, G and W from
\* the output back.
Forwards(n, E, U, P, F, V) ==
  /\ F[0] = Identity(P) /\ V[0] = {}
  /\ \A k \in 0 .. n-1 : F[k+1] = Then(E[k+1], F[k]) /\ V[k+1] = Then(E[k+1], V[k]) \union U[k+1]

Backwards(n, E, U, g, G, W) ==
  /\ G[n] = g /\ W[n] = {}
  /\ \A k \in 0 .. n-1 : G[k] = Then(G[k+1], E[k+1]) /\ W[k] = W[k+1] \union Then(G[k+1], U[k+1])

LEMMA IdentityIsRel ==
  ASSUME NEW P
  PROVE  IsRel(Identity(P))
<1>1. ASSUME NEW e \in Identity(P) PROVE e = <<e[1], e[2], e[3]>> /\ e[3] = <<>>
  BY DEF Identity
<1> QED BY <1>1, NoFactors DEF IsRel

\* The two orders agree.
LEMMA ChainRule ==
  ASSUME NEW n \in Nat, NEW E, NEW U, NEW P, NEW F, NEW V, NEW g, NEW G, NEW W,
         \A k \in 1 .. n : IsRel(E[k]) /\ IsRel(U[k]), IsRel(g),
         Forwards(n, E, U, P, F, V), Backwards(n, E, U, g, G, W),
         \A e \in G[0] : e[2] \in P
  PROVE  G[0] = Then(g, F[n]) /\ W[0] = Then(g, V[n])
<1>1. \A k \in 0 .. n : IsRel(F[k]) /\ IsRel(V[k])
  <2> DEFINE T == {k \in 0 .. n : IsRel(F[k]) /\ IsRel(V[k])}
  <2>1. 0 \in T
    <3>1. IsRel({})
      BY DEF IsRel
    <3> QED BY <3>1, IdentityIsRel DEF Forwards
  <2>2. ASSUME NEW k \in 0 .. n-1, k \in T PROVE k + 1 \in T
    <3>1. k + 1 \in 1 .. n /\ k + 1 \in 0 .. n
      OBVIOUS
    <3>2. IsRel(Then(E[k+1], F[k])) /\ IsRel(Then(E[k+1], V[k]))
      BY <2>2, <3>1, ThenIsRel
    <3>3. IsRel(F[k+1]) /\ IsRel(V[k+1])
      BY <3>1, <3>2, RelUnion DEF Forwards
    <3> QED BY <3>1, <3>3
  <2> HIDE DEF T
  <2>3. 0 .. n \subseteq T
    BY <2>1, <2>2, IntervalInduction
  <2> QED BY <2>3 DEF T
<1>2. \A k \in 0 .. n : IsRel(G[k])
  <2> DEFINE T == {k \in 0 .. n : IsRel(G[n-k])}
  <2>1. 0 \in T
    <3>1. n - 0 = n
      OBVIOUS
    <3> QED BY <3>1 DEF Backwards
  <2>2. ASSUME NEW k \in 0 .. n-1, k \in T PROVE k + 1 \in T
    <3> DEFINE j == n - (k+1)
    <3>1. j \in 0 .. n-1 /\ j + 1 = n - k /\ j + 1 \in 1 .. n /\ k + 1 \in 0 .. n
      OBVIOUS
    <3> HIDE DEF j
    <3>2. G[j] = Then(G[j+1], E[j+1])
      BY <3>1 DEF Backwards
    <3>3. IsRel(G[j+1])
      BY <2>2, <3>1
    <3>4. IsRel(G[j])
      BY <3>1, <3>2, <3>3, ThenIsRel
    <3> QED BY <3>1, <3>4 DEF j
  <2> HIDE DEF T
  <2>3. 0 .. n \subseteq T
    BY <2>1, <2>2, IntervalInduction
  <2>4. ASSUME NEW k \in 0 .. n PROVE IsRel(G[k])
    <3>1. n - k \in 0 .. n /\ n - (n - k) = k
      OBVIOUS
    <3> QED BY <2>3, <3>1 DEF T
  <2> QED BY <2>4
<1> DEFINE T == {k \in 0 .. n : Then(G[k], F[k]) = G[0] /\ W[k] \union Then(G[k], V[k]) = W[0]}
<1>3. 0 \in T
  <2>1. Then(G[0], Identity(P)) = G[0]
    BY <1>2, ThenIdentity
  <2>2. Then(G[0], {}) = {}
    BY ThenNothing, ZenonT(30)
  <2> QED BY <2>1, <2>2 DEF Forwards
<1>4. ASSUME NEW k \in 0 .. n-1, k \in T PROVE k + 1 \in T
  <2>1. k + 1 \in 1 .. n /\ k + 1 \in 0 .. n /\ k \in 0 .. n
    OBVIOUS
  <2>2. IsRel(G[k+1]) /\ IsRel(E[k+1]) /\ IsRel(F[k]) /\ IsRel(V[k])
    BY <1>1, <1>2, <2>1
  <2>3. Then(G[k+1], Then(E[k+1], F[k])) = Then(G[k], F[k])
    BY <2>2, ThenAssociates DEF Backwards
  <2>4. Then(G[k+1], Then(E[k+1], V[k])) = Then(G[k], V[k])
    BY <2>2, ThenAssociates DEF Backwards
  <2>5. Then(G[k+1], V[k+1]) = Then(G[k], V[k]) \union Then(G[k+1], U[k+1])
    <3>1. V[k+1] = Then(E[k+1], V[k]) \union U[k+1]
      BY DEF Forwards
    <3> QED BY <2>4, <3>1, ThenUnion
  <2>6. F[k+1] = Then(E[k+1], F[k])
    BY DEF Forwards
  <2>7. W[k] = W[k+1] \union Then(G[k+1], U[k+1])
    BY DEF Backwards
  <2> QED BY <1>4, <2>1, <2>3, <2>5, <2>6, <2>7
<1> HIDE DEF T
<1>5. 0 .. n \subseteq T
  BY <1>3, <1>4, IntervalInduction
<1>6. Then(G[n], F[n]) = G[0] /\ W[n] \union Then(G[n], V[n]) = W[0]
  BY <1>5 DEF T
<1> QED BY <1>6 DEF Backwards

-----------------------------------------------------------------------------
(***************************************************************************)
(* Products of matrices, as the loops make their terms.  The gradient of a *)
(* factor is again a product, of the gradient and the other factor: for x  *)
(* W^T here, for the products of attention below.                          *)
(***************************************************************************)

\* The terms of a product, as the loops make them.
LoopTerm(B, M, K, N, t) ==
  \E i \in 0 .. B-1, m \in 0 .. M-1, n \in 0 .. N-1, k \in 0 .. K-1 :
    t = <<i * M * N + (n + m * N), i * M * K + (k + m * K), i * K * N + (n + k * N)>>

LEMMA LoopTerms ==
  ASSUME NEW a, NEW b, NEW B, NEW M, NEW K, NEW N, NEW t,
         B = (IF Len(a) = 3 THEN a[1] ELSE 1), M = a[Len(a) - 1], K = a[Len(a)], N = b[Len(b)]
  PROVE  t \in matmul(a, b) <=> LoopTerm(B, M, K, N, t)
BY DEF matmul, LoopTerm

\* The terms of the product of a matrix of M rows and K columns and one of N
\* columns, and of a batch of B such products.
Term(M, K, N, t) ==
  \E m \in 0 .. M-1, n \in 0 .. N-1, k \in 0 .. K-1 : t = <<m * N + n, m * K + k, k * N + n>>

BatchTerm(B, M, K, N, t) ==
  \E i \in 0 .. B-1, m \in 0 .. M-1, n \in 0 .. N-1, k \in 0 .. K-1 :
    t = <<i * (M * N) + (m * N + n), i * (M * K) + (m * K + k), i * (K * N) + (k * N + n)>>

\* The two ways to number a term agree.
LEMMA Terms ==
  ASSUME NEW M \in Nat, NEW K \in Nat, NEW N \in Nat, NEW t
  PROVE  t \in matmul(<<M, K>>, <<K, N>>) <=> Term(M, K, N, t)
<1> DEFINE here(i, m, n, k) == <<i * M * N + (n + m * N), i * M * K + (k + m * K), i * K * N + (n + k * N)>>
           there(m, n, k) == <<m * N + n, m * K + k, k * N + n>>
<1>1. t \in matmul(<<M, K>>, <<K, N>>) <=> LoopTerm(1, M, K, N, t)
  <2> DEFINE a == <<M, K>>
             b == <<K, N>>
  <2>1. Len(a) = 2 /\ Len(b) = 2 /\ a[2-1] = M /\ a[2] = K /\ b[2] = N
    OBVIOUS
  <2> HIDE DEF a, b
  <2>2. 1 = (IF Len(a) = 3 THEN a[1] ELSE 1) /\ M = a[Len(a) - 1] /\ K = a[Len(a)] /\ N = b[Len(b)]
    BY <2>1
  <2>3. t \in matmul(a, b) <=> LoopTerm(1, M, K, N, t)
    BY <2>2, LoopTerms
  <2> QED BY <2>3 DEF a, b
<1>2. ASSUME NEW m \in 0 .. M-1, NEW n \in 0 .. N-1, NEW k \in 0 .. K-1
      PROVE  here(0, m, n, k) = there(m, n, k)
  <2>1. /\ 0 * M * N = 0 /\ 0 * M * K = 0 /\ 0 * K * N = 0
        /\ m * N \in Nat /\ m * K \in Nat /\ k * N \in Nat
    BY ProductNat
  <2>2. /\ 0 * M * N + (n + m * N) = m * N + n
        /\ 0 * M * K + (k + m * K) = m * K + k
        /\ 0 * K * N + (n + k * N) = k * N + n
    BY <2>1
  <2> QED BY <2>2
<1>3. 0 .. 1-1 = {0}
  OBVIOUS
<1>4. LoopTerm(1, M, K, N, t) <=>
        \E i \in 0 .. 1-1, m \in 0 .. M-1, n \in 0 .. N-1, k \in 0 .. K-1 : t = here(i, m, n, k)
  BY DEF LoopTerm
<1>5. Term(M, K, N, t) <=> \E m \in 0 .. M-1, n \in 0 .. N-1, k \in 0 .. K-1 : t = there(m, n, k)
  BY DEF Term
<1> HIDE DEF here, there
<1> QED BY <1>1, <1>2, <1>3, <1>4, <1>5

LEMMA BatchTerms ==
  ASSUME NEW B \in Nat, NEW M \in Nat, NEW K \in Nat, NEW N \in Nat, NEW t
  PROVE  t \in matmul(<<B, M, K>>, <<B, K, N>>) <=> BatchTerm(B, M, K, N, t)
<1> DEFINE here(i, m, n, k) == <<i * M * N + (n + m * N), i * M * K + (k + m * K), i * K * N + (n + k * N)>>
           there(i, m, n, k) == <<i * (M * N) + (m * N + n), i * (M * K) + (m * K + k), i * (K * N) + (k * N + n)>>
<1>1. t \in matmul(<<B, M, K>>, <<B, K, N>>) <=> LoopTerm(B, M, K, N, t)
  <2> DEFINE a == <<B, M, K>>
             b == <<B, K, N>>
  <2>1. Len(a) = 3 /\ Len(b) = 3 /\ a[1] = B /\ a[3-1] = M /\ a[3] = K /\ b[3] = N
    OBVIOUS
  <2> HIDE DEF a, b
  <2>2. B = (IF Len(a) = 3 THEN a[1] ELSE 1) /\ M = a[Len(a) - 1] /\ K = a[Len(a)] /\ N = b[Len(b)]
    BY <2>1
  <2>3. t \in matmul(a, b) <=> LoopTerm(B, M, K, N, t)
    BY <2>2, LoopTerms
  <2> QED BY <2>3 DEF a, b
<1>2. ASSUME NEW i \in 0 .. B-1, NEW m \in 0 .. M-1, NEW n \in 0 .. N-1, NEW k \in 0 .. K-1
      PROVE  here(i, m, n, k) = there(i, m, n, k)
  <2>1. /\ i * M * N = i * (M * N) /\ i * M * K = i * (M * K) /\ i * K * N = i * (K * N)
    OBVIOUS
  <2>2. /\ m * N \in Nat /\ m * K \in Nat /\ k * N \in Nat
        /\ M * N \in Nat /\ M * K \in Nat /\ K * N \in Nat
    BY ProductNat
  <2>3. i * (M * N) \in Nat /\ i * (M * K) \in Nat /\ i * (K * N) \in Nat
    BY <2>2, ProductNat
  <2>4. /\ i * M * N + (n + m * N) = i * (M * N) + (m * N + n)
        /\ i * M * K + (k + m * K) = i * (M * K) + (m * K + k)
        /\ i * K * N + (n + k * N) = i * (K * N) + (k * N + n)
    BY <2>1, <2>2, <2>3
  <2> QED BY <2>4
<1>3. LoopTerm(B, M, K, N, t) <=>
        \E i \in 0 .. B-1, m \in 0 .. M-1, n \in 0 .. N-1, k \in 0 .. K-1 : t = here(i, m, n, k)
  BY DEF LoopTerm
<1>4. BatchTerm(B, M, K, N, t) <=>
        \E i \in 0 .. B-1, m \in 0 .. M-1, n \in 0 .. N-1, k \in 0 .. K-1 : t = there(i, m, n, k)
  BY DEF BatchTerm
<1> HIDE DEF here, there
<1> QED BY <1>1, <1>2, <1>3, <1>4

\* The terms of x W^T for M rows, from K columns to N.
DenseTerms(M, K, N) ==
  LET Wt == transpose(<<N, K>>, 1, 2)
  IN  {<<t[1], t[2], Wt[t[3]]>> : t \in matmul(<<M, K>>, <<K, N>>)}

DenseTerm(M, K, N, t) ==
  \E m \in 0 .. M-1, n \in 0 .. N-1, k \in 0 .. K-1 : t = <<m * N + n, m * K + k, n * K + k>>

LEMMA DenseTermIs ==
  ASSUME NEW M \in Nat, NEW K \in Nat, NEW N \in Nat, NEW t
  PROVE  t \in DenseTerms(M, K, N) <=> DenseTerm(M, K, N, t)
<1> DEFINE Wt == transpose(<<N, K>>, 1, 2)
           Of(u) == <<u[1], u[2], Wt[u[3]]>>
<1>1. t \in DenseTerms(M, K, N) <=> \E u \in matmul(<<M, K>>, <<K, N>>) : t = Of(u)
  BY DEF DenseTerms
<1>2. ASSUME NEW m \in 0 .. M-1, NEW n \in 0 .. N-1, NEW k \in 0 .. K-1
      PROVE  Of(<<m * N + n, m * K + k, k * N + n>>) = <<m * N + n, m * K + k, n * K + k>>
  <2>1. Wt[k * N + n] = n * K + k
    BY TransposeTwo
  <2> QED BY <2>1
<1> HIDE DEF Wt, Of
<1>3. ASSUME t \in DenseTerms(M, K, N)
      PROVE  DenseTerm(M, K, N, t)
  <2>1. PICK u : Term(M, K, N, u) /\ t = Of(u)
    BY <1>1, <1>3, Terms
  <2>2. PICK m \in 0 .. M-1, n \in 0 .. N-1, k \in 0 .. K-1 : u = <<m * N + n, m * K + k, k * N + n>>
    BY <2>1 DEF Term
  <2> QED BY <1>2, <2>1, <2>2 DEF DenseTerm
<1>4. ASSUME NEW m \in 0 .. M-1, NEW n \in 0 .. N-1, NEW k \in 0 .. K-1,
             t = <<m * N + n, m * K + k, n * K + k>>
      PROVE  t \in DenseTerms(M, K, N)
  <2> DEFINE u == <<m * N + n, m * K + k, k * N + n>>
  <2>1. t = Of(u)
    BY <1>2, <1>4
  <2>2. Term(M, K, N, u)
    BY DEF Term
  <2> HIDE DEF u
  <2>3. u \in matmul(<<M, K>>, <<K, N>>)
    BY <2>2, Terms
  <2> QED BY <1>1, <2>1, <2>3
<1> QED BY <1>3, <1>4 DEF DenseTerm

\* A linear map the other way.
BackAlong(name, T, e) == \E t \in T : e = <<t[2], t[1], <<<<name, t[3]>>>>>>

\* backward leads along the terms of forward the other way, by the same factors.
LEMMA FlipLinear ==
  ASSUME NEW name, NEW T, NEW e
  PROVE  e \in Flip(Linear(name, T)) <=> BackAlong(name, T, e)
<1> DEFINE Edge(t) == <<t[1], t[2], <<<<name, t[3]>>>>>>
           Turned(r) == <<r[2], r[1], r[3]>>
           BackEdge(t) == <<t[2], t[1], <<<<name, t[3]>>>>>>
<1>1. \A r : r \in Linear(name, T) <=> \E t \in T : r = Edge(t)
  BY DEF Linear
<1>2. e \in Flip(Linear(name, T)) <=> \E r \in Linear(name, T) : e = Turned(r)
  BY DEF Flip
<1>3. ASSUME NEW t PROVE Turned(Edge(t)) = BackEdge(t)
  OBVIOUS
<1>4. BackAlong(name, T, e) <=> \E t \in T : e = BackEdge(t)
  BY DEF BackAlong
<1> HIDE DEF Edge, Turned, BackEdge
<1> QED BY <1>1, <1>2, <1>3, <1>4

\* The gradient of the input: g W.
LEMMA DenseEdges ==
  ASSUME NEW M \in Nat, NEW K \in Nat, NEW N \in Nat, NEW name
  PROVE  Flip(Linear(name, matmul(<<M, N>>, <<N, K>>))) = Linear(name, DenseTerms(M, K, N))
<1> DEFINE Edge(t) == <<t[1], t[2], <<<<name, t[3]>>>>>>
           BackEdge(t) == <<t[2], t[1], <<<<name, t[3]>>>>>>
<1>0. \A t : Edge(t)[2] = t[2] /\ Edge(t)[1] = t[1] /\ Edge(t)[3] = <<<<name, t[3]>>>>
  OBVIOUS
<1>1. \A e : e \in Linear(name, DenseTerms(M, K, N)) <=> \E t \in DenseTerms(M, K, N) : e = Edge(t)
  BY DEF Linear
<1>2. \A e : e \in Flip(Linear(name, matmul(<<M, N>>, <<N, K>>))) <=> \E t \in matmul(<<M, N>>, <<N, K>>) : e = BackEdge(t)
  <2>1. \A e : e \in Flip(Linear(name, matmul(<<M, N>>, <<N, K>>))) <=> BackAlong(name, matmul(<<M, N>>, <<N, K>>), e)
    BY FlipLinear
  <2> QED BY <2>1 DEF BackAlong
<1>3. ASSUME NEW m \in 0 .. M-1, NEW n \in 0 .. N-1, NEW k \in 0 .. K-1
      PROVE  Edge(<<m * N + n, m * K + k, n * K + k>>) = BackEdge(<<m * K + k, m * N + n, n * K + k>>)
  OBVIOUS
<1> HIDE DEF Edge, BackEdge
<1>4. ASSUME NEW e, e \in Linear(name, DenseTerms(M, K, N))
      PROVE  e \in Flip(Linear(name, matmul(<<M, N>>, <<N, K>>)))
  <2>1. PICK t \in DenseTerms(M, K, N) : e = Edge(t)
    BY <1>1, <1>4
  <2>0. DenseTerm(M, K, N, t)
    BY DenseTermIs
  <2>2. PICK m \in 0 .. M-1, n \in 0 .. N-1, k \in 0 .. K-1 : t = <<m * N + n, m * K + k, n * K + k>>
    BY <2>0 DEF DenseTerm
  <2> DEFINE u == <<m * K + k, m * N + n, n * K + k>>
  <2>3. Term(M, N, K, u)
    BY DEF Term
  <2>4. e = BackEdge(u)
    BY <1>3, <2>1, <2>2
  <2> HIDE DEF u
  <2>5. u \in matmul(<<M, N>>, <<N, K>>)
    BY <2>3, Terms
  <2> QED BY <1>2, <2>4, <2>5
<1>5. ASSUME NEW e, e \in Flip(Linear(name, matmul(<<M, N>>, <<N, K>>)))
      PROVE  e \in Linear(name, DenseTerms(M, K, N))
  <2>1. PICK u \in matmul(<<M, N>>, <<N, K>>) : e = BackEdge(u)
    BY <1>2, <1>5
  <2>2. Term(M, N, K, u)
    BY Terms
  <2>3. PICK m \in 0 .. M-1, k \in 0 .. K-1, n \in 0 .. N-1 : u = <<m * K + k, m * N + n, n * K + k>>
    BY <2>2 DEF Term
  <2> DEFINE t == <<m * N + n, m * K + k, n * K + k>>
  <2>4. DenseTerm(M, K, N, t)
    BY DEF DenseTerm
  <2>5. e = Edge(t)
    BY <1>3, <2>1, <2>3
  <2> HIDE DEF t
  <2>6. t \in DenseTerms(M, K, N)
    BY <2>4, DenseTermIs
  <2> QED BY <1>1, <2>5, <2>6
<1> QED BY <1>4, <1>5

LEMMA AppendTwo ==
  ASSUME NEW a, NEW b, NEW v
  PROVE  Append(<<a, b>>, v) = <<a, b, v>>
<1> DEFINE X == {a, b, v}
           s == <<a, b>>
           t == Append(s, v)
<1>1. s \in Seq(X) /\ v \in X
  OBVIOUS
<1>2. Len(s) = 2 /\ s[1] = a /\ s[2] = b
  OBVIOUS
<1> HIDE DEF X, s
<1>3. /\ t \in Seq(X) /\ Len(t) = Len(s) + 1
      /\ t[Len(s) + 1] = v
      /\ \A i \in 1 .. Len(s) : t[i] = s[i]
  BY <1>1, AppendProperties
<1> HIDE DEF t
<1>4. Len(s) + 1 = 3 /\ 1 \in 1 .. Len(s) /\ 2 \in 1 .. Len(s)
  BY <1>2
<1>5. t \in Seq(X) /\ Len(t) = 3 /\ t[1] = a /\ t[2] = b /\ t[3] = v
  BY <1>2, <1>3, <1>4, Zenon
<1>6. t = <<a, b, v>>
  BY <1>5
<1> QED BY <1>6 DEF s, t

\* The gradient of the weights: g^T x.
LEMMA DenseUses ==
  ASSUME NEW M \in Nat, NEW K \in Nat, NEW N \in Nat, NEW name, NEW call
  PROVE  LET Gt == transpose(<<M, N>>, 1, 2)
         IN  {<<Gt[t[2]], <<name, t[1]>>, <<<<"x", call, t[3]>>>>>> : t \in matmul(<<N, M>>, <<M, K>>)}
               = LinearUses(name, <<"x", call>>, DenseTerms(M, K, N))
<1> DEFINE Gt == transpose(<<M, N>>, 1, 2)
           Use(t) == <<t[1], <<name, t[3]>>, <<Append(<<"x", call>>, t[2])>>>>
           BackEdge(t) == <<Gt[t[2]], <<name, t[1]>>, <<<<"x", call, t[3]>>>>>>
           forth == LinearUses(name, <<"x", call>>, DenseTerms(M, K, N))
           back == {BackEdge(t) : t \in matmul(<<N, M>>, <<M, K>>)}
<1>1. \A e : e \in forth <=> \E t \in DenseTerms(M, K, N) : e = Use(t)
  BY DEF LinearUses
<1>2. \A e : e \in back <=> \E t \in matmul(<<N, M>>, <<M, K>>) : e = BackEdge(t)
  OBVIOUS
<1>3. ASSUME NEW m \in 0 .. M-1, NEW n \in 0 .. N-1, NEW k \in 0 .. K-1
      PROVE  Use(<<m * N + n, m * K + k, n * K + k>>) = BackEdge(<<n * K + k, n * M + m, m * K + k>>)
  <2>1. Gt[n * M + m] = m * N + n
    BY TransposeTwo
  <2>2. Append(<<"x", call>>, m * K + k) = <<"x", call, m * K + k>>
    BY AppendTwo
  <2> HIDE DEF Gt
  <2> QED BY <2>1, <2>2
<1> HIDE DEF Use, BackEdge, forth, back
<1>4. ASSUME NEW e, e \in forth PROVE e \in back
  <2>1. PICK t \in DenseTerms(M, K, N) : e = Use(t)
    BY <1>1, <1>4
  <2>0. DenseTerm(M, K, N, t)
    BY DenseTermIs
  <2>2. PICK m \in 0 .. M-1, n \in 0 .. N-1, k \in 0 .. K-1 : t = <<m * N + n, m * K + k, n * K + k>>
    BY <2>0 DEF DenseTerm
  <2> DEFINE u == <<n * K + k, n * M + m, m * K + k>>
  <2>3. Term(N, M, K, u)
    BY DEF Term
  <2>4. e = BackEdge(u)
    BY <1>3, <2>1, <2>2
  <2> HIDE DEF u
  <2>5. u \in matmul(<<N, M>>, <<M, K>>)
    BY <2>3, Terms
  <2> QED BY <1>2, <2>4, <2>5
<1>5. ASSUME NEW e, e \in back PROVE e \in forth
  <2>1. PICK u \in matmul(<<N, M>>, <<M, K>>) : e = BackEdge(u)
    BY <1>2, <1>5
  <2>2. Term(N, M, K, u)
    BY Terms
  <2>3. PICK n \in 0 .. N-1, k \in 0 .. K-1, m \in 0 .. M-1 : u = <<n * K + k, n * M + m, m * K + k>>
    BY <2>2 DEF Term
  <2> DEFINE t == <<m * N + n, m * K + k, n * K + k>>
  <2>4. DenseTerm(M, K, N, t)
    BY DEF DenseTerm
  <2>5. e = Use(t)
    BY <1>3, <2>1, <2>3
  <2> HIDE DEF t
  <2>6. t \in DenseTerms(M, K, N)
    BY <2>4, DenseTermIs
  <2> QED BY <1>1, <2>5, <2>6
<1>6. back = forth
  BY <1>4, <1>5
<1> QED BY <1>6 DEF back, forth, BackEdge, Gt

-----------------------------------------------------------------------------
(***************************************************************************)
(* What the layers return are edges with factors.                          *)
(***************************************************************************)

\* An edge with the factors p.
LEMMA EdgeIs ==
  ASSUME NEW a, NEW b, NEW p, IsList(p), NEW r, r = <<a, b, p>>
  PROVE  r = <<r[1], r[2], r[3]>> /\ IsList(r[3])
<1>1. r[1] = a /\ r[2] = b /\ r[3] = p
  OBVIOUS
<1> QED BY <1>1

\* Each of the sets of edges that the kernels make.
LEMMA LinearIsRel ==
  ASSUME NEW name, NEW T
  PROVE  IsRel(Linear(name, T))
<1> SUFFICES ASSUME NEW r \in Linear(name, T)
             PROVE  r = <<r[1], r[2], r[3]>> /\ IsList(r[3])
  BY DEF IsRel
<1>1. PICK t \in T : r = <<t[1], t[2], <<<<name, t[3]>>>>>>
  BY DEF Linear
<1>2. IsList(<<<<name, t[3]>>>>)
  BY OneFactor
<1> QED BY <1>1, <1>2, EdgeIs

LEMMA SavedIsRel ==
  ASSUME NEW value, NEW T
  PROVE  IsRel(AlongSaved(value, T))
<1> SUFFICES ASSUME NEW r \in AlongSaved(value, T)
             PROVE  r = <<r[1], r[2], r[3]>> /\ IsList(r[3])
  BY DEF IsRel
<1>1. PICK t \in T : r = <<t[1], t[2], <<Append(value, t[3])>>>>
  BY DEF AlongSaved
<1>2. IsList(<<Append(value, t[3])>>)
  BY OneFactor
<1> QED BY <1>1, <1>2, EdgeIs

LEMMA UsesIsRel ==
  ASSUME NEW name, NEW saved, NEW T
  PROVE  IsRel(LinearUses(name, saved, T))
<1> SUFFICES ASSUME NEW r \in LinearUses(name, saved, T)
             PROVE  r = <<r[1], r[2], r[3]>> /\ IsList(r[3])
  BY DEF IsRel
<1>1. PICK t \in T : r = <<t[1], <<name, t[3]>>, <<Append(saved, t[2])>>>>
  BY DEF LinearUses
<1>2. IsList(<<Append(saved, t[2])>>)
  BY OneFactor
<1> QED BY <1>1, <1>2, EdgeIs

LEMMA BiasIsRel ==
  ASSUME NEW name, NEW rows, NEW cols
  PROVE  IsRel(Bias(name, rows, cols))
<1> SUFFICES ASSUME NEW r \in Bias(name, rows, cols)
             PROVE  r = <<r[1], r[2], r[3]>> /\ IsList(r[3])
  BY DEF IsRel
<1>1. PICK i \in 0..(rows - 1), c \in 0..(cols - 1) : r = <<i * cols + c, <<name, c>>, <<>>>>
  BY DEF Bias
<1> QED BY <1>1, NoFactors, EdgeIs

LEMMA RowsIsRel ==
  ASSUME NEW rows, NEW cols, NEW call
  PROVE  IsRel(Rows(rows, cols, call))
<1> SUFFICES ASSUME NEW r \in Rows(rows, cols, call)
             PROVE  r = <<r[1], r[2], r[3]>> /\ IsList(r[3])
  BY DEF IsRel
<1>1. PICK i \in 0..(rows - 1), c \in 0..(cols - 1), d \in 0..(cols - 1) :
        r = <<i * cols + c, i * cols + d, <<<<"row", call, i>>>>>>
  BY DEF Rows
<1>2. IsList(<<<<"row", call, i>>>>)
  BY OneFactor
<1> QED BY <1>1, <1>2, EdgeIs

LEMMA ColumnsIsRel ==
  ASSUME NEW rows, NEW cols, NEW call
  PROVE  IsRel(Columns(rows, cols, call))
<1> SUFFICES ASSUME NEW r \in Columns(rows, cols, call)
             PROVE  r = <<r[1], r[2], r[3]>> /\ IsList(r[3])
  BY DEF IsRel
<1>1. PICK i \in 0..(rows - 1), q \in 0..(rows - 1), c \in 0..(cols - 1) :
        r = <<i * cols + c, q * cols + c, <<<<"column", call, c>>>>>>
  BY DEF Columns
<1>2. IsList(<<<<"column", call, c>>>>)
  BY OneFactor
<1> QED BY <1>1, <1>2, EdgeIs

LEMMA ScaledIsRel ==
  ASSUME NEW R, IsRel(R), NEW cols
  PROVE  IsRel(Scaled(R, cols))
<1> SUFFICES ASSUME NEW r \in Scaled(R, cols)
             PROVE  r = <<r[1], r[2], r[3]>> /\ IsList(r[3])
  BY DEF IsRel
<1>1. PICK e \in R : r = <<e[1], e[2], <<<<"gamma", e[1] % cols>>>> \o e[3]>>
  BY DEF Scaled
<1> DEFINE p == <<<<"gamma", e[1] % cols>>>>
           q == e[3]
<1>2. IsList(p) /\ IsList(q)
  BY OneFactor DEF IsRel
<1>4. r = <<e[1], e[2], p \o q>>
  BY <1>1
<1> HIDE DEF p, q
<1>3. IsList(p \o q)
  BY <1>2, FactorsJoin
<1> QED BY <1>3, <1>4, EdgeIs

LEMMA ScaleUsesIsRel ==
  ASSUME NEW rows, NEW cols, NEW call
  PROVE  IsRel(ScaleUses(rows, cols, call))
<1> DEFINE gammas == {<<i, <<"gamma", i % cols>>, <<<<"xNorm", call, i>>>>>> : i \in 0..(rows * cols - 1)}
<1>1. ASSUME NEW r \in gammas
      PROVE  r = <<r[1], r[2], r[3]>> /\ IsList(r[3])
  <2>1. PICK i \in 0..(rows * cols - 1) : r = <<i, <<"gamma", i % cols>>, <<<<"xNorm", call, i>>>>>>
    OBVIOUS
  <2>2. IsList(<<<<"xNorm", call, i>>>>)
    BY OneFactor
  <2> QED BY <2>1, <2>2, EdgeIs
<1>2. ScaleUses(rows, cols, call) = gammas \union Bias("beta", rows, cols)
  BY DEF ScaleUses
<1> HIDE DEF gammas
<1>3. IsRel(gammas)
  BY <1>1 DEF IsRel
<1> QED BY <1>2, <1>3, BiasIsRel, RelUnion

LEMMA ConvBiasIsRel ==
  ASSUME NEW y
  PROVE  IsRel(ConvBias(y))
<1> SUFFICES ASSUME NEW r \in ConvBias(y)
             PROVE  r = <<r[1], r[2], r[3]>> /\ IsList(r[3])
  BY DEF IsRel
<1> DEFINE Places == (0..(y[1]-1)) \X (0..(y[2]-1)) \X (0..(y[3]-1)) \X (0..(y[4]-1))
           At4(t) == t[1] * (y[2]*y[3]*y[4]) + t[2] * (y[3]*y[4]) + t[3] * y[4] + t[4]
<1>1. ConvBias(y) = {<<At4(t), <<"bias", t[2]>>, <<>>>> : t \in Places}
  BY DEF ConvBias
<1> HIDE DEF Places, At4
<1>2. PICK t \in Places : r = <<At4(t), <<"bias", t[2]>>, <<>>>>
  BY <1>1
<1> QED BY <1>2, NoFactors, EdgeIs

LEMMA LookupsIsRel ==
  ASSUME NEW L, NEW positions, NEW tokens
  PROVE  IsRel(Lookups(L, positions, tokens))
<1> SUFFICES ASSUME NEW r \in Lookups(L, positions, tokens)
             PROVE  r = <<r[1], r[2], r[3]>> /\ IsList(r[3])
  BY DEF IsRel
<1>1. PICK p \in positions, d \in 0..(L.dim - 1) :
        r = <<p * L.dim + d, <<"weight", tokens[p] * L.dim + d>>, <<>>>>
  BY DEF Lookups
<1> QED BY <1>1, NoFactors, EdgeIs

LEMMA KeptIsRel ==
  ASSUME NEW P, NEW call
  PROVE  IsRel(Kept(P, call))
<1> SUFFICES ASSUME NEW r \in Kept(P, call)
             PROVE  r = <<r[1], r[2], r[3]>> /\ IsList(r[3])
  BY DEF IsRel
<1>1. PICK i \in P : r = <<i, i, <<<<"kept", call>>>>>>
  BY DEF Kept
<1>2. IsList(<<<<"kept", call>>>>)
  BY OneFactor
<1> QED BY <1>1, <1>2, EdgeIs

LEMMA ElementsIsRel ==
  ASSUME NEW s, NEW call
  PROVE  IsRel(ElementByElement(s, call))
<1> SUFFICES ASSUME NEW r \in ElementByElement(s, call)
             PROVE  r = <<r[1], r[2], r[3]>> /\ IsList(r[3])
  BY DEF IsRel
<1>1. PICK i \in Offsets(s) : r = <<i, i, <<<<"at", call, i>>>>>>
  BY DEF ElementByElement
<1>2. IsList(<<<<"at", call, i>>>>)
  BY OneFactor
<1> QED BY <1>1, <1>2, EdgeIs

LEMMA NothingIsRel == IsRel({})
BY DEF IsRel

-----------------------------------------------------------------------------
(***************************************************************************)
(* The layers, one kind after the other: with what forward saved, backward *)
(* makes of a gradient what forward's edges carry back, and its parameter  *)
(* gradients are along forward's uses.                                     *)
(***************************************************************************)

\* What backward does with the result r of a forward pass is what forward did.
Adjoint(L, r) ==
  /\ LayerBackward(L, r.layer, r.shape) = [edges |-> r.edges, uses |-> r.uses]
  /\ IsRel(r.edges) /\ IsRel(r.uses)

\* An edge comes from an element of the input.
Reads(r, v) == \A e \in r.edges : e[2] \in Offsets(v)

\* Forward saved what it did, and returned m.
Remembered(m, l, call, s, pick) ==
  /\ IsLayer(m) /\ m.dims = l.dims /\ m.training = l.training
  /\ m.ctx = [call |-> call, shape |-> s, pick |-> pick]
  /\ m.ctx # <<>> /\ m.ctx.call = call /\ m.ctx.shape = s /\ m.ctx.pick = pick

\* The context is there, and is what was saved.
LEMMA ContextIs ==
  ASSUME NEW call, NEW s, NEW pick, NEW c, c = [call |-> call, shape |-> s, pick |-> pick]
  PROVE  c # <<>> /\ c.call = call /\ c.shape = s /\ c.pick = pick
<1>1. "call" \in DOMAIN c /\ "call" \notin DOMAIN <<>>
  OBVIOUS
<1>2. c # <<>>
  BY <1>1
<1> QED BY <1>2

LEMMA SavesContext ==
  ASSUME NEW l, IsLayer(l), NEW call, NEW s, NEW pick
  PROVE  Remembered(Saves(l, call, s, pick), l, call, s, pick)
<1> DEFINE m == Saves(l, call, s, pick)
           c == [call |-> call, shape |-> s, pick |-> pick]
<1>1. m = [built |-> l.built, dims |-> l.dims, inits |-> l.inits, training |-> l.training,
           ctx |-> c, running |-> l.running]
  BY DEF IsLayer, Saves
<1>2. c # <<>> /\ c.call = call /\ c.shape = s /\ c.pick = pick
  BY ContextIs
<1> HIDE DEF m, c
<1>3. IsLayer(m) /\ m.dims = l.dims /\ m.training = l.training /\ m.ctx = c
  BY <1>1 DEF IsLayer
<1>4. m.ctx # <<>> /\ m.ctx.call = call /\ m.ctx.shape = s /\ m.ctx.pick = pick
  BY <1>2, <1>3, Zenon
<1> QED BY <1>3, <1>4 DEF Remembered, m, c

LEMMA ComputedHas ==
  ASSUME NEW m, NEW s, NEW e, NEW q
  PROVE  LET r == Computed(m, s, e, q)
         IN  r.ok /\ r.layer = m /\ r.shape = s /\ r.edges = e /\ r.uses = q
BY DEF Computed

\* Dense: x W^T + b.
LEMMA DenseAdjoint ==
  ASSUME NEW L, NEW l, IsLayer(l), L.kind = "Dense", NEW call, NEW tokens, NEW keep,
         NEW M \in Nat, NEW K \in Nat, L.out \in Nat, l.dims = <<K>>
  PROVE  LET v == <<M, K>>
             r == LayerForward(L, l, call, v, tokens, keep)
         IN  Adjoint(L, r) /\ Reads(r, v) /\ r.shape = <<M, L.out>> /\ r.layer.training = l.training
<1> DEFINE v == <<M, K>>
           N == L.out
           m == Saves(l, call, v, {})
           r == LayerForward(L, l, call, v, tokens, keep)
           E == Linear("weights", DenseTerms(M, K, N))
           U == LinearUses("weights", <<"x", call>>, DenseTerms(M, K, N)) \union Bias("bias", M, N)
<1>0. l.dims[1] = K /\ v[1] = M /\ N \in Nat /\ Swap(<<N, K>>, 1, 2) = <<K, N>> /\ Swap(<<M, N>>, 1, 2) = <<N, M>>
  BY DEF Swap
<1>1. r = Computed(m, <<M, N>>, E, U)
  <2>1. LayerForward(L, l, call, v, tokens, keep) = DenseForward(L, l, call, v)
    BY DEF LayerForward
  <2>2. {<<t[1], t[2], transpose(<<N, K>>, 1, 2)[t[3]]>> : t \in matmul(v, <<K, N>>)} = DenseTerms(M, K, N)
    BY DEF DenseTerms
  <2> HIDE DEF v
  <2>3. DenseForward(L, l, call, v) = Computed(m, <<M, N>>, E, U)
    BY <1>0, <2>2 DEF DenseForward
  <2> QED BY <2>1, <2>3
<1>2. r.layer = m /\ r.shape = <<M, N>> /\ r.edges = E /\ r.uses = U
  BY <1>1, ComputedHas
<1>3. Remembered(m, l, call, v, {})
  BY SavesContext
<1>4. LayerBackward(L, m, <<M, N>>) = [edges |-> E, uses |-> U]
  <2> DEFINE g == <<M, N>>
             Gt == transpose(g, 1, 2)
  <2>1. LayerBackward(L, m, g) = DenseBackward(L, m, g)
    BY DEF LayerBackward
  <2>2. m.dims[1] = K /\ m.ctx.shape = v /\ m.ctx.call = call /\ m.ctx.shape[1] = M /\ g[1] = M
    BY <1>0, <1>3 DEF Remembered
  <2>3. Flip(Linear("weights", matmul(g, <<N, K>>))) = E
    BY <1>0, DenseEdges
  <2>4. {<<Gt[t[2]], <<"weights", t[1]>>, <<<<"x", call, t[3]>>>>>> : t \in matmul(<<N, M>>, v)}
          = LinearUses("weights", <<"x", call>>, DenseTerms(M, K, N))
    BY <1>0, DenseUses
  <2> HIDE DEF m, v, g, E
  <2>5. DenseBackward(L, m, g) = [edges |-> E, uses |-> U]
    <3>1. Swap(g, 1, 2) = <<N, M>> /\ <<g[1], L.out>> = g
      BY <1>0, <2>2 DEF g
    <3> QED BY <2>2, <2>3, <2>4, <3>1 DEF DenseBackward
  <2> QED BY <2>1, <2>5 DEF g
<1>5. IsRel(E) /\ IsRel(U)
  BY LinearIsRel, UsesIsRel, BiasIsRel, RelUnion
<1>6. ASSUME NEW e \in E PROVE e[2] \in Offsets(v)
  <2>1. PICK t \in DenseTerms(M, K, N) : e = <<t[1], t[2], <<<<"weights", t[3]>>>>>>
    BY DEF Linear
  <2>2. DenseTerm(M, K, N, t)
    BY <1>0, DenseTermIs
  <2>3. PICK i \in 0 .. M-1, k \in 0 .. K-1 : t[2] = i * K + k
    BY <2>2 DEF DenseTerm
  <2>4. i * K + k \in 0 .. M*K - 1
    BY DigitBounds
  <2>5. Offsets(v) = 0 .. M*K - 1
    BY OffsetsTwo
  <2> HIDE DEF v
  <2> QED BY <2>1, <2>3, <2>4, <2>5
<1>7. m.training = l.training
  BY <1>3 DEF Remembered
<1> HIDE DEF v, m, E, U, r
<1>8. Adjoint(L, r)
  BY <1>2, <1>4, <1>5 DEF Adjoint
<1>9. Reads(r, v)
  BY <1>2, <1>6 DEF Reads
<1> QED BY <1>2, <1>7, <1>8, <1>9 DEF r, v

\* The columns of a matrix lie in it.
LEMMA RowsRead ==
  ASSUME NEW M \in Nat, NEW K \in Nat, NEW call
  PROVE  \A e \in Rows(M, K, call) : e[2] \in Offsets(<<M, K>>)
<1> SUFFICES ASSUME NEW e \in Rows(M, K, call) PROVE e[2] \in Offsets(<<M, K>>)
  OBVIOUS
<1>1. PICK r \in 0..(M - 1), c \in 0..(K - 1), d \in 0..(K - 1) :
        e = <<r * K + c, r * K + d, <<<<"row", call, r>>>>>>
  BY DEF Rows
<1>2. r * K + d \in 0 .. M*K - 1
  BY DigitBounds
<1> QED BY <1>1, <1>2, OffsetsTwo

LEMMA ColumnsRead ==
  ASSUME NEW M \in Nat, NEW K \in Nat, NEW call
  PROVE  \A e \in Columns(M, K, call) : e[2] \in Offsets(<<M, K>>)
<1> SUFFICES ASSUME NEW e \in Columns(M, K, call) PROVE e[2] \in Offsets(<<M, K>>)
  OBVIOUS
<1>1. PICK r \in 0..(M - 1), q \in 0..(M - 1), c \in 0..(K - 1) :
        e = <<r * K + c, q * K + c, <<<<"column", call, c>>>>>>
  BY DEF Columns
<1>2. q * K + c \in 0 .. M*K - 1
  BY DigitBounds
<1> QED BY <1>1, <1>2, OffsetsTwo

LEMMA ScaledReads ==
  ASSUME NEW R, NEW P, \A e \in R : e[2] \in P, NEW cols
  PROVE  \A e \in Scaled(R, cols) : e[2] \in P
<1> SUFFICES ASSUME NEW e \in Scaled(R, cols) PROVE e[2] \in P
  OBVIOUS
<1>1. PICK r \in R : e = <<r[1], r[2], <<<<"gamma", r[1] % cols>>>> \o r[3]>>
  BY DEF Scaled
<1> QED BY <1>1

\* BatchNorm1d, whose columns depend on the batch while training and not after.
LEMMA BatchNormAdjoint ==
  ASSUME NEW L, NEW l, IsLayer(l), L.kind = "BatchNorm1d", NEW call, NEW tokens, NEW keep,
         NEW M \in Nat, NEW K \in Nat, l.dims = <<K>>
  PROVE  LET v == <<M, K>>
             r == LayerForward(L, l, call, v, tokens, keep)
         IN  Adjoint(L, r) /\ Reads(r, v) /\ r.shape = v /\ r.layer.training = l.training
<1> DEFINE v == <<M, K>>
           z == Saves(l, call, v, {})
           x == IF l.training THEN call ELSE z.running
           m == [z EXCEPT !.running = x]
           r == LayerForward(L, l, call, v, tokens, keep)
           E == Scaled(Columns(M, K, call), K)
           U == ScaleUses(M, K, call)
<1>0. l.dims[1] = K /\ v[1] = M /\ v[2] = K /\ Len(v) = 2
  OBVIOUS
<1>1. r = Computed(m, v, E, U)
  <2>1. r = BatchNormForward(l, call, v)
    BY DEF LayerForward
  <2> HIDE DEF v, r
  <2> QED BY <1>0, <2>1 DEF BatchNormForward
<1>2. r.layer = m /\ r.shape = v /\ r.edges = E /\ r.uses = U
  BY <1>1, ComputedHas
<1>3. Remembered(z, l, call, v, {})
  BY SavesContext
<1>4. m.ctx = z.ctx /\ m.dims = z.dims /\ m.training = z.training
  <2> HIDE DEF z, x
  <2> QED BY <1>3 DEF Remembered, IsLayer
<1> HIDE DEF m, z, x
<1>5. m.ctx.shape = v /\ m.ctx.call = call /\ m.dims[1] = K /\ m.training = l.training
  BY <1>0, <1>3, <1>4, Zenon DEF Remembered
<1>6. LayerBackward(L, m, v) = [edges |-> E, uses |-> U]
  <2>1. LayerBackward(L, m, v) = BatchNormBackward(m)
    BY DEF LayerBackward
  <2> HIDE DEF v
  <2> QED BY <1>0, <1>5, <2>1 DEF BatchNormBackward
<1>7. IsRel(E) /\ IsRel(U)
  BY ColumnsIsRel, ScaledIsRel, ScaleUsesIsRel
<1>8. \A e \in E : e[2] \in Offsets(v)
  BY ColumnsRead, ScaledReads
<1> HIDE DEF v, E, U, r
<1>9. Adjoint(L, r)
  BY <1>2, <1>6, <1>7 DEF Adjoint
<1>10. Reads(r, v)
  BY <1>2, <1>8 DEF Reads
<1> QED BY <1>2, <1>5, <1>9, <1>10 DEF r, v

\* LayerNorm, row by row.
LEMMA LayerNormAdjoint ==
  ASSUME NEW L, NEW l, IsLayer(l), L.kind = "LayerNorm", NEW call, NEW tokens, NEW keep,
         NEW M \in Nat, NEW K \in Nat, l.dims = <<K>>
  PROVE  LET v == <<M, K>>
             r == LayerForward(L, l, call, v, tokens, keep)
         IN  Adjoint(L, r) /\ Reads(r, v) /\ r.shape = v /\ r.layer.training = l.training
<1> DEFINE v == <<M, K>>
           m == Saves(l, call, <<M>>, {})
           r == LayerForward(L, l, call, v, tokens, keep)
           E == Scaled(Rows(M, K, call), K)
           U == ScaleUses(M, K, call)
<1>0. l.dims[1] = K /\ v[1] = M /\ v[2] = K /\ Len(v) # 1
  OBVIOUS
<1>1. r = Computed(m, v, E, U)
  <2>1. r = LayerNormForward(l, call, v)
    BY DEF LayerForward
  <2>2. v = <<M, K>>
    OBVIOUS
  <2> HIDE DEF v, r
  <2> QED BY <1>0, <2>1, <2>2 DEF LayerNormForward
<1>2. r.layer = m /\ r.shape = v /\ r.edges = E /\ r.uses = U
  BY <1>1, ComputedHas
<1>3. Remembered(m, l, call, <<M>>, {})
  BY SavesContext
<1> HIDE DEF m
<1>5. m.ctx.shape[1] = M /\ m.ctx.call = call /\ m.dims[1] = K /\ m.training = l.training
  BY <1>0, <1>3 DEF Remembered
<1>6. LayerBackward(L, m, v) = [edges |-> E, uses |-> U]
  <2>1. LayerBackward(L, m, v) = LayerNormBackward(m)
    BY DEF LayerBackward
  <2> HIDE DEF v
  <2> QED BY <1>0, <1>5, <2>1 DEF LayerNormBackward
<1>7. IsRel(E) /\ IsRel(U)
  BY RowsIsRel, ScaledIsRel, ScaleUsesIsRel
<1>8. \A e \in E : e[2] \in Offsets(v)
  BY RowsRead, ScaledReads
<1> HIDE DEF v, E, U, r
<1>9. Adjoint(L, r)
  BY <1>2, <1>6, <1>7 DEF Adjoint
<1>10. Reads(r, v)
  BY <1>2, <1>8 DEF Reads
<1> QED BY <1>2, <1>5, <1>9, <1>10 DEF r, v

\* Softmax, row by row.
LEMMA SoftmaxAdjoint ==
  ASSUME NEW L, NEW l, IsLayer(l), L.kind = "Softmax", NEW call, NEW tokens, NEW keep,
         NEW M \in Nat, NEW K \in Nat
  PROVE  LET v == <<M, K>>
             r == LayerForward(L, l, call, v, tokens, keep)
         IN  Adjoint(L, r) /\ Reads(r, v) /\ r.shape = v /\ r.layer.training = l.training
<1> DEFINE v == <<M, K>>
           m == Saves(l, call, v, {})
           r == LayerForward(L, l, call, v, tokens, keep)
           E == Rows(M, K, call)
<1>0. v[1] = M /\ v[2] = K /\ Len(v) # 1
  OBVIOUS
<1>4. SoftmaxRows(v, call) = E
  <2> HIDE DEF v
  <2> QED BY <1>0 DEF SoftmaxRows
<1>1. r = Computed(m, v, E, {})
  <2>1. r = SoftmaxForward(l, call, v)
    BY DEF LayerForward
  <2> HIDE DEF v, r
  <2> QED BY <1>4, <2>1 DEF SoftmaxForward
<1>2. r.layer = m /\ r.shape = v /\ r.edges = E /\ r.uses = {}
  BY <1>1, ComputedHas
<1>3. Remembered(m, l, call, v, {})
  BY SavesContext
<1> HIDE DEF m
<1>5. m.ctx.shape = v /\ m.ctx.call = call /\ m.training = l.training
  BY <1>0, <1>3, Zenon DEF Remembered
<1>6. LayerBackward(L, m, v) = [edges |-> E, uses |-> {}]
  <2>1. LayerBackward(L, m, v) = SoftmaxBackward(m)
    BY DEF LayerBackward
  <2> HIDE DEF v
  <2> QED BY <1>4, <1>5, <2>1 DEF SoftmaxBackward
<1>7. IsRel(E) /\ IsRel({})
  BY RowsIsRel, NothingIsRel
<1>8. \A e \in E : e[2] \in Offsets(v)
  BY RowsRead
<1> HIDE DEF v, E, r
<1>9. Adjoint(L, r)
  BY <1>2, <1>6, <1>7 DEF Adjoint
<1>10. Reads(r, v)
  BY <1>2, <1>8 DEF Reads
<1> QED BY <1>2, <1>5, <1>9, <1>10 DEF r, v

\* The activations, element by element.
LEMMA ElementwiseAdjoint ==
  ASSUME NEW L, NEW l, IsLayer(l), L.kind = "Elementwise", NEW call, NEW tokens, NEW keep, NEW v
  PROVE  LET r == LayerForward(L, l, call, v, tokens, keep)
         IN  Adjoint(L, r) /\ Reads(r, v) /\ r.shape = v /\ r.layer.training = l.training
<1> DEFINE m == Saves(l, call, v, {})
           r == LayerForward(L, l, call, v, tokens, keep)
           E == ElementByElement(v, call)
<1>1. r = Computed(m, v, E, {})
  <2>1. r = ElementwiseForward(l, call, v)
    BY DEF LayerForward
  <2> HIDE DEF r
  <2> QED BY <2>1 DEF ElementwiseForward
<1>2. r.layer = m /\ r.shape = v /\ r.edges = E /\ r.uses = {}
  BY <1>1, ComputedHas
<1>3. Remembered(m, l, call, v, {})
  BY SavesContext
<1> HIDE DEF m
<1>5. m.ctx.shape = v /\ m.ctx.call = call /\ m.training = l.training
  BY <1>3, Zenon DEF Remembered
<1>6. LayerBackward(L, m, v) = [edges |-> E, uses |-> {}]
  <2>1. LayerBackward(L, m, v) = ElementwiseBackward(m)
    BY DEF LayerBackward
  <2> QED BY <1>5, <2>1 DEF ElementwiseBackward
<1>7. IsRel(E) /\ IsRel({})
  BY ElementsIsRel, NothingIsRel
<1>8. \A e \in E : e[2] \in Offsets(v)
  BY DEF ElementByElement
<1> HIDE DEF E, r
<1>9. Adjoint(L, r)
  BY <1>2, <1>6, <1>7 DEF Adjoint
<1>10. Reads(r, v)
  BY <1>2, <1>8 DEF Reads
<1> QED BY <1>2, <1>5, <1>9, <1>10 DEF r

\* Embedding, whose input gets no gradient.
LEMMA EmbeddingAdjoint ==
  ASSUME NEW L, NEW l, IsLayer(l), L.kind = "Embedding", NEW call, NEW tokens, NEW keep, NEW v,
         LayerForward(L, l, call, v, tokens, keep).ok
  PROVE  LET r == LayerForward(L, l, call, v, tokens, keep)
         IN  Adjoint(L, r) /\ Reads(r, v) /\ r.shape = v \o <<L.dim>> /\ r.layer.training = l.training
<1> DEFINE m == Saves(l, call, v, tokens)
           t == v \o <<L.dim>>
           r == LayerForward(L, l, call, v, tokens, keep)
           U == Lookups(L, Offsets(v), tokens)
<1>0. r = EmbeddingForward(L, l, call, v, tokens)
  BY DEF LayerForward
<1>10. ~Failed(l).ok /\ ~Failed(m).ok
  BY DEF Failed
<1>1. r = Computed(m, t, {}, U) /\ \A p \in Offsets(v) : tokens[p] \in 0..(L.vocab - 1)
  <2> HIDE DEF r
  <2> QED BY <1>0, <1>10 DEF EmbeddingForward, r
<1>2. r.layer = m /\ r.shape = t /\ r.edges = {} /\ r.uses = U
  <2> HIDE DEF m, t, r, U
  <2> QED BY <1>1, ComputedHas
<1>3. Remembered(m, l, call, v, tokens)
  BY SavesContext
<1> HIDE DEF m
<1>5. m.ctx.shape = v /\ m.ctx.pick = tokens /\ m.training = l.training
  BY <1>3, Zenon DEF Remembered
<1>6. LayerBackward(L, m, t) = [edges |-> {}, uses |-> U]
  <2>1. LayerBackward(L, m, t) = EmbeddingBackward(L, m)
    BY DEF LayerBackward
  <2>2. {p \in Offsets(v) : tokens[p] \in 0..(L.vocab - 1)} = Offsets(v)
    BY <1>1
  <2> QED BY <1>5, <2>1, <2>2 DEF EmbeddingBackward
<1>7. IsRel(U) /\ IsRel({})
  BY LookupsIsRel, NothingIsRel
<1> HIDE DEF U, r, t
<1>8. Adjoint(L, r)
  BY <1>2, <1>6, <1>7 DEF Adjoint
<1>9. Reads(r, v)
  BY <1>2 DEF Reads
<1> QED BY <1>2, <1>5, <1>8, <1>9 DEF r, t

\* Dropout, which keeps the mask of forward, or none.
LEMMA DropoutAdjoint ==
  ASSUME NEW L, NEW l, IsLayer(l), L.kind = "Dropout", NEW call, NEW tokens, NEW keep, NEW v
  PROVE  LET r == LayerForward(L, l, call, v, tokens, keep)
         IN  /\ Adjoint(L, r) /\ r.shape = v /\ r.layer.training = l.training
             /\ keep \subseteq Offsets(v) => Reads(r, v)
<1> DEFINE r == LayerForward(L, l, call, v, tokens, keep)
           Good == /\ Adjoint(L, r) /\ r.shape = v /\ r.layer.training = l.training
                   /\ keep \subseteq Offsets(v) => Reads(r, v)
<1>0. r = DropoutForward(l, call, v, keep)
  BY DEF LayerForward
<1> HIDE DEF r
<1>1. ASSUME l.training PROVE Good
  <2> DEFINE m == Saves(l, call, v, keep)
             E == Kept(keep, call)
  <2>1. r = Computed(m, v, E, {})
    BY <1>0, <1>1 DEF DropoutForward
  <2>2. r.layer = m /\ r.shape = v /\ r.edges = E /\ r.uses = {}
    BY <2>1, ComputedHas
  <2>3. Remembered(m, l, call, v, keep)
    BY SavesContext
  <2> HIDE DEF m
  <2>5. m.ctx # <<>> /\ m.ctx.pick = keep /\ m.ctx.call = call /\ m.training = l.training
    BY <2>3, Zenon DEF Remembered
  <2>6. LayerBackward(L, m, v) = [edges |-> E, uses |-> {}]
    <3>1. LayerBackward(L, m, v) = DropoutBackward(m, v)
      BY DEF LayerBackward
    <3> QED BY <1>1, <2>5, <3>1 DEF DropoutBackward
  <2>7. IsRel(E) /\ IsRel({})
    BY KeptIsRel, NothingIsRel
  <2>8. \A e \in E : e[2] \in keep
    BY DEF Kept
  <2> HIDE DEF E
  <2>9. Adjoint(L, r)
    BY <2>2, <2>6, <2>7 DEF Adjoint
  <2>10. keep \subseteq Offsets(v) => Reads(r, v)
    BY <2>2, <2>8 DEF Reads
  <2> QED BY <2>2, <2>5, <2>9, <2>10
<1>2. ASSUME ~l.training PROVE Good
  <2> DEFINE m == [l EXCEPT !.ctx = <<>>]
             E == Identity(Offsets(v))
  <2>1. r = Computed(m, v, E, {})
    BY <1>0, <1>2 DEF DropoutForward
  <2>2. r.layer = m /\ r.shape = v /\ r.edges = E /\ r.uses = {}
    BY <2>1, ComputedHas
  <2>3. m.training = l.training
    BY DEF IsLayer
  <2> HIDE DEF m
  <2>6. LayerBackward(L, m, v) = [edges |-> E, uses |-> {}]
    <3>1. LayerBackward(L, m, v) = DropoutBackward(m, v)
      BY DEF LayerBackward
    <3> QED BY <1>2, <2>3, <3>1 DEF DropoutBackward
  <2>7. IsRel(E) /\ IsRel({})
    BY IdentityIsRel, NothingIsRel
  <2>8. \A e \in E : e[2] \in Offsets(v)
    BY DEF Identity
  <2> HIDE DEF E
  <2>9. Adjoint(L, r)
    BY <2>2, <2>6, <2>7 DEF Adjoint
  <2>10. Reads(r, v)
    BY <2>2, <2>8 DEF Reads
  <2> QED BY <2>2, <2>3, <2>9, <2>10
<1> HIDE DEF Good
<1>3. Good
  BY <1>1, <1>2
<1> QED BY <1>3 DEF Good, r

\* A number before three.
LEMMA PrependOne ==
  ASSUME NEW a, NEW b, NEW c, NEW d
  PROVE  <<a>> \o <<b, c, d>> = <<a, b, c, d>>
<1> DEFINE X == {a, b, c, d}
           s == <<a>>
           t == <<b, c, d>>
<1>1. s \in Seq(X) /\ t \in Seq(X)
  OBVIOUS
<1>2. Len(s) = 1 /\ Len(t) = 3 /\ s[1] = a /\ t[1] = b /\ t[2] = c /\ t[3] = d
  OBVIOUS
<1> HIDE DEF X, s, t
<1> DEFINE u == s \o t
<1>3. u \in Seq(X) /\ Len(u) = Len(s) + Len(t)
      /\ \A i \in 1 .. Len(s) + Len(t) : u[i] = IF i <= Len(s) THEN s[i] ELSE t[i - Len(s)]
  BY <1>1, ConcatProperties
<1> HIDE DEF u
<1>4. u \in Seq(X) /\ Len(u) = 4 /\ u[1] = a /\ u[2] = b /\ u[3] = c /\ u[4] = d
  BY <1>2, <1>3
<1>5. u = <<a, b, c, d>>
  BY <1>4
<1> QED BY <1>5 DEF u, s, t

\* A place in a tensor of four dimensions.
LEMMA PlaceOfFour ==
  ASSUME NEW N \in Nat, NEW C \in Nat, NEW H \in Nat, NEW W \in Nat,
         NEW n \in 0 .. N-1, NEW c \in 0 .. C-1, NEW h \in 0 .. H-1, NEW w \in 0 .. W-1
  PROVE  n * (C*H*W) + c * (H*W) + h * W + w \in Offsets(<<N, C, H, W>>)
<1>1. h * W + w \in 0 .. H * W - 1
  BY DigitBounds
<1> DEFINE A == H * W
<1>2. A \in Nat
  BY ProductNat
<1>3. c * A + (h * W + w) \in 0 .. C * A - 1
  <2> HIDE DEF A
  <2> DEFINE j == h * W + w
  <2>1. j \in 0 .. A - 1
    BY <1>1 DEF A
  <2> HIDE DEF j
  <2>2. c * A + j \in 0 .. C * A - 1
    BY <1>2, <2>1, DigitBounds
  <2> QED BY <2>2 DEF j
<1> DEFINE B == C * A
<1>4. B \in Nat
  BY <1>2, ProductNat
<1>5. n * B + (c * A + (h * W + w)) \in 0 .. N * B - 1
  <2> DEFINE j == c * A + (h * W + w)
  <2>1. j \in 0 .. B - 1
    BY <1>3 DEF B
  <2> HIDE DEF j, B
  <2>2. n * B + j \in 0 .. N * B - 1
    BY <1>4, <2>1, DigitBounds
  <2> QED BY <2>2 DEF j
<1>6. C*H*W = B /\ N*C*H*W = N * B
  OBVIOUS
<1>7. n * B + c * A + h * W + w = n * B + (c * A + (h * W + w))
  <2>1. n * B \in Nat /\ c * A \in Nat /\ h * W \in Nat /\ w \in Nat
    BY <1>2, <1>4, ProductNat
  <2> HIDE DEF A, B
  <2> QED BY <2>1
<1>8. Offsets(<<N, C, H, W>>) = 0 .. N*C*H*W - 1
  BY OffsetsFour
<1>9. n * B + c * A + h * W + w \in Offsets(<<N, C, H, W>>)
  <2> HIDE DEF A, B
  <2> QED BY <1>5, <1>6, <1>7, <1>8
<1>10. n * B = n * (C*H*W)
  BY <1>6
<1> QED BY <1>9, <1>10

\* A convolution reads no element outside the image, whatever the padding.
LEMMA ConvReads ==
  ASSUME NEW L, NEW N \in Nat, NEW C \in Nat, NEW H \in Nat, NEW W \in Nat, NEW y
  PROVE  \A t \in ConvTerms(L, <<N, C, H, W>>, y) : t[2] \in Offsets(<<N, C, H, W>>)
<1> DEFINE x == <<N, C, H, W>>
           k == L.kernel
           Row(t) == t[3] * L.stride + t[6] - L.padding
           Col(t) == t[4] * L.stride + t[7] - L.padding
           all == (0..(x[1]-1)) \X (0..(y[2]-1)) \X (0..(y[3]-1)) \X (0..(y[4]-1))
                     \X (0..(x[2]-1)) \X (0..(k-1)) \X (0..(k-1))
           taps == {t \in all : Row(t) \in 0..(x[3]-1) /\ Col(t) \in 0..(x[4]-1)}
           to(t) == t[1] * (y[2]*y[3]*y[4]) + t[2] * (y[3]*y[4]) + t[3] * y[4] + t[4]
           from(t) == t[1] * (x[2]*x[3]*x[4]) + t[5] * (x[3]*x[4]) + Row(t) * x[4] + Col(t)
           by(t) == t[2] * (x[2]*k*k) + t[5] * (k*k) + t[6] * k + t[7]
<1>0. x[1] = N /\ x[2] = C /\ x[3] = H /\ x[4] = W
  OBVIOUS
<1>1. ConvTerms(L, x, y) = {<<to(t), from(t), by(t)>> : t \in taps}
  BY Zenon DEF ConvTerms
<1>2. ASSUME NEW t \in taps PROVE from(t) \in Offsets(x)
  <2>1. t \in all /\ Row(t) \in 0..(x[3]-1) /\ Col(t) \in 0..(x[4]-1)
    OBVIOUS
  <2>2. t[1] \in 0..(x[1]-1) /\ t[5] \in 0..(x[2]-1)
    <3> HIDE DEF x, Row, Col
    <3> QED BY <2>1
  <2> DEFINE n == t[1]
             c == t[5]
             h == Row(t)
             w == Col(t)
  <2>3. n \in 0 .. N-1 /\ c \in 0 .. C-1 /\ h \in 0 .. H-1 /\ w \in 0 .. W-1
    BY <1>0, <2>1, <2>2
  <2> HIDE DEF n, c, h, w
  <2>4. n * (C*H*W) + c * (H*W) + h * W + w \in Offsets(<<N, C, H, W>>)
    BY <2>3, PlaceOfFour
  <2>5. from(t) = n * (x[2]*x[3]*x[4]) + c * (x[3]*x[4]) + h * x[4] + w
    BY DEF n, c, h, w
  <2> HIDE DEF from
  <2> QED BY <1>0, <2>4, <2>5
<1>3. ASSUME NEW e \in ConvTerms(L, x, y) PROVE e[2] \in Offsets(x)
  <2> HIDE DEF taps, to, from, by, x
  <2>1. PICK t \in taps : e = <<to(t), from(t), by(t)>>
    BY <1>1
  <2> QED BY <1>2, <2>1
<1> QED BY <1>3 DEF x

\* Conv2D: the terms are the same both ways, and so is what they add up to.
LEMMA ConvAdjoint ==
  ASSUME NEW L, NEW l, IsLayer(l), L.kind = "Conv2D", NEW call, NEW tokens, NEW keep,
         NEW N \in Nat, NEW C \in Nat, NEW H \in Nat, NEW W \in Nat, l.dims = <<C, H, W>>,
         LayerForward(L, l, call, <<N, C, H, W>>, tokens, keep).ok
  PROVE  LET v == <<N, C, H, W>>
             r == LayerForward(L, l, call, v, tokens, keep)
         IN  /\ Adjoint(L, r) /\ Reads(r, v)
             /\ r.shape = <<N, L.filters, OutSize(L, H), OutSize(L, W)>> /\ r.layer.training = l.training
<1> DEFINE v == <<N, C, H, W>>
           y == <<N, L.filters, OutSize(L, H), OutSize(L, W)>>
           T == ConvTerms(L, v, y)
           m == Saves(l, call, v, {})
           r == LayerForward(L, l, call, v, tokens, keep)
           E == Linear("kernel", T)
           U == LinearUses("kernel", <<"x", call>>, T) \union ConvBias(y)
<1>0. v[1] = N /\ v[3] = H /\ v[4] = W /\ Len(v) = 4 /\ y[1] = N
  OBVIOUS
<1>10. ~Failed(l).ok
  BY DEF Failed
<1>1. r = Computed(m, y, E, U)
  <2>1. r = ConvForward(L, l, call, v) /\ r.ok
    BY DEF LayerForward
  <2>2. <<v[1], L.filters, OutSize(L, v[3]), OutSize(L, v[4])>> = y
    BY <1>0
  <2> HIDE DEF v, r, y
  <2> QED BY <1>0, <1>10, <2>1, <2>2 DEF ConvForward
<1>2. r.layer = m /\ r.shape = y /\ r.edges = E /\ r.uses = U
  <2> HIDE DEF m, y, E, U, r
  <2> QED BY <1>1, ComputedHas
<1>3. Remembered(m, l, call, v, {})
  BY SavesContext
<1> HIDE DEF m
<1>5. m.ctx.call = call /\ m.training = l.training /\ m.dims = <<C, H, W>>
  BY <1>3, Zenon DEF Remembered
<1>6. LayerBackward(L, m, y) = [edges |-> E, uses |-> U]
  <2>1. LayerBackward(L, m, y) = ConvBackward(L, m, y)
    BY DEF LayerBackward
  <2>2. <<y[1]>> \o m.dims = v
    BY <1>0, <1>5, PrependOne
  <2> HIDE DEF v, y
  <2> QED BY <1>5, <2>1, <2>2 DEF ConvBackward
<1>7. IsRel(E) /\ IsRel(U)
  <2> HIDE DEF T, y
  <2> QED BY LinearIsRel, UsesIsRel, ConvBiasIsRel, RelUnion
<1>8. \A e \in E : e[2] \in Offsets(v)
  <2>1. \A t \in T : t[2] \in Offsets(v)
    BY ConvReads
  <2> HIDE DEF T, v
  <2> QED BY <2>1 DEF Linear
<1> HIDE DEF v, E, U, r, y
<1>9. Adjoint(L, r)
  BY <1>2, <1>6, <1>7 DEF Adjoint
<1>11. Reads(r, v)
  BY <1>2, <1>8 DEF Reads
<1> QED BY <1>2, <1>5, <1>9, <1>11 DEF r, v, y

-----------------------------------------------------------------------------
(***************************************************************************)
(* Attention.  Its forward pass is a composition of products, transposes,  *)
(* splits of the heads, a softmax and masks, and its backward pass         *)
(* composes their gradients the other way, whose masks drop other terms    *)
(* than the forward ones.                                                  *)
(***************************************************************************)

\* The terms of a batch of products, by row and column.
CellTerm(B, M, K, N, t) ==
  \E i \in 0 .. B-1, m \in 0 .. M-1, n \in 0 .. N-1, k \in 0 .. K-1 :
    t = <<Cell(i, m, n, M, N), Cell(i, m, k, M, K), Cell(i, k, n, K, N)>>

LEMMA CellTerms ==
  ASSUME NEW B \in Nat, NEW M \in Nat, NEW K \in Nat, NEW N \in Nat, NEW t
  PROVE  t \in matmul(<<B, M, K>>, <<B, K, N>>) <=> CellTerm(B, M, K, N, t)
<1>1. BatchTerm(B, M, K, N, t) <=> CellTerm(B, M, K, N, t)
  BY Zenon DEF BatchTerm, CellTerm, Cell
<1> QED BY <1>1, BatchTerms

\* The gradient of the attention: g V^T.
LEMMA AttentionGradient ==
  ASSUME NEW B \in Nat, NEW len \in Nat, NEW d \in Nat, NEW call
  PROVE  LET VT == transpose(<<B, len, d>>, 2, 3)
         IN  {<<t[2], t[1], <<<<"V", call, VT[t[3]]>>>>>> : t \in matmul(<<B, len, d>>, <<B, d, len>>)}
               = AlongSaved(<<"V", call>>, matmul(<<B, len, len>>, <<B, len, d>>))
<1> DEFINE VT == transpose(<<B, len, d>>, 2, 3)
           P == matmul(<<B, len, d>>, <<B, d, len>>)
           Q == matmul(<<B, len, len>>, <<B, len, d>>)
           BackEdge(t) == <<t[2], t[1], <<<<"V", call, VT[t[3]]>>>>>>
           Forth(t) == <<t[1], t[2], <<Append(<<"V", call>>, t[3])>>>>
           back == {BackEdge(t) : t \in P}
           forth == AlongSaved(<<"V", call>>, Q)
<1>1. \A e : e \in back <=> \E t \in P : e = BackEdge(t)
  OBVIOUS
<1>2. \A e : e \in forth <=> \E t \in Q : e = Forth(t)
  BY DEF AlongSaved
<1>3. ASSUME NEW i \in 0 .. B-1, NEW m \in 0 .. len-1, NEW n \in 0 .. len-1, NEW k \in 0 .. d-1
      PROVE  BackEdge(<<Cell(i, m, n, len, len), Cell(i, m, k, len, d), Cell(i, k, n, d, len)>>)
               = Forth(<<Cell(i, m, k, len, d), Cell(i, m, n, len, len), Cell(i, n, k, len, d)>>)
  <2>1. VT[Cell(i, k, n, d, len)] = Cell(i, n, k, len, d)
    BY TransposeThree
  <2>2. Append(<<"V", call>>, Cell(i, n, k, len, d)) = <<"V", call, Cell(i, n, k, len, d)>>
    BY AppendTwo
  <2> HIDE DEF VT
  <2> QED BY <2>1, <2>2
<1>4. \A t : t \in P <=> CellTerm(B, len, d, len, t)
  BY CellTerms
<1>5. \A t : t \in Q <=> CellTerm(B, len, len, d, t)
  BY CellTerms
<1> HIDE DEF VT, P, Q, BackEdge, Forth, back, forth
<1>6. ASSUME NEW e \in back PROVE e \in forth
  <2>1. PICK t : CellTerm(B, len, d, len, t) /\ e = BackEdge(t)
    BY <1>1, <1>4
  <2>2. PICK i \in 0 .. B-1, m \in 0 .. len-1, n \in 0 .. len-1, k \in 0 .. d-1 :
          t = <<Cell(i, m, n, len, len), Cell(i, m, k, len, d), Cell(i, k, n, d, len)>>
    BY <2>1 DEF CellTerm
  <2> DEFINE u == <<Cell(i, m, k, len, d), Cell(i, m, n, len, len), Cell(i, n, k, len, d)>>
  <2>3. CellTerm(B, len, len, d, u)
    BY DEF CellTerm
  <2>4. e = Forth(u)
    BY <1>3, <2>1, <2>2
  <2> HIDE DEF u
  <2> QED BY <1>2, <1>5, <2>3, <2>4
<1>7. ASSUME NEW e \in forth PROVE e \in back
  <2>1. PICK u : CellTerm(B, len, len, d, u) /\ e = Forth(u)
    BY <1>2, <1>5
  <2>2. PICK i \in 0 .. B-1, m \in 0 .. len-1, k \in 0 .. d-1, n \in 0 .. len-1 :
          u = <<Cell(i, m, k, len, d), Cell(i, m, n, len, len), Cell(i, n, k, len, d)>>
    BY <2>1 DEF CellTerm
  <2> DEFINE t == <<Cell(i, m, n, len, len), Cell(i, m, k, len, d), Cell(i, k, n, d, len)>>
  <2>3. CellTerm(B, len, d, len, t)
    BY DEF CellTerm
  <2>4. e = BackEdge(t)
    BY <1>3, <2>1, <2>2
  <2> HIDE DEF t
  <2> QED BY <1>1, <1>4, <2>3, <2>4
<1>8. back = forth
  BY <1>6, <1>7
<1> QED BY <1>8 DEF back, forth, BackEdge, P, Q, VT

\* The gradient of the queries: g K.
LEMMA QueryGradient ==
  ASSUME NEW B \in Nat, NEW len \in Nat, NEW d \in Nat, NEW call
  PROVE  LET KT == transpose(<<B, len, d>>, 2, 3)
         IN  {<<t[2], t[1], <<<<"K", call, t[3]>>>>>> : t \in matmul(<<B, len, len>>, <<B, len, d>>)}
               = {<<t[1], t[2], <<<<"K", call, KT[t[3]]>>>>>> : t \in matmul(<<B, len, d>>, <<B, d, len>>)}
<1> DEFINE KT == transpose(<<B, len, d>>, 2, 3)
           P == matmul(<<B, len, len>>, <<B, len, d>>)
           Q == matmul(<<B, len, d>>, <<B, d, len>>)
           BackEdge(t) == <<t[2], t[1], <<<<"K", call, t[3]>>>>>>
           Forth(t) == <<t[1], t[2], <<<<"K", call, KT[t[3]]>>>>>>
           back == {BackEdge(t) : t \in P}
           forth == {Forth(t) : t \in Q}
<1>1. \A e : e \in back <=> \E t \in P : e = BackEdge(t)
  OBVIOUS
<1>2. \A e : e \in forth <=> \E t \in Q : e = Forth(t)
  OBVIOUS
<1>3. ASSUME NEW i \in 0 .. B-1, NEW m \in 0 .. len-1, NEW n \in 0 .. len-1, NEW k \in 0 .. d-1
      PROVE  BackEdge(<<Cell(i, m, k, len, d), Cell(i, m, n, len, len), Cell(i, n, k, len, d)>>)
               = Forth(<<Cell(i, m, n, len, len), Cell(i, m, k, len, d), Cell(i, k, n, d, len)>>)
  <2>1. KT[Cell(i, k, n, d, len)] = Cell(i, n, k, len, d)
    BY TransposeThree
  <2> HIDE DEF KT
  <2> QED BY <2>1
<1>4. \A t : t \in P <=> CellTerm(B, len, len, d, t)
  BY CellTerms
<1>5. \A t : t \in Q <=> CellTerm(B, len, d, len, t)
  BY CellTerms
<1> HIDE DEF KT, P, Q, BackEdge, Forth, back, forth
<1>6. ASSUME NEW e \in forth PROVE e \in back
  <2>1. PICK t : CellTerm(B, len, d, len, t) /\ e = Forth(t)
    BY <1>2, <1>5
  <2>2. PICK i \in 0 .. B-1, m \in 0 .. len-1, n \in 0 .. len-1, k \in 0 .. d-1 :
          t = <<Cell(i, m, n, len, len), Cell(i, m, k, len, d), Cell(i, k, n, d, len)>>
    BY <2>1 DEF CellTerm
  <2> DEFINE u == <<Cell(i, m, k, len, d), Cell(i, m, n, len, len), Cell(i, n, k, len, d)>>
  <2>3. CellTerm(B, len, len, d, u)
    BY DEF CellTerm
  <2>4. e = BackEdge(u)
    BY <1>3, <2>1, <2>2
  <2> HIDE DEF u
  <2> QED BY <1>1, <1>4, <2>3, <2>4
<1>7. ASSUME NEW e \in back PROVE e \in forth
  <2>1. PICK u : CellTerm(B, len, len, d, u) /\ e = BackEdge(u)
    BY <1>1, <1>4
  <2>2. PICK i \in 0 .. B-1, m \in 0 .. len-1, k \in 0 .. d-1, n \in 0 .. len-1 :
          u = <<Cell(i, m, k, len, d), Cell(i, m, n, len, len), Cell(i, n, k, len, d)>>
    BY <2>1 DEF CellTerm
  <2> DEFINE t == <<Cell(i, m, n, len, len), Cell(i, m, k, len, d), Cell(i, k, n, d, len)>>
  <2>3. CellTerm(B, len, d, len, t)
    BY DEF CellTerm
  <2>4. e = Forth(t)
    BY <1>3, <2>1, <2>2
  <2> HIDE DEF t
  <2> QED BY <1>2, <1>5, <2>3, <2>4
<1>8. back = forth
  BY <1>6, <1>7
<1> QED BY <1>8 DEF back, forth, BackEdge, Forth, P, Q, KT

\* The gradient of the keys: g^T Q.
KeysBack(B, len, d, call) ==
  LET AT == transpose(<<B, len, len>>, 2, 3)
  IN  {<<AT[t[2]], t[1], <<<<"Q", call, t[3]>>>>>> : t \in matmul(<<B, len, len>>, <<B, len, d>>)}

KeysForth(B, len, d, call) ==
  LET KT == transpose(<<B, len, d>>, 2, 3)
  IN  {<<t[1], KT[t[3]], <<<<"Q", call, t[2]>>>>>> : t \in matmul(<<B, len, d>>, <<B, d, len>>)}

LEMMA KeyGradient ==
  ASSUME NEW B \in Nat, NEW len \in Nat, NEW d \in Nat, NEW call
  PROVE  KeysBack(B, len, d, call) = KeysForth(B, len, d, call)
<1> DEFINE KT == transpose(<<B, len, d>>, 2, 3)
           AT == transpose(<<B, len, len>>, 2, 3)
           P == matmul(<<B, len, len>>, <<B, len, d>>)
           Q == matmul(<<B, len, d>>, <<B, d, len>>)
           BackEdge(t) == <<AT[t[2]], t[1], <<<<"Q", call, t[3]>>>>>>
           Forth(t) == <<t[1], KT[t[3]], <<<<"Q", call, t[2]>>>>>>
           back == {BackEdge(t) : t \in P}
           forth == {Forth(t) : t \in Q}
<1>1. \A e : e \in back <=> \E t \in P : e = BackEdge(t)
  OBVIOUS
<1>2. \A e : e \in forth <=> \E t \in Q : e = Forth(t)
  OBVIOUS
<1>3. ASSUME NEW i \in 0 .. B-1, NEW m \in 0 .. len-1, NEW n \in 0 .. len-1, NEW k \in 0 .. d-1
      PROVE  BackEdge(<<Cell(i, n, k, len, d), Cell(i, n, m, len, len), Cell(i, m, k, len, d)>>)
               = Forth(<<Cell(i, m, n, len, len), Cell(i, m, k, len, d), Cell(i, k, n, d, len)>>)
  <2>1. KT[Cell(i, k, n, d, len)] = Cell(i, n, k, len, d)
    BY TransposeThree
  <2>2. AT[Cell(i, n, m, len, len)] = Cell(i, m, n, len, len)
    BY TransposeThree
  <2> HIDE DEF KT, AT
  <2> QED BY <2>1, <2>2
<1>4. \A t : t \in P <=> CellTerm(B, len, len, d, t)
  BY CellTerms
<1>5. \A t : t \in Q <=> CellTerm(B, len, d, len, t)
  BY CellTerms
<1> HIDE DEF KT, AT, P, Q, BackEdge, Forth, back, forth
<1>6. ASSUME NEW e \in forth PROVE e \in back
  <2>1. PICK t : CellTerm(B, len, d, len, t) /\ e = Forth(t)
    BY <1>2, <1>5
  <2>2. PICK i \in 0 .. B-1, m \in 0 .. len-1, n \in 0 .. len-1, k \in 0 .. d-1 :
          t = <<Cell(i, m, n, len, len), Cell(i, m, k, len, d), Cell(i, k, n, d, len)>>
    BY <2>1 DEF CellTerm
  <2> DEFINE u == <<Cell(i, n, k, len, d), Cell(i, n, m, len, len), Cell(i, m, k, len, d)>>
  <2>3. CellTerm(B, len, len, d, u)
    BY DEF CellTerm
  <2>4. e = BackEdge(u)
    BY <1>3, <2>1, <2>2
  <2> HIDE DEF u
  <2> QED BY <1>1, <1>4, <2>3, <2>4
<1>7. ASSUME NEW e \in back PROVE e \in forth
  <2>1. PICK u : CellTerm(B, len, len, d, u) /\ e = BackEdge(u)
    BY <1>1, <1>4
  <2>2. PICK i \in 0 .. B-1, n \in 0 .. len-1, k \in 0 .. d-1, m \in 0 .. len-1 :
          u = <<Cell(i, n, k, len, d), Cell(i, n, m, len, len), Cell(i, m, k, len, d)>>
    BY <2>1 DEF CellTerm
  <2> DEFINE t == <<Cell(i, m, n, len, len), Cell(i, m, k, len, d), Cell(i, k, n, d, len)>>
  <2>3. CellTerm(B, len, d, len, t)
    BY DEF CellTerm
  <2>4. e = Forth(t)
    BY <1>3, <2>1, <2>2
  <2> HIDE DEF t
  <2> QED BY <1>2, <1>5, <2>3, <2>4
<1>8. back = forth
  BY <1>6, <1>7
<1> QED BY <1>8 DEF KeysBack, KeysForth, back, forth, BackEdge, Forth, P, Q, KT, AT

\* The gradient of the values: a^T g, of the attention a that is not masked.
ValuesBack(L, B, len, d, call) ==
  LET AT == transpose(<<B, len, len>>, 2, 3)
      full == matmul(<<B, len, len>>, <<B, len, d>>)
  IN  {<<t[3], t[1], <<<<"attn", call, AT[t[2]]>>>>>> : t \in {t \in full : Attends(L, len, AT[t[2]])}}

ValuesForth(L, B, len, d, call) ==
  LET context == Unmasked(L, len, matmul(<<B, len, len>>, <<B, len, d>>), 2)
  IN  {<<t[1], t[3], <<<<"attn", call, t[2]>>>>>> : t \in context}

LEMMA ValueGradient ==
  ASSUME NEW L, NEW B \in Nat, NEW len \in Nat, NEW d \in Nat, NEW call
  PROVE  ValuesBack(L, B, len, d, call) = ValuesForth(L, B, len, d, call)
<1> DEFINE AT == transpose(<<B, len, len>>, 2, 3)
           P == matmul(<<B, len, len>>, <<B, len, d>>)
           BackEdge(t) == <<t[3], t[1], <<<<"attn", call, AT[t[2]]>>>>>>
           Forth(t) == <<t[1], t[3], <<<<"attn", call, t[2]>>>>>>
           back == {BackEdge(t) : t \in {t \in P : Attends(L, len, AT[t[2]])}}
           forth == {Forth(t) : t \in Unmasked(L, len, P, 2)}
<1>1. \A e : e \in back <=> \E t \in P : Attends(L, len, AT[t[2]]) /\ e = BackEdge(t)
  OBVIOUS
<1>2. \A e : e \in forth <=> \E t \in P : Attends(L, len, t[2]) /\ e = Forth(t)
  BY DEF Unmasked
<1>3. ASSUME NEW i \in 0 .. B-1, NEW m \in 0 .. len-1, NEW n \in 0 .. d-1, NEW k \in 0 .. len-1
      PROVE  LET t == <<Cell(i, m, n, len, d), Cell(i, m, k, len, len), Cell(i, k, n, len, d)>>
                 u == <<Cell(i, k, n, len, d), Cell(i, k, m, len, len), Cell(i, m, n, len, d)>>
             IN  BackEdge(u) = Forth(t) /\ AT[u[2]] = t[2]
  <2>1. AT[Cell(i, k, m, len, len)] = Cell(i, m, k, len, len)
    BY TransposeThree
  <2> HIDE DEF AT
  <2> QED BY <2>1
<1>4. \A t : t \in P <=> CellTerm(B, len, len, d, t)
  BY CellTerms
<1> HIDE DEF AT, P, BackEdge, Forth, back, forth
<1>5. ASSUME NEW e \in forth PROVE e \in back
  <2>1. PICK t : CellTerm(B, len, len, d, t) /\ Attends(L, len, t[2]) /\ e = Forth(t)
    BY <1>2, <1>4
  <2>2. PICK i \in 0 .. B-1, m \in 0 .. len-1, n \in 0 .. d-1, k \in 0 .. len-1 :
          t = <<Cell(i, m, n, len, d), Cell(i, m, k, len, len), Cell(i, k, n, len, d)>>
    BY <2>1 DEF CellTerm
  <2> DEFINE u == <<Cell(i, k, n, len, d), Cell(i, k, m, len, len), Cell(i, m, n, len, d)>>
  <2>3. CellTerm(B, len, len, d, u)
    BY DEF CellTerm
  <2>4. e = BackEdge(u) /\ AT[u[2]] = t[2]
    BY <1>3, <2>1, <2>2
  <2> HIDE DEF u
  <2> QED BY <1>1, <1>4, <2>1, <2>3, <2>4
<1>6. ASSUME NEW e \in back PROVE e \in forth
  <2>1. PICK u : CellTerm(B, len, len, d, u) /\ Attends(L, len, AT[u[2]]) /\ e = BackEdge(u)
    BY <1>1, <1>4
  <2>2. PICK i \in 0 .. B-1, k \in 0 .. len-1, n \in 0 .. d-1, m \in 0 .. len-1 :
          u = <<Cell(i, k, n, len, d), Cell(i, k, m, len, len), Cell(i, m, n, len, d)>>
    BY <2>1 DEF CellTerm
  <2> DEFINE t == <<Cell(i, m, n, len, d), Cell(i, m, k, len, len), Cell(i, k, n, len, d)>>
  <2>3. CellTerm(B, len, len, d, t)
    BY DEF CellTerm
  <2>4. e = Forth(t) /\ AT[u[2]] = t[2]
    BY <1>3, <2>1, <2>2
  <2> HIDE DEF t
  <2> QED BY <1>2, <1>4, <2>1, <2>3, <2>4
<1>7. back = forth
  BY <1>5, <1>6
<1> QED BY <1>7 DEF ValuesBack, ValuesForth, back, forth, BackEdge, Forth, P, AT

\* The gradient of the input of a projection: g W^T.
LEMMA ProjectionInputs ==
  ASSUME NEW R \in Nat, NEW E \in Nat, NEW W
  PROVE  LET WT == transpose(<<E, E>>, 1, 2)
         IN  {<<t[2], t[1], <<<<W, WT[t[3]]>>>>>> : t \in matmul(<<R, E>>, <<E, E>>)}
               = Linear(W, matmul(<<R, E>>, <<E, E>>))
<1> DEFINE WT == transpose(<<E, E>>, 1, 2)
           P == matmul(<<R, E>>, <<E, E>>)
           BackEdge(t) == <<t[2], t[1], <<<<W, WT[t[3]]>>>>>>
           Forth(t) == <<t[1], t[2], <<<<W, t[3]>>>>>>
           back == {BackEdge(t) : t \in P}
           forth == Linear(W, P)
<1>1. \A e : e \in back <=> \E t \in P : e = BackEdge(t)
  OBVIOUS
<1>2. \A e : e \in forth <=> \E t \in P : e = Forth(t)
  BY DEF Linear
<1>3. ASSUME NEW m \in 0 .. R-1, NEW n \in 0 .. E-1, NEW k \in 0 .. E-1
      PROVE  BackEdge(<<m * E + n, m * E + k, k * E + n>>) = Forth(<<m * E + k, m * E + n, n * E + k>>)
  <2>1. WT[k * E + n] = n * E + k
    BY TransposeTwo
  <2> HIDE DEF WT
  <2> QED BY <2>1
<1>4. \A t : t \in P <=> Term(R, E, E, t)
  BY Terms
<1> HIDE DEF WT, P, BackEdge, Forth, back, forth
<1>5. ASSUME NEW e \in back PROVE e \in forth
  <2>1. PICK t : Term(R, E, E, t) /\ e = BackEdge(t)
    BY <1>1, <1>4
  <2>2. PICK m \in 0 .. R-1, n \in 0 .. E-1, k \in 0 .. E-1 : t = <<m * E + n, m * E + k, k * E + n>>
    BY <2>1 DEF Term
  <2> DEFINE u == <<m * E + k, m * E + n, n * E + k>>
  <2>3. Term(R, E, E, u)
    BY DEF Term
  <2>4. e = Forth(u)
    BY <1>3, <2>1, <2>2
  <2> HIDE DEF u
  <2> QED BY <1>2, <1>4, <2>3, <2>4
<1>6. ASSUME NEW e \in forth PROVE e \in back
  <2>1. PICK u : Term(R, E, E, u) /\ e = Forth(u)
    BY <1>2, <1>4
  <2>2. PICK m \in 0 .. R-1, k \in 0 .. E-1, n \in 0 .. E-1 : u = <<m * E + k, m * E + n, n * E + k>>
    BY <2>1 DEF Term
  <2> DEFINE t == <<m * E + n, m * E + k, k * E + n>>
  <2>3. Term(R, E, E, t)
    BY DEF Term
  <2>4. e = BackEdge(t)
    BY <1>3, <2>1, <2>2
  <2> HIDE DEF t
  <2> QED BY <1>1, <1>4, <2>3, <2>4
<1>7. back = forth
  BY <1>5, <1>6
<1> QED BY <1>7 DEF back, forth, BackEdge, P, WT

\* The gradient of its weights: x^T g.
LEMMA ProjectionWeights ==
  ASSUME NEW R \in Nat, NEW E \in Nat, NEW W, NEW from
  PROVE  LET xT == transpose(<<R, E>>, 1, 2)
         IN  {<<t[3], <<W, t[1]>>, <<Append(from, xT[t[2]])>>>> : t \in matmul(<<E, R>>, <<R, E>>)}
               = LinearUses(W, from, matmul(<<R, E>>, <<E, E>>))
<1> DEFINE xT == transpose(<<R, E>>, 1, 2)
           P == matmul(<<E, R>>, <<R, E>>)
           Q == matmul(<<R, E>>, <<E, E>>)
           BackEdge(t) == <<t[3], <<W, t[1]>>, <<Append(from, xT[t[2]])>>>>
           Forth(t) == <<t[1], <<W, t[3]>>, <<Append(from, t[2])>>>>
           back == {BackEdge(t) : t \in P}
           forth == LinearUses(W, from, Q)
<1>1. \A e : e \in back <=> \E t \in P : e = BackEdge(t)
  OBVIOUS
<1>2. \A e : e \in forth <=> \E t \in Q : e = Forth(t)
  BY DEF LinearUses
<1>3. ASSUME NEW m \in 0 .. R-1, NEW n \in 0 .. E-1, NEW k \in 0 .. E-1
      PROVE  BackEdge(<<k * E + n, k * R + m, m * E + n>>) = Forth(<<m * E + n, m * E + k, k * E + n>>)
  <2>1. xT[k * R + m] = m * E + k
    BY TransposeTwo
  <2> HIDE DEF xT
  <2> QED BY <2>1
<1>4. \A t : t \in P <=> Term(E, R, E, t)
  BY Terms
<1>5. \A t : t \in Q <=> Term(R, E, E, t)
  BY Terms
<1> HIDE DEF xT, P, Q, BackEdge, Forth, back, forth
<1>6. ASSUME NEW e \in back PROVE e \in forth
  <2>1. PICK t : Term(E, R, E, t) /\ e = BackEdge(t)
    BY <1>1, <1>4
  <2>2. PICK k \in 0 .. E-1, n \in 0 .. E-1, m \in 0 .. R-1 : t = <<k * E + n, k * R + m, m * E + n>>
    BY <2>1 DEF Term
  <2> DEFINE u == <<m * E + n, m * E + k, k * E + n>>
  <2>3. Term(R, E, E, u)
    BY DEF Term
  <2>4. e = Forth(u)
    BY <1>3, <2>1, <2>2
  <2> HIDE DEF u
  <2> QED BY <1>2, <1>5, <2>3, <2>4
<1>7. ASSUME NEW e \in forth PROVE e \in back
  <2>1. PICK u : Term(R, E, E, u) /\ e = Forth(u)
    BY <1>2, <1>5
  <2>2. PICK m \in 0 .. R-1, n \in 0 .. E-1, k \in 0 .. E-1 : u = <<m * E + n, m * E + k, k * E + n>>
    BY <2>1 DEF Term
  <2> DEFINE t == <<k * E + n, k * R + m, m * E + n>>
  <2>3. Term(E, R, E, t)
    BY DEF Term
  <2>4. e = BackEdge(t)
    BY <1>3, <2>1, <2>2
  <2> HIDE DEF t
  <2> QED BY <1>1, <1>4, <2>3, <2>4
<1>8. back = forth
  BY <1>6, <1>7
<1> QED BY <1>8 DEF back, forth, BackEdge, P, Q, xT

\* Splitting the heads and merging them undo each other.
LEMMA HeadsTurned ==
  ASSUME NEW N \in Nat \ {0}, NEW len \in Nat, NEW h \in Nat \ {0}, NEW d \in Nat
  PROVE  /\ Flip(splitHeads(N, len, h, d)) = mergeHeads(N * h, N, len, h * d)
         /\ Flip(mergeHeads(N * h, N, len, h * d)) = splitHeads(N, len, h, d)
         /\ IsRel(splitHeads(N, len, h, d)) /\ IsRel(mergeHeads(N * h, N, len, h * d))
<1> DEFINE Places == (0..(N-1)) \X (0..(len-1)) \X (0..(h-1)) \X (0..(d-1))
           HeadPlace(t) == (t[1]*h + t[3]) * (len*d) + t[2]*d + t[4]
           Whole(t) == t[1]*(len*h*d) + t[2]*(h*d) + t[3]*d + t[4]
           Merged(t) == t[1]*(len*(h*d)) + t[2]*(h*d) + t[3]*d + t[4]
           split == splitHeads(N, len, h, d)
           merge == mergeHeads(N * h, N, len, h * d)
<1>1. (N * h) \div N = h /\ (h * d) \div h = d
  <2>1. N * h = h * N + 0 /\ h * d = d * h + 0 /\ 0 \in 0 .. N-1 /\ 0 \in 0 .. h-1
    OBVIOUS
  <2>2. (h * N + 0) \div N = h
    BY <2>1, DigitOf
  <2>3. (d * h + 0) \div h = d
    BY <2>1, DigitOf
  <2> QED BY <2>1, <2>2, <2>3
<1>2. split = {<<HeadPlace(t), Whole(t), <<>>>> : t \in Places}
  BY DEF splitHeads
<1>3. merge = {<<Merged(t), HeadPlace(t), <<>>>> : t \in Places}
  <2> DEFINE E == h * d
             B == N * h
  <2> HIDE DEF E, B
  <2>1. B \div N = h /\ E \div h = d
    BY <1>1 DEF B, E
  <2>2. mergeHeads(B, N, len, E) = {<<t[1]*(len*E) + t[2]*E + t[3]*d + t[4], HeadPlace(t), <<>>>> : t \in Places}
    BY <2>1 DEF mergeHeads
  <2> QED BY <2>2 DEF E, B
<1>4. \A t \in Places : Merged(t) = Whole(t)
  <2>1. len*h*d = len*(h*d)
    OBVIOUS
  <2> HIDE DEF Places
  <2> QED BY <2>1
<1> HIDE DEF Places, HeadPlace, Whole, Merged, split, merge
<1>5. \A e : e \in split <=> \E t \in Places : e = <<HeadPlace(t), Whole(t), <<>>>>
  BY <1>2
<1>6. \A e : e \in merge <=> \E t \in Places : e = <<Whole(t), HeadPlace(t), <<>>>>
  BY <1>3, <1>4
<1>7. \A e : e \in Flip(split) <=> e \in merge
  <2>1. \A e : e \in Flip(split) <=> \E r \in split : e = <<r[2], r[1], r[3]>>
    BY DEF Flip
  <2>2. ASSUME NEW e \in Flip(split) PROVE e \in merge
    <3>1. PICK r \in split : e = <<r[2], r[1], r[3]>>
      BY <2>1
    <3>2. PICK t \in Places : r = <<HeadPlace(t), Whole(t), <<>>>>
      BY <1>5, <1>6
    <3>3. e = <<Whole(t), HeadPlace(t), <<>>>>
      BY <3>1, <3>2
    <3> QED BY <1>5, <1>6, <3>3
  <2>3. ASSUME NEW e \in merge PROVE e \in Flip(split)
    <3>1. PICK t \in Places : e = <<Whole(t), HeadPlace(t), <<>>>>
      BY <1>5, <1>6
    <3> DEFINE r == <<HeadPlace(t), Whole(t), <<>>>>
    <3>2. r \in split /\ e = <<r[2], r[1], r[3]>>
      BY <1>5, <1>6, <3>1
    <3> HIDE DEF r
    <3> QED BY <2>1, <3>2
  <2> QED BY <2>2, <2>3
<1>8. \A e : e \in Flip(merge) <=> e \in split
  <2>1. \A e : e \in Flip(merge) <=> \E r \in merge : e = <<r[2], r[1], r[3]>>
    BY DEF Flip
  <2>2. ASSUME NEW e \in Flip(merge) PROVE e \in split
    <3>1. PICK r \in merge : e = <<r[2], r[1], r[3]>>
      BY <2>1
    <3>2. PICK t \in Places : r = <<Whole(t), HeadPlace(t), <<>>>>
      BY <1>5, <1>6
    <3>3. e = <<HeadPlace(t), Whole(t), <<>>>>
      BY <3>1, <3>2
    <3> QED BY <1>5, <1>6, <3>3
  <2>3. ASSUME NEW e \in split PROVE e \in Flip(merge)
    <3>1. PICK t \in Places : e = <<HeadPlace(t), Whole(t), <<>>>>
      BY <1>5, <1>6
    <3> DEFINE r == <<Whole(t), HeadPlace(t), <<>>>>
    <3>2. r \in merge /\ e = <<r[2], r[1], r[3]>>
      BY <1>5, <1>6, <3>1
    <3> HIDE DEF r
    <3> QED BY <2>1, <3>2
  <2> QED BY <2>2, <2>3
<1>9. IsRel(split) /\ IsRel(merge)
  BY <1>5, <1>6, NoFactors DEF IsRel
<1>10. Flip(split) = merge /\ Flip(merge) = split
  BY <1>7, <1>8
<1> QED BY <1>9, <1>10 DEF split, merge

\* What leads only to what is masked need not be computed.
LEMMA MaskedThen ==
  ASSUME NEW B, NEW C, NEW K, K \subseteq B, \A b \in B, c \in C : c[1] = b[2] => b \in K
  PROVE  Then(K, C) = Then(B, C)
<1>1. ASSUME NEW e \in Then(K, C) PROVE e \in Then(B, C)
  <2>1. PICK b \in K, c \in C : Joins(e, b, c)
    BY InThen
  <2> QED BY <2>1, InThen
<1>2. ASSUME NEW e \in Then(B, C) PROVE e \in Then(K, C)
  <2>1. PICK b \in B, c \in C : Joins(e, b, c)
    BY InThen
  <2>2. b \in K
    BY <2>1 DEF Joins
  <2> QED BY <2>1, <2>2, InThen
<1> QED BY <1>1, <1>2

LEMMA ThreeProjections ==
  ASSUME NEW a, NEW b, NEW c, NEW u, NEW v, NEW w
  PROVE  LET ps == {[edges |-> a, uses |-> u], [edges |-> b, uses |-> v], [edges |-> c, uses |-> w]}
         IN  UNION {p.edges : p \in ps} = a \union b \union c /\ UNION {p.uses : p \in ps} = u \union v \union w
<1> DEFINE p1 == [edges |-> a, uses |-> u]
           p2 == [edges |-> b, uses |-> v]
           p3 == [edges |-> c, uses |-> w]
           ps == {p1, p2, p3}
<1>1. p1.edges = a /\ p2.edges = b /\ p3.edges = c /\ p1.uses = u /\ p2.uses = v /\ p3.uses = w
  OBVIOUS
<1> HIDE DEF p1, p2, p3
<1>2. {p.edges : p \in ps} = {a, b, c} /\ {p.uses : p \in ps} = {u, v, w}
  BY <1>1
<1>3. UNION {a, b, c} = a \union b \union c /\ UNION {u, v, w} = u \union v \union w
  OBVIOUS
<1> QED BY <1>2, <1>3 DEF ps, p1, p2, p3

\* From the output to the input and to the parameters, from the shape of the input.
AttentionPaths(L, s, call) ==
  LET N == s[1]  len == s[2]  E == L.dim  h == L.heads  d == HeadDim(L)  B == N * h
      split   == splitHeads(N, len, h, d)
      product == matmul(<<N * len, E>>, <<E, E>>)
      KT      == transpose(<<B, len, d>>, 2, 3)
      scores  == Unmasked(L, len, matmul(<<B, len, d>>, <<B, d, len>>), 1)
      context == Unmasked(L, len, matmul(<<B, len, len>>, <<B, len, d>>), 2)
      C == Then(Linear("Wo", product), mergeHeads(B, N, len, E))
      S == Then(C, Then(AlongSaved(<<"V", call>>, context), softmaxLastDim(L, B, len, call)))
      Q == Then(S, Then({<<t[1], t[2], <<<<"K", call, KT[t[3]]>>>>>> : t \in scores}, split))
      K == Then(S, Then({<<t[1], KT[t[3]], <<<<"Q", call, t[2]>>>>>> : t \in scores}, split))
      V == Then(C, Then({<<t[1], t[3], <<<<"attn", call, t[2]>>>>>> : t \in context}, split))
      Part(R, W, b) == Then(R, LinearUses(W, <<"x", call>>, product) \union Bias(b, N * len, E))
  IN  [edges |-> Then(Q, Linear("Wq", product)) \union Then(K, Linear("Wk", product))
                   \union Then(V, Linear("Wv", product)),
       uses  |-> LinearUses("Wo", <<"merged", call>>, product) \union Bias("bo", N * len, E)
                   \union (Part(Q, "Wq", "bq") \union Part(K, "Wk", "bk") \union Part(V, "Wv", "bv"))]

\* What forward returns of a batch of sequences, when it succeeds.
LEMMA AttentionForwardIs ==
  ASSUME NEW L, NEW l, NEW call, NEW s, Len(s) = 3, l.built
  PROVE  AttentionForward(L, l, call, s) =
           Computed(Saves(l, call, s, {}), s, AttentionPaths(L, s, call).edges, AttentionPaths(L, s, call).uses)
<1> DEFINE N == s[1]  len == s[2]  E == L.dim  h == L.heads  d == HeadDim(L)  B == N * h
           split   == splitHeads(N, len, h, d)
           product == matmul(<<N * len, E>>, <<E, E>>)
           KT      == transpose(<<B, len, d>>, 2, 3)
           scores  == Unmasked(L, len, matmul(<<B, len, d>>, <<B, d, len>>), 1)
           context == Unmasked(L, len, matmul(<<B, len, len>>, <<B, len, d>>), 2)
           C == Then(Linear("Wo", product), mergeHeads(B, N, len, E))
           S == Then(C, Then(AlongSaved(<<"V", call>>, context), softmaxLastDim(L, B, len, call)))
           Q == Then(S, Then({<<t[1], t[2], <<<<"K", call, KT[t[3]]>>>>>> : t \in scores}, split))
           K == Then(S, Then({<<t[1], KT[t[3]], <<<<"Q", call, t[2]>>>>>> : t \in scores}, split))
           V == Then(C, Then({<<t[1], t[3], <<<<"attn", call, t[2]>>>>>> : t \in context}, split))
           x == <<"x", call>>
           Through(R, W, b) ==
             [edges |-> Then(R, Linear(W, product)),
              uses  |-> Then(R, LinearUses(W, x, product) \union Bias(b, N * len, E))]
           projections == {Through(Q, "Wq", "bq"), Through(K, "Wk", "bk"), Through(V, "Wv", "bv")}
           dq == Then(Q, Linear("Wq", product))
           dk == Then(K, Linear("Wk", product))
           dv == Then(V, Linear("Wv", product))
           uq == Then(Q, LinearUses("Wq", x, product) \union Bias("bq", N * len, E))
           uk == Then(K, LinearUses("Wk", x, product) \union Bias("bk", N * len, E))
           uv == Then(V, LinearUses("Wv", x, product) \union Bias("bv", N * len, E))
<1>1. AttentionForward(L, l, call, s) =
        IF Len(s) # 3 \/ ~l.built THEN Failed(l)
        ELSE Computed(Saves(l, call, s, {}), s,
                      UNION {p.edges : p \in projections},
                      LinearUses("Wo", <<"merged", call>>, product) \union Bias("bo", N * len, E)
                        \union UNION {p.uses : p \in projections})
  BY DEF AttentionForward
<1>2. UNION {p.edges : p \in projections} = dq \union dk \union dv
      /\ UNION {p.uses : p \in projections} = uq \union uk \union uv
  <2>1. projections = {[edges |-> dq, uses |-> uq], [edges |-> dk, uses |-> uk], [edges |-> dv, uses |-> uv]}
    OBVIOUS
  <2> HIDE DEF projections, dq, dk, dv, uq, uk, uv
  <2> QED BY <2>1, ThreeProjections
<1> DEFINE rest == LinearUses("Wo", <<"merged", call>>, product) \union Bias("bo", N * len, E)
<1>3. AttentionPaths(L, s, call) =
        [edges |-> dq \union dk \union dv, uses |-> rest \union (uq \union uk \union uv)]
  BY DEF AttentionPaths
<1>4. AttentionForward(L, l, call, s) =
        IF Len(s) # 3 \/ ~l.built THEN Failed(l)
        ELSE Computed(Saves(l, call, s, {}), s,
                      UNION {p.edges : p \in projections}, rest \union UNION {p.uses : p \in projections})
  BY <1>1
<1> DEFINE edges == dq \union dk \union dv
           uses == rest \union (uq \union uk \union uv)
           saved == Saves(l, call, s, {})
<1> HIDE DEF projections, dq, dk, dv, uq, uk, uv, rest
<1>5. AttentionForward(L, l, call, s) = Computed(saved, s, edges, uses)
  BY <1>2, <1>4, Zenon
<1> HIDE DEF edges, uses, saved
<1>6. AttentionPaths(L, s, call).edges = edges /\ AttentionPaths(L, s, call).uses = uses
  BY <1>3 DEF edges, uses
<1> QED BY <1>5, <1>6 DEF saved

\* The way back, from the shape and the call that forward saved.
AttentionGradients(L, s, call) ==
  LET N == s[1]  len == s[2]  E == L.dim  h == L.heads  d == HeadDim(L)  B == N * h
      WT == transpose(<<E, E>>, 1, 2)
      xT == transpose(<<N * len, E>>, 1, 2)
      AT == transpose(<<B, len, len>>, 2, 3)
      VT == transpose(<<B, len, d>>, 2, 3)
      dY == matmul(<<N * len, E>>, <<E, E>>)
      dW == matmul(<<E, N * len>>, <<N * len, E>>)
      full == matmul(<<B, len, len>>, <<B, len, d>>)
      Inputs(W) == {<<t[2], t[1], <<<<W, WT[t[3]]>>>>>> : t \in dY}
      Weights(W, from) == {<<t[3], <<W, t[1]>>, <<Append(from, xT[t[2]])>>>> : t \in dW}
      C == Then(Inputs("Wo"), Flip(splitHeads(N, len, h, d)))
      toAttn == {<<t[2], t[1], <<<<"V", call, VT[t[3]]>>>>>> : t \in matmul(<<B, len, d>>, <<B, d, len>>)}
      toV == {<<t[3], t[1], <<<<"attn", call, AT[t[2]]>>>>>> : t \in {t \in full : Attends(L, len, AT[t[2]])}}
      toQ == {<<t[2], t[1], <<<<"K", call, t[3]>>>>>> : t \in full}
      toK == {<<AT[t[2]], t[1], <<<<"Q", call, t[3]>>>>>> : t \in full}
      S == Then(C, Then(toAttn, softmaxLastDim(L, B, len, call)))
      merge == Flip(mergeHeads(B, N, len, E))
      Q == Then(S, Then(toQ, merge))
      K == Then(S, Then(toK, merge))
      V == Then(C, Then(toV, merge))
      Part(R, W, b) == Then(R, Weights(W, <<"x", call>>) \union Bias(b, N * len, E))
  IN  [edges |-> Then(Q, Inputs("Wq")) \union Then(K, Inputs("Wk")) \union Then(V, Inputs("Wv")),
       uses  |-> Weights("Wo", <<"merged", call>>) \union Bias("bo", N * len, E)
                   \union (Part(Q, "Wq", "bq") \union Part(K, "Wk", "bk") \union Part(V, "Wv", "bv"))]

\* What backward returns, of the context that forward saved.
LEMMA AttentionBackwardIs ==
  ASSUME NEW L, NEW l
  PROVE  AttentionBackward(L, l) = AttentionGradients(L, l.ctx.shape, l.ctx.call)
<1> DEFINE s == l.ctx.shape
           call == l.ctx.call
           N == s[1]  len == s[2]  E == L.dim  h == L.heads  d == HeadDim(L)  B == N * h
           WT == transpose(<<E, E>>, 1, 2)
           xT == transpose(<<N * len, E>>, 1, 2)
           AT == transpose(<<B, len, len>>, 2, 3)
           VT == transpose(<<B, len, d>>, 2, 3)
           dY == matmul(<<N * len, E>>, <<E, E>>)
           dW == matmul(<<E, N * len>>, <<N * len, E>>)
           full == matmul(<<B, len, len>>, <<B, len, d>>)
           Inputs(W) == {<<t[2], t[1], <<<<W, WT[t[3]]>>>>>> : t \in dY}
           Weights(W, from) == {<<t[3], <<W, t[1]>>, <<Append(from, xT[t[2]])>>>> : t \in dW}
           C == Then(Inputs("Wo"), Flip(splitHeads(N, len, h, d)))
           toAttn == {<<t[2], t[1], <<<<"V", call, VT[t[3]]>>>>>> : t \in matmul(<<B, len, d>>, <<B, d, len>>)}
           toV == {<<t[3], t[1], <<<<"attn", call, AT[t[2]]>>>>>> : t \in {t \in full : Attends(L, len, AT[t[2]])}}
           toQ == {<<t[2], t[1], <<<<"K", call, t[3]>>>>>> : t \in full}
           toK == {<<AT[t[2]], t[1], <<<<"Q", call, t[3]>>>>>> : t \in full}
           S == Then(C, Then(toAttn, softmaxLastDim(L, B, len, call)))
           merge == Flip(mergeHeads(B, N, len, E))
           Q == Then(S, Then(toQ, merge))
           K == Then(S, Then(toK, merge))
           V == Then(C, Then(toV, merge))
           Part(R, W, b) == Then(R, Weights(W, <<"x", call>>) \union Bias(b, N * len, E))
           BackProj(R, W, b) == [edges |-> Then(R, Inputs(W)), uses |-> Part(R, W, b)]
           projections == {BackProj(Q, "Wq", "bq"), BackProj(K, "Wk", "bk"), BackProj(V, "Wv", "bv")}
           dq == Then(Q, Inputs("Wq"))
           dk == Then(K, Inputs("Wk"))
           dv == Then(V, Inputs("Wv"))
           uq == Part(Q, "Wq", "bq")
           uk == Part(K, "Wk", "bk")
           uv == Part(V, "Wv", "bv")
           rest == Weights("Wo", <<"merged", call>>) \union Bias("bo", N * len, E)
<1>1. AttentionBackward(L, l) =
        [edges |-> UNION {p.edges : p \in projections},
         uses  |-> rest \union UNION {p.uses : p \in projections}]
  BY DEF AttentionBackward
<1>2. AttentionGradients(L, s, call) =
        [edges |-> dq \union dk \union dv, uses |-> rest \union (uq \union uk \union uv)]
  BY DEF AttentionGradients
<1>3. projections = {[edges |-> dq, uses |-> uq], [edges |-> dk, uses |-> uk], [edges |-> dv, uses |-> uv]}
  OBVIOUS
<1>4. UNION {p.edges : p \in projections} = dq \union dk \union dv
      /\ UNION {p.uses : p \in projections} = uq \union uk \union uv
  <2> HIDE DEF projections, dq, dk, dv, uq, uk, uv
  <2> QED BY <1>3, ThreeProjections
<1> HIDE DEF projections, dq, dk, dv, uq, uk, uv, rest
<1>5. AttentionBackward(L, l) = AttentionGradients(L, s, call)
  BY <1>1, <1>2, <1>4
<1> QED BY <1>5 DEF s, call

\* The softmax leads from and to what is not masked.
LEMMA SoftmaxMasked ==
  ASSUME NEW L, NEW B, NEW len, NEW call
  PROVE  \A e \in softmaxLastDim(L, B, len, call) :
           /\ Attends(L, len, e[1]) /\ Attends(L, len, e[2])
           /\ e = <<e[1], e[2], e[3]>> /\ IsList(e[3])
<1> SUFFICES ASSUME NEW e \in softmaxLastDim(L, B, len, call)
             PROVE  /\ Attends(L, len, e[1]) /\ Attends(L, len, e[2])
                    /\ e = <<e[1], e[2], e[3]>> /\ IsList(e[3])
  OBVIOUS
<1> DEFINE all == {<<r * len + i, r * len + j, <<<<"row", call, r, i, j>>>>>> :
                     r \in 0..(B * len - 1), i \in 0..(len - 1), j \in 0..(len - 1)}
<1>1. softmaxLastDim(L, B, len, call) = Unmasked(L, len, Unmasked(L, len, all, 1), 2)
  BY DEF softmaxLastDim
<1>2. e \in all /\ Attends(L, len, e[1]) /\ Attends(L, len, e[2])
  <2> HIDE DEF all
  <2> QED BY <1>1 DEF Unmasked
<1>3. PICK r \in 0..(B * len - 1), i \in 0..(len - 1), j \in 0..(len - 1) :
        e = <<r * len + i, r * len + j, <<<<"row", call, r, i, j>>>>>>
  BY <1>2
<1>4. IsList(<<<<"row", call, r, i, j>>>>)
  BY OneFactor
<1>5. e = <<e[1], e[2], e[3]>> /\ IsList(e[3])
  BY <1>3, <1>4, EdgeIs
<1> QED BY <1>2, <1>5

\* The way back is the way forth.
LEMMA AttentionBothWays ==
  ASSUME NEW L, NEW s, NEW call, s[1] \in Nat \ {0}, s[2] \in Nat, L.dim \in Nat,
         L.heads \in Nat \ {0}, L.dim % L.heads = 0
  PROVE  AttentionGradients(L, s, call) = AttentionPaths(L, s, call)
<1> DEFINE N == s[1]  len == s[2]  E == L.dim  h == L.heads  d == HeadDim(L)  B == N * h
           x == <<"x", call>>
           \* forth
           split   == splitHeads(N, len, h, d)
           mergef  == mergeHeads(B, N, len, E)
           product == matmul(<<N * len, E>>, <<E, E>>)
           KT      == transpose(<<B, len, d>>, 2, 3)
           all     == matmul(<<B, len, d>>, <<B, d, len>>)
           scores  == Unmasked(L, len, all, 1)
           full    == matmul(<<B, len, len>>, <<B, len, d>>)
           context == Unmasked(L, len, full, 2)
           soft    == softmaxLastDim(L, B, len, call)
           FromAttn == AlongSaved(<<"V", call>>, context)
           FromQ == {<<t[1], t[2], <<<<"K", call, KT[t[3]]>>>>>> : t \in scores}
           FromK == {<<t[1], KT[t[3]], <<<<"Q", call, t[2]>>>>>> : t \in scores}
           FromV == {<<t[1], t[3], <<<<"attn", call, t[2]>>>>>> : t \in context}
           \* and back
           WT == transpose(<<E, E>>, 1, 2)
           xT == transpose(<<N * len, E>>, 1, 2)
           AT == transpose(<<B, len, len>>, 2, 3)
           dW == matmul(<<E, N * len>>, <<N * len, E>>)
           Inputs(W) == {<<t[2], t[1], <<<<W, WT[t[3]]>>>>>> : t \in product}
           Weights(W, from) == {<<t[3], <<W, t[1]>>, <<Append(from, xT[t[2]])>>>> : t \in dW}
           toAttn == {<<t[2], t[1], <<<<"V", call, KT[t[3]]>>>>>> : t \in all}
           toV == {<<t[3], t[1], <<<<"attn", call, AT[t[2]]>>>>>> : t \in {t \in full : Attends(L, len, AT[t[2]])}}
           toQ == {<<t[2], t[1], <<<<"K", call, t[3]>>>>>> : t \in full}
           toK == {<<AT[t[2]], t[1], <<<<"Q", call, t[3]>>>>>> : t \in full}
           splitf == Flip(split)
           merge == Flip(mergef)
<1>1. /\ N \in Nat \ {0} /\ len \in Nat /\ E \in Nat /\ h \in Nat \ {0} /\ d \in Nat /\ B \in Nat
      /\ N * len \in Nat /\ E = h * d
  <2>1. N \in Nat \ {0} /\ len \in Nat /\ E \in Nat /\ h \in Nat \ {0} /\ E % h = 0
    OBVIOUS
  <2>2. d = E \div h
    BY DEF HeadDim
  <2> HIDE DEF N, len, E, h, d
  <2>3. d \in Nat /\ E = h * d
    BY <2>1, <2>2
  <2>4. B \in Nat /\ N * len \in Nat
    BY <2>1, ProductNat
  <2> QED BY <2>1, <2>3, <2>4
<1> HIDE DEF N, len, E, h, d
<1>2. B \in Nat
  BY <1>1
<1>3. splitf = mergef /\ merge = split
  <2>1. mergef = mergeHeads(N * h, N, len, h * d)
    BY <1>1
  <2> HIDE DEF mergef, split
  <2>2. Flip(splitHeads(N, len, h, d)) = mergeHeads(N * h, N, len, h * d)
    BY <1>1, HeadsTurned
  <2>3. Flip(mergeHeads(N * h, N, len, h * d)) = splitHeads(N, len, h, d)
    BY <1>1, HeadsTurned
  <2> QED BY <2>1, <2>2, <2>3 DEF split
<1> HIDE DEF B
<1>4. \A W : Inputs(W) = Linear(W, product)
  BY <1>1, ProjectionInputs
<1>5. \A W, from : Weights(W, from) = LinearUses(W, from, product)
  BY <1>1, ProjectionWeights
<1>6. toAttn = AlongSaved(<<"V", call>>, full)
  BY <1>1, <1>2, AttentionGradient
<1>7. toQ = {<<t[1], t[2], <<<<"K", call, KT[t[3]]>>>>>> : t \in all}
  BY <1>1, <1>2, QueryGradient
<1>8. toK = {<<t[1], KT[t[3]], <<<<"Q", call, t[2]>>>>>> : t \in all}
  <2>1. KeysBack(B, len, d, call) = KeysForth(B, len, d, call)
    BY <1>1, <1>2, KeyGradient
  <2> QED BY <2>1, Zenon DEF KeysBack, KeysForth
<1>9. toV = FromV
  <2>1. ValuesBack(L, B, len, d, call) = ValuesForth(L, B, len, d, call)
    BY <1>1, <1>2, ValueGradient
  <2> QED BY <2>1, Zenon DEF ValuesBack, ValuesForth
<1>10. \A e \in soft : Attends(L, len, e[1]) /\ Attends(L, len, e[2])
  BY SoftmaxMasked
<1> HIDE DEF splitf, merge, split, mergef, product, KT, soft, toAttn, toQ, toK, toV, Inputs, Weights, all, full
<1>11. Then(toAttn, soft) = Then(FromAttn, soft)
  <2>1. FromAttn \subseteq toAttn
    BY <1>6 DEF AlongSaved, Unmasked
  <2>2. ASSUME NEW b \in toAttn, NEW c \in soft, c[1] = b[2] PROVE b \in FromAttn
    <3>1. PICK t \in full : b = <<t[1], t[2], <<Append(<<"V", call>>, t[3])>>>>
      BY <1>6 DEF AlongSaved
    <3>2. Attends(L, len, t[2])
      BY <1>10, <2>2, <3>1
    <3> QED BY <3>1, <3>2 DEF AlongSaved, Unmasked
  <2> HIDE DEF FromAttn
  <2> QED BY <2>1, <2>2, MaskedThen
<1> DEFINE C == Then(Linear("Wo", product), mergef)
           S == Then(C, Then(FromAttn, soft))
<1>12. \A e \in S : Attends(L, len, e[2])
  <2> SUFFICES ASSUME NEW e \in S PROVE Attends(L, len, e[2])
    OBVIOUS
  <2> HIDE DEF C, FromAttn
  <2>1. PICK r \in C, f \in Then(FromAttn, soft) : Joins(e, r, f)
    BY InThen
  <2>2. PICK a \in FromAttn, c \in soft : Joins(f, a, c)
    BY InThen
  <2>3. e[2] = c[2]
    BY <2>1, <2>2 DEF Joins
  <2> QED BY <1>10, <2>3
<1> HIDE DEF S, C, FromAttn
<1>13. Then(S, Then(FromQ, split)) = Then(S, Then(toQ, split))
  <2> DEFINE Edge(t) == <<t[1], t[2], <<<<"K", call, KT[t[3]]>>>>>>
  <2>1. \A e : e \in toQ <=> \E t \in all : e = Edge(t)
    BY <1>7
  <2>2. \A e : e \in FromQ <=> \E t \in all : Attends(L, len, t[1]) /\ e = Edge(t)
    BY DEF Unmasked
  <2>3. \A t : Edge(t)[1] = t[1]
    OBVIOUS
  <2> HIDE DEF FromQ, Edge
  <2>4. FromQ \subseteq toQ
    BY <2>1, <2>2
  <2>5. ASSUME NEW a \in S, NEW b \in toQ, b[1] = a[2] PROVE b \in FromQ
    BY <1>12, <2>1, <2>2, <2>3, <2>5
  <2> QED BY <2>4, <2>5, ThenMasked
<1>14. Then(S, Then(FromK, split)) = Then(S, Then(toK, split))
  <2> DEFINE Edge(t) == <<t[1], KT[t[3]], <<<<"Q", call, t[2]>>>>>>
  <2>1. \A e : e \in toK <=> \E t \in all : e = Edge(t)
    BY <1>8
  <2>2. \A e : e \in FromK <=> \E t \in all : Attends(L, len, t[1]) /\ e = Edge(t)
    BY DEF Unmasked
  <2>3. \A t : Edge(t)[1] = t[1]
    OBVIOUS
  <2> HIDE DEF FromK, Edge
  <2>4. FromK \subseteq toK
    BY <2>1, <2>2
  <2>5. ASSUME NEW a \in S, NEW b \in toK, b[1] = a[2] PROVE b \in FromK
    BY <1>12, <2>1, <2>2, <2>3, <2>5
  <2> QED BY <2>4, <2>5, ThenMasked
<1> HIDE DEF FromQ, FromK, FromV
<1> DEFINE Q == Then(S, Then(FromQ, split))
           K == Then(S, Then(FromK, split))
           V == Then(C, Then(FromV, split))
           Part(R, W, b) == Then(R, LinearUses(W, x, product) \union Bias(b, N * len, E))
           paths == [edges |-> Then(Q, Linear("Wq", product)) \union Then(K, Linear("Wk", product))
                                 \union Then(V, Linear("Wv", product)),
                     uses  |-> LinearUses("Wo", <<"merged", call>>, product) \union Bias("bo", N * len, E)
                                 \union (Part(Q, "Wq", "bq") \union Part(K, "Wk", "bk") \union Part(V, "Wv", "bv"))]
<1>15. AttentionPaths(L, s, call) = paths
  BY DEF AttentionPaths, paths, Q, K, V, Part, C, S, FromAttn, FromQ, FromK, FromV, split, mergef, product, KT,
         all, full, soft, N, len, E, h, d, B, x
<1> DEFINE Cb == Then(Inputs("Wo"), splitf)
           Sb == Then(Cb, Then(toAttn, soft))
           Qb == Then(Sb, Then(toQ, merge))
           Kb == Then(Sb, Then(toK, merge))
           Vb == Then(Cb, Then(toV, merge))
           PartB(R, W, b) == Then(R, Weights(W, x) \union Bias(b, N * len, E))
           gradients == [edges |-> Then(Qb, Inputs("Wq")) \union Then(Kb, Inputs("Wk"))
                                     \union Then(Vb, Inputs("Wv")),
                         uses  |-> Weights("Wo", <<"merged", call>>) \union Bias("bo", N * len, E)
                                     \union (PartB(Qb, "Wq", "bq") \union PartB(Kb, "Wk", "bk")
                                       \union PartB(Vb, "Wv", "bv"))]
<1>16. AttentionGradients(L, s, call) = gradients
  BY DEF AttentionGradients, gradients, Qb, Kb, Vb, PartB, Cb, Sb, splitf, merge, split, mergef, product, KT,
         all, full, soft, N, len, E, h, d, B, x, Inputs, Weights, toAttn, toQ, toK, toV
<1>17. Cb = C
  BY <1>3, <1>4 DEF C
<1>18. Sb = S
  BY <1>11, <1>17 DEF S
<1>19. Qb = Q /\ Kb = K /\ Vb = V
  BY <1>3, <1>9, <1>13, <1>14, <1>17, <1>18
<1> HIDE DEF Q, K, V, Qb, Kb, Vb, Cb, Sb
<1>20. \A R, W, b : PartB(R, W, b) = Part(R, W, b)
  BY <1>5
<1> HIDE DEF Part, PartB
<1>21. gradients = paths
  BY <1>4, <1>5, <1>19, <1>20
<1> HIDE DEF gradients, paths
<1> QED BY <1>15, <1>16, <1>21

\* Edges given term by term.
LEMMA TermsAreRel ==
  ASSUME NEW R, \A e \in R : \E a, b, v : e = <<a, b, <<v>>>>
  PROVE  IsRel(R)
<1> SUFFICES ASSUME NEW e \in R PROVE e = <<e[1], e[2], e[3]>> /\ IsList(e[3])
  BY DEF IsRel
<1>1. PICK a, b, v : e = <<a, b, <<v>>>>
  OBVIOUS
<1>2. IsList(<<v>>)
  BY OneFactor
<1> QED BY <1>1, <1>2, EdgeIs

LEMMA ThreePartsRel ==
  ASSUME NEW Q, NEW K, NEW V, IsRel(Q), IsRel(K), IsRel(V),
         NEW A, NEW B, NEW C, IsRel(A), IsRel(B), IsRel(C)
  PROVE  IsRel(Then(Q, A) \union Then(K, B) \union Then(V, C))
<1>1. IsRel(Then(Q, A)) /\ IsRel(Then(K, B)) /\ IsRel(Then(V, C))
  BY ThenIsRel
<1> QED BY <1>1 DEF IsRel

\* The paths are edges from the elements of the input.
LEMMA AttentionPathsAre ==
  ASSUME NEW L, NEW s, NEW call, s[1] \in Nat \ {0}, s[2] \in Nat, L.dim \in Nat,
         L.heads \in Nat \ {0}, L.dim % L.heads = 0
  PROVE  /\ IsRel(AttentionPaths(L, s, call).edges) /\ IsRel(AttentionPaths(L, s, call).uses)
         /\ \A e \in AttentionPaths(L, s, call).edges : e[2] \in Offsets(<<s[1], s[2], L.dim>>)
         /\ AttentionPaths(L, s, call)
              = [edges |-> AttentionPaths(L, s, call).edges, uses |-> AttentionPaths(L, s, call).uses]
<1> DEFINE N == s[1]  len == s[2]  E == L.dim  h == L.heads  d == HeadDim(L)  B == N * h
           x == <<"x", call>>
           split   == splitHeads(N, len, h, d)
           merge   == mergeHeads(B, N, len, E)
           product == matmul(<<N * len, E>>, <<E, E>>)
           KT      == transpose(<<B, len, d>>, 2, 3)
           scores  == Unmasked(L, len, matmul(<<B, len, d>>, <<B, d, len>>), 1)
           context == Unmasked(L, len, matmul(<<B, len, len>>, <<B, len, d>>), 2)
           soft    == softmaxLastDim(L, B, len, call)
           FromAttn == AlongSaved(<<"V", call>>, context)
           FromQ == {<<t[1], t[2], <<<<"K", call, KT[t[3]]>>>>>> : t \in scores}
           FromK == {<<t[1], KT[t[3]], <<<<"Q", call, t[2]>>>>>> : t \in scores}
           FromV == {<<t[1], t[3], <<<<"attn", call, t[2]>>>>>> : t \in context}
           C == Then(Linear("Wo", product), merge)
           S == Then(C, Then(FromAttn, soft))
           Q == Then(S, Then(FromQ, split))
           K == Then(S, Then(FromK, split))
           V == Then(C, Then(FromV, split))
           Part(W, b) == LinearUses(W, x, product) \union Bias(b, N * len, E)
           edges == Then(Q, Linear("Wq", product)) \union Then(K, Linear("Wk", product))
                      \union Then(V, Linear("Wv", product))
           uses == LinearUses("Wo", <<"merged", call>>, product) \union Bias("bo", N * len, E)
                     \union (Then(Q, Part("Wq", "bq")) \union Then(K, Part("Wk", "bk")) \union Then(V, Part("Wv", "bv")))
<1>1. AttentionPaths(L, s, call) = [edges |-> edges, uses |-> uses]
  BY DEF AttentionPaths
<1>2. /\ N \in Nat \ {0} /\ len \in Nat /\ E \in Nat /\ h \in Nat \ {0} /\ d \in Nat /\ B \in Nat
      /\ N * len \in Nat /\ E = h * d
  <2>1. N \in Nat \ {0} /\ len \in Nat /\ E \in Nat /\ h \in Nat \ {0} /\ E % h = 0
    OBVIOUS
  <2>2. d = E \div h
    BY DEF HeadDim
  <2> HIDE DEF N, len, E, h, d
  <2>3. d \in Nat /\ E = h * d
    BY <2>1, <2>2
  <2>4. B \in Nat /\ N * len \in Nat
    BY <2>1, ProductNat
  <2> QED BY <2>1, <2>3, <2>4
<1> HIDE DEF N, len, E, h, d
<1>3. IsRel(split) /\ IsRel(merge)
  <2>1. merge = mergeHeads(N * h, N, len, h * d)
    BY <1>2
  <2> HIDE DEF merge, split
  <2>2. IsRel(mergeHeads(N * h, N, len, h * d)) /\ IsRel(splitHeads(N, len, h, d))
    BY <1>2, HeadsTurned
  <2> QED BY <2>1, <2>2 DEF split
<1>4. IsRel(soft)
  <2>1. \A e \in soft : e = <<e[1], e[2], e[3]>> /\ IsList(e[3])
    BY SoftmaxMasked
  <2> HIDE DEF soft
  <2> QED BY <2>1 DEF IsRel
<1>5. IsRel(FromAttn) /\ \A W : IsRel(Linear(W, product))
  BY SavedIsRel, LinearIsRel
<1>6. \A W, b : IsRel(Part(W, b))
  BY UsesIsRel, BiasIsRel, RelUnion
<1>7. IsRel(LinearUses("Wo", <<"merged", call>>, product) \union Bias("bo", N * len, E))
  BY UsesIsRel, BiasIsRel, RelUnion
<1>8. \A e \in Linear("Wq", product) \union Linear("Wk", product) \union Linear("Wv", product) :
        e[2] \in Offsets(<<N, len, E>>)
  <2>1. \A t \in product : t[2] \in Offsets(<<N, len, E>>)
    <3> SUFFICES ASSUME NEW t \in product PROVE t[2] \in Offsets(<<N, len, E>>)
      OBVIOUS
    <3> DEFINE M == N * len
    <3>1. M \in Nat
      BY <1>2
    <3>2. Term(M, E, E, t)
      <4> HIDE DEF M
      <4>1. t \in matmul(<<M, E>>, <<E, E>>)
        BY DEF M
      <4> QED BY <1>2, <3>1, <4>1, Terms
    <3> HIDE DEF M, product
    <3>3. PICK m \in 0 .. M-1, n \in 0 .. E-1, k \in 0 .. E-1 : t = <<m * E + n, m * E + k, k * E + n>>
      BY <3>2 DEF Term
    <3>4. t[2] = m * E + k /\ m * E + k \in 0 .. M * E - 1
      BY <1>2, <3>1, <3>3, DigitBounds
    <3>5. Offsets(<<N, len, E>>) = 0 .. M * E - 1
      BY <1>2, OffsetsThree DEF M
    <3> QED BY <3>4, <3>5
  <2> HIDE DEF product
  <2> QED BY <2>1 DEF Linear
<1>9. IsRel(FromQ) /\ IsRel(FromK) /\ IsRel(FromV)
  <2> HIDE DEF scores, context, KT
  <2>1. IsRel(FromQ)
    BY TermsAreRel
  <2>2. IsRel(FromK)
    BY TermsAreRel
  <2>3. IsRel(FromV)
    BY TermsAreRel
  <2> QED BY <2>1, <2>2, <2>3
<1> HIDE DEF split, merge, product, soft, FromAttn, FromQ, FromK, FromV, Part
<1>10. IsRel(C) /\ IsRel(S)
  BY <1>3, <1>4, <1>5, ThenIsRel
<1> HIDE DEF C, S
<1>11. IsRel(Q) /\ IsRel(K) /\ IsRel(V)
  BY <1>3, <1>9, <1>10, ThenIsRel
<1> HIDE DEF Q, K, V
<1>12. IsRel(edges)
  BY <1>5, <1>11, ThreePartsRel
<1>13. IsRel(uses)
  <2>1. IsRel(Then(Q, Part("Wq", "bq")) \union Then(K, Part("Wk", "bk")) \union Then(V, Part("Wv", "bv")))
    BY <1>6, <1>11, ThreePartsRel
  <2> QED BY <1>7, <2>1, RelUnion
<1>14. \A e \in edges : e[2] \in Offsets(<<N, len, E>>)
  <2> SUFFICES ASSUME NEW e \in edges PROVE e[2] \in Offsets(<<N, len, E>>)
    OBVIOUS
  <2>1. \E W \in {"Wq", "Wk", "Wv"} : \E R : e \in Then(R, Linear(W, product))
    OBVIOUS
  <2>2. PICK W, R : W \in {"Wq", "Wk", "Wv"} /\ e \in Then(R, Linear(W, product))
    BY <2>1
  <2>3. PICK r \in R, f \in Linear(W, product) : Joins(e, r, f)
    BY <2>2, InThen
  <2> QED BY <1>8, <2>2, <2>3 DEF Joins
<1> HIDE DEF edges, uses
<1>15. AttentionPaths(L, s, call).edges = edges /\ AttentionPaths(L, s, call).uses = uses
  BY <1>1
<1> QED BY <1>1, <1>12, <1>13, <1>14, <1>15 DEF N, len, E

\* Attention, masked or not, with any number of heads.
LEMMA AttentionAdjoint ==
  ASSUME NEW L, NEW l, IsLayer(l), L.kind = "Attention", NEW call, NEW tokens, NEW keep,
         NEW N \in Nat \ {0}, NEW len \in Nat, L.dim \in Nat, L.heads \in Nat \ {0}, L.dim % L.heads = 0,
         LayerForward(L, l, call, <<N, len, L.dim>>, tokens, keep).ok
  PROVE  LET v == <<N, len, L.dim>>
             r == LayerForward(L, l, call, v, tokens, keep)
         IN  Adjoint(L, r) /\ Reads(r, v) /\ r.shape = v /\ r.layer.training = l.training
<1> DEFINE v == <<N, len, L.dim>>
           m == Saves(l, call, v, {})
           r == LayerForward(L, l, call, v, tokens, keep)
           p == AttentionPaths(L, v, call)
<1>1. v[1] = N /\ v[2] = len /\ Len(v) = 3
  OBVIOUS
<1>2. r = AttentionForward(L, l, call, v) /\ LayerBackward(L, m, v) = AttentionBackward(L, m)
  BY DEF LayerForward, LayerBackward
<1>3. r.ok
  OBVIOUS
<1> HIDE DEF v, r, m
<1>4. l.built
  <2> SUFFICES ASSUME ~l.built PROVE FALSE
    OBVIOUS
  <2>1. r = Failed(l)
    BY <1>2 DEF AttentionForward
  <2> QED BY <1>3, <2>1 DEF Failed
<1>5. r = Computed(m, v, p.edges, p.uses)
  BY <1>1, <1>2, <1>4, AttentionForwardIs DEF m
<1> HIDE DEF p
<1>6. r.layer = m /\ r.shape = v /\ r.edges = p.edges /\ r.uses = p.uses
  BY <1>5, ComputedHas
<1>7. Remembered(m, l, call, v, {})
  BY SavesContext DEF m
<1>8. m.ctx.shape = v /\ m.ctx.call = call /\ m.training = l.training
  BY <1>7 DEF Remembered
<1>9. LayerBackward(L, m, v) = p
  <2>1. AttentionBackward(L, m) = AttentionGradients(L, m.ctx.shape, m.ctx.call)
    BY AttentionBackwardIs
  <2>2. AttentionGradients(L, v, call) = AttentionPaths(L, v, call)
    BY <1>1, AttentionBothWays
  <2> QED BY <1>2, <1>8, <2>1, <2>2 DEF p
<1>10. p = [edges |-> p.edges, uses |-> p.uses]
  BY <1>1, AttentionPathsAre DEF p
<1>11. IsRel(p.edges) /\ IsRel(p.uses) /\ \A e \in p.edges : e[2] \in Offsets(v)
  <2>1. IsRel(p.edges) /\ IsRel(p.uses) /\ \A e \in p.edges : e[2] \in Offsets(<<v[1], v[2], L.dim>>)
    BY <1>1, AttentionPathsAre DEF p
  <2> QED BY <1>1, <2>1 DEF v
<1>12. Adjoint(L, r) /\ Reads(r, v)
  BY <1>6, <1>9, <1>10, <1>11 DEF Adjoint, Reads
<1> QED BY <1>6, <1>8, <1>12 DEF r, v

-----------------------------------------------------------------------------
(***************************************************************************)
(* Shapes.  A layer is run with a batch of what it was built with, and     *)
(* returns a batch of what it announced, whatever the number of samples.   *)
(***************************************************************************)

\* The shape s of a build with N samples.
InBatch(batched, N, s) == IF batched THEN [s EXCEPT ![1] = N] ELSE <<N>> \o s

\* A sequence of one, two and three elements, by its elements.
LEMMA TupleOne ==
  ASSUME NEW X, NEW s \in Seq(X), Len(s) = 1
  PROVE  s = <<s[1]>> /\ s[1] \in X
<1>1. s[1] \in X
  OBVIOUS
<1>2. Len(<<s[1]>>) = 1 /\ <<s[1]>> \in Seq(X)
  BY <1>1
<1> QED BY <1>1, <1>2

LEMMA TupleTwo ==
  ASSUME NEW X, NEW s \in Seq(X), Len(s) = 2
  PROVE  s = <<s[1], s[2]>> /\ s[1] \in X /\ s[2] \in X
<1>1. s[1] \in X /\ s[2] \in X
  OBVIOUS
<1>2. Len(<<s[1], s[2]>>) = 2 /\ <<s[1], s[2]>> \in Seq(X)
  BY <1>1
<1> QED BY <1>1, <1>2

LEMMA TupleThree ==
  ASSUME NEW X, NEW s \in Seq(X), Len(s) = 3
  PROVE  s = <<s[1], s[2], s[3]>> /\ s[1] \in X /\ s[2] \in X /\ s[3] \in X
<1>1. s[1] \in X /\ s[2] \in X /\ s[3] \in X
  <2>1. \A i \in 1 .. 3 : s[i] \in X
    OBVIOUS
  <2> QED BY <2>1
<1>2. Len(<<s[1], s[2], s[3]>>) = 3 /\ <<s[1], s[2], s[3]>> \in Seq(X)
  BY <1>1
<1> QED BY <1>1, <1>2

\* The samples before the dimensions of one of them.
LEMMA PrependToOne ==
  ASSUME NEW a, NEW b
  PROVE  <<a>> \o <<b>> = <<a, b>>
<1> DEFINE X == {a, b}
           s == <<a>>
           t == <<b>>
<1>1. s \in Seq(X) /\ t \in Seq(X)
  OBVIOUS
<1>2. Len(s) = 1 /\ Len(t) = 1 /\ s[1] = a /\ t[1] = b
  OBVIOUS
<1> HIDE DEF X, s, t
<1> DEFINE u == s \o t
<1>3. u \in Seq(X) /\ Len(u) = Len(s) + Len(t)
      /\ \A i \in 1 .. Len(s) + Len(t) : u[i] = IF i <= Len(s) THEN s[i] ELSE t[i - Len(s)]
  BY <1>1, ConcatProperties
<1> HIDE DEF u
<1>4. u \in Seq(X) /\ Len(u) = 2 /\ u[1] = a /\ u[2] = b
  BY <1>2, <1>3
<1>5. u = <<a, b>>
  BY <1>4
<1> QED BY <1>5 DEF u, s, t

LEMMA PrependToTwo ==
  ASSUME NEW a, NEW b, NEW c
  PROVE  <<a>> \o <<b, c>> = <<a, b, c>>
<1> DEFINE X == {a, b, c}
           s == <<a>>
           t == <<b, c>>
<1>1. s \in Seq(X) /\ t \in Seq(X)
  OBVIOUS
<1>2. Len(s) = 1 /\ Len(t) = 2 /\ s[1] = a /\ t[1] = b /\ t[2] = c
  OBVIOUS
<1> HIDE DEF X, s, t
<1> DEFINE u == s \o t
<1>3. u \in Seq(X) /\ Len(u) = Len(s) + Len(t)
      /\ \A i \in 1 .. Len(s) + Len(t) : u[i] = IF i <= Len(s) THEN s[i] ELSE t[i - Len(s)]
  BY <1>1, ConcatProperties
<1> HIDE DEF u
<1>4. u \in Seq(X) /\ Len(u) = 3 /\ u[1] = a /\ u[2] = b /\ u[3] = c
  BY <1>2, <1>3
<1>5. u = <<a, b, c>>
  BY <1>4
<1> QED BY <1>5 DEF u, s, t

\* One vector a sample.
IsVector(b, s) == s \in Seq(Nat) /\ Len(s) = IF b THEN 2 ELSE 1

\* t is s but for the last dimension, x.
Widened(s, x, t) == t = [s EXCEPT ![Len(s)] = x]

LEMMA VectorIs ==
  ASSUME NEW b, NEW s, IsVector(b, s)
  PROVE  s # <<>>
<1>1. Len(s) # Len(<<>>)
  BY DEF IsVector
<1> QED BY <1>1, Zenon

\* A batch of vectors is a matrix.
LEMMA RowOfSample ==
  ASSUME NEW b, b \in BOOLEAN, NEW s, IsVector(b, s), NEW N, N \in Nat, NEW x, x \in Nat,
         NEW t, Widened(s, x, t)
  PROVE  /\ InBatch(b, N, s) = <<N, Last(s)>> /\ Last(s) \in Nat
         /\ InBatch(b, N, t) = <<N, x>> /\ Last(t) = x
<1> USE DEF IsVector, Widened
<1>1. CASE b
  <2>1. s = <<s[1], s[2]>> /\ s[1] \in Nat /\ s[2] \in Nat /\ Len(s) = 2
    BY <1>1, TupleTwo
  <2>2. PICK p \in Nat, q \in Nat : s = <<p, q>>
    BY <2>1
  <2>3. Last(s) = q /\ t = <<p, x>> /\ [s EXCEPT ![1] = N] = <<N, q>>
    BY <2>2 DEF Last
  <2>4. Last(<<p, x>>) = x /\ [<<p, x>> EXCEPT ![1] = N] = <<N, x>>
    BY DEF Last
  <2>5. \A w : InBatch(b, N, w) = [w EXCEPT ![1] = N]
    BY <1>1 DEF InBatch
  <2> QED BY <2>3, <2>4, <2>5
<1>2. CASE ~b
  <2>1. s = <<s[1]>> /\ s[1] \in Nat /\ Len(s) = 1
    BY <1>2, TupleOne
  <2>2. PICK p \in Nat : s = <<p>>
    BY <2>1
  <2>3. Last(s) = p /\ t = <<x>>
    BY <2>2 DEF Last
  <2>4. Last(<<x>>) = x /\ <<N>> \o <<x>> = <<N, x>> /\ <<N>> \o <<p>> = <<N, p>>
    BY PrependToOne DEF Last
  <2> QED BY <1>2, <2>1, <2>2, <2>3, <2>4 DEF InBatch
<1> QED BY <1>1, <1>2

\* What a layer announces for a shape s the first time.
AnnouncedShape(L, s) ==
  CASE L.kind = "Dense"     -> [s EXCEPT ![Len(s)] = L.out]
    [] L.kind = "Conv2D"    -> ConvOut(L, s)
    [] L.kind = "Embedding" -> <<Last(s), L.dim>>
    [] L.kind = "Attention" -> <<s[1], L.dim>>
    [] OTHER                -> s

\* Built again, a Dense announces its rows alone.
Near(b, u, s) == u = s \/ (b /\ u = <<Last(s)>>)

\* The layers that allocate for the last dimension alone.
Widths == {"Dense", "BatchNorm1d", "LayerNorm"}

\* The layer was allocated for s.
Wide(L, l, s)  == L.kind \in Widths => l.dims = <<Last(s)>>
Sized(L, l, s) == Wide(L, l, s) /\ (L.kind = "Conv2D" => l.dims = s)

\* A build that succeeded, and left the mode.
Done(r, l, t, d) == Succeeds(r, t, d) /\ r.layer.training = l.training

LEMMA BuiltDone ==
  ASSUME NEW l, IsLayer(l), NEW t
  PROVE  Done(Built(t, l), l, t, l.dims)
<1> DEFINE m == [l EXCEPT !.built = TRUE]
<1>1. m = [built |-> TRUE, dims |-> l.dims, inits |-> l.inits,
           training |-> l.training, ctx |-> l.ctx, running |-> l.running]
  BY FieldsUpdated, Zenon
<1>2. Built(t, l) = [ok |-> TRUE, shape |-> t, layer |-> m]
  BY DEF Built
<1>3. Succeeds(Built(t, l), t, l.dims)
  BY BuiltIs
<1> HIDE DEF m
<1>4. Built(t, l).layer.training = l.training
  BY <1>1, <1>2
<1> QED BY <1>3, <1>4 DEF Done

LEMMA AllocatedDone ==
  ASSUME NEW l, IsLayer(l), NEW t, NEW d
  PROVE  Done(Allocated(t, l, d), l, t, d)
<1> DEFINE m0 == [l EXCEPT !.dims = d]
           n == m0.inits + 1
           m == [m0 EXCEPT !.inits = n]
<1>1. [l EXCEPT !.dims = d, !.inits = @ + 1] = [m0 EXCEPT !.inits = @ + 1]
  OBVIOUS
<1>2. Allocated(t, l, d) = Built(t, m)
  BY <1>1 DEF Allocated
<1>3. m0 = [built |-> l.built, dims |-> d, inits |-> l.inits,
            training |-> l.training, ctx |-> l.ctx, running |-> l.running]
  BY FieldsUpdated, Zenon
<1> HIDE DEF m0
<1>4. IsLayer(m0) /\ m0.training = l.training
  BY <1>3 DEF IsLayer
<1> HIDE DEF n
<1>5. m = [built |-> m0.built, dims |-> m0.dims, inits |-> n,
           training |-> m0.training, ctx |-> m0.ctx, running |-> m0.running]
  BY <1>4, FieldsUpdated, Zenon
<1> HIDE DEF m
<1>6. IsLayer(m) /\ m.training = l.training
  BY <1>4, <1>5 DEF IsLayer
<1>7. Done(Built(t, m), m, t, m.dims)
  BY <1>6, BuiltDone
<1>8. Succeeds(Allocated(t, l, d), t, d)
  BY AllocatedIs
<1> QED BY <1>2, <1>6, <1>7, <1>8 DEF Done

\* A build of a shape that suits the layer succeeds, the first time and again, and
\* leaves it sized for that shape.
LEMMA BuildFits ==
  ASSUME NEW l, IsLayer(l), NEW L, L.kind \in Kinds, NEW b \in BOOLEAN, NEW s, Suits(L, b, s),
         NEW u, Near(b, u, s), l.built \/ u = s, l.built => Wide(L, l, s)
  PROVE  LET r == LayerBuild(L, l, u)
         IN  /\ r.ok /\ IsLayer(r.layer) /\ r.layer.built /\ r.layer.training = l.training
             /\ Sized(L, r.layer, s) /\ Near(b, r.shape, AnnouncedShape(L, s))
             /\ ~l.built => r.shape = AnnouncedShape(L, s)
<1> DEFINE r == LayerBuild(L, l, u)
           Good == /\ r.ok /\ IsLayer(r.layer) /\ r.layer.built /\ r.layer.training = l.training
                   /\ Sized(L, r.layer, s) /\ Near(b, r.shape, AnnouncedShape(L, s))
                   /\ ~l.built => r.shape = AnnouncedShape(L, s)
<1>1. ASSUME NEW t, NEW d, Done(r, l, t, d), Near(b, t, AnnouncedShape(L, s)),
             ~l.built => t = AnnouncedShape(L, s),
             L.kind \in Widths => d = <<Last(s)>>, L.kind = "Conv2D" => d = s
      PROVE  Good
  <2> HIDE DEF r
  <2> QED BY <1>1 DEF Done, Succeeds, Sized, Wide
<1>2. ASSUME NEW t, NEW d, (l.built /\ r = Built(t, l) /\ l.dims = d) \/ r = Allocated(t, l, d)
      PROVE  Done(r, l, t, d)
  <2> HIDE DEF r
  <2>1. Done(Built(t, l), l, t, l.dims) /\ Done(Allocated(t, l, d), l, t, d)
    BY BuiltDone, AllocatedDone
  <2> QED BY <1>2, <2>1
<1>3. s \in Seq(Nat)
  BY DEF Suits
<1> HIDE DEF Good, r
<1> SUFFICES Good
  BY DEF Good, r
<1>4. CASE L.kind = "Dense"
  <2>1. L.out \in Nat /\ Len(s) = (IF b THEN 2 ELSE 1)
    BY <1>4 DEF Suits
  <2>3. AnnouncedShape(L, s) = [s EXCEPT ![Len(s)] = L.out]
    BY <1>4 DEF AnnouncedShape
  <2>2. s # <<>> /\ Last(AnnouncedShape(L, s)) = L.out
    <3>1. IsVector(b, s) /\ Widened(s, L.out, AnnouncedShape(L, s)) /\ 0 \in Nat
      BY <1>3, <2>1, <2>3 DEF IsVector, Widened
    <3>2. Last(AnnouncedShape(L, s)) = L.out
      BY <2>1, <3>1, RowOfSample
    <3> QED BY <3>1, <3>2, VectorIs
  <2>4. r = DenseBuild(L, l, u)
    BY <1>4 DEF LayerBuild, r
  <2>5. CASE l.built
    <3>1. r = Built(<<L.out>>, l) /\ l.dims = <<Last(s)>>
      BY <1>4, <2>4, <2>5 DEF DenseBuild, Wide, Widths
    <3>2. Near(b, <<L.out>>, AnnouncedShape(L, s))
      <4>1. CASE b
        BY <2>2, <2>3, <4>1 DEF Near
      <4>2. CASE ~b
        <5>1. s = <<s[1]>> /\ Len(s) = 1
          BY <1>3, <2>1, <4>2, TupleOne
        <5>2. [s EXCEPT ![Len(s)] = L.out] = <<L.out>>
          BY <5>1
        <5> QED BY <2>3, <5>2 DEF Near
      <4> QED BY <4>1, <4>2
    <3>3. Done(r, l, <<L.out>>, <<Last(s)>>)
      BY <1>2, <2>5, <3>1
    <3> QED BY <1>1, <1>4, <2>5, <3>2, <3>3
  <2>6. CASE ~l.built
    <3>1. r = Allocated(AnnouncedShape(L, s), l, <<Last(s)>>)
      BY <2>2, <2>3, <2>4, <2>6 DEF DenseBuild
    <3>2. Done(r, l, AnnouncedShape(L, s), <<Last(s)>>)
      BY <1>2, <3>1
    <3> QED BY <1>1, <1>4, <3>2 DEF Near
  <2> QED BY <2>5, <2>6
<1>5. CASE L.kind = "Conv2D"
  <2>1. Len(s) = 3 /\ OutSize(L, s[2]) \in Nat \ {0} /\ OutSize(L, s[3]) \in Nat \ {0} /\ ~b
    BY <1>5 DEF Suits
  <2>2. u = s
    BY <2>1 DEF Near
  <2>3. AnnouncedShape(L, s) = ConvOut(L, s)
    BY <1>5 DEF AnnouncedShape
  <2>4. r = ConvBuild(L, l, s)
    BY <1>5, <2>2 DEF LayerBuild, r
  <2>5. (l.built /\ r = Built(ConvOut(L, s), l) /\ l.dims = s) \/ r = Allocated(ConvOut(L, s), l, s)
    <3> DEFINE p == OutSize(L, s[2])
               q == OutSize(L, s[3])
    <3>1. ~(p <= 0 \/ q <= 0)
      BY <2>1
    <3> HIDE DEF p, q
    <3>2. ConvOut(L, s) = <<L.filters, p, q>> /\ ConvOut(L, s)[2] = p /\ ConvOut(L, s)[3] = q
      BY DEF ConvOut, p, q
    <3> QED BY <2>1, <2>4, <3>1, <3>2 DEF ConvBuild, p, q
  <2>6. Done(r, l, ConvOut(L, s), s)
    BY <1>2, <2>5
  <2> QED BY <1>1, <1>5, <2>3, <2>6 DEF Near, Widths
<1>6. CASE L.kind = "Embedding"
  <2>1. ~b
    BY <1>6 DEF Suits
  <2>2. u = s
    BY <2>1 DEF Near
  <2>3. AnnouncedShape(L, s) = <<Last(s), L.dim>>
    BY <1>6 DEF AnnouncedShape
  <2>4. s # <<>>
    <3>1. Len(s) = 1
      BY <1>6 DEF Suits
    <3>2. Len(s) # Len(<<>>)
      BY <3>1
    <3> QED BY <3>2, Zenon
  <2>5. \/ l.built /\ r = Built(<<Last(s), L.dim>>, l)
        \/ r = Allocated(<<Last(s), L.dim>>, l, <<L.vocab, L.dim>>)
    BY <1>6, <2>2, <2>4 DEF LayerBuild, EmbeddingBuild, r
  <2>6. \E d : Done(r, l, <<Last(s), L.dim>>, d)
    BY <1>2, <2>5
  <2> QED BY <1>1, <1>6, <2>3, <2>6 DEF Near, Widths
<1>7. CASE L.kind = "Attention"
  <2>1. ~b /\ Len(s) = 2 /\ L.dim % L.heads = 0
    BY <1>7 DEF Suits
  <2>2. u = s
    BY <2>1 DEF Near
  <2>3. AnnouncedShape(L, s) = <<s[1], L.dim>>
    BY <1>7 DEF AnnouncedShape
  <2>4. \/ l.built /\ r = Built(<<s[1], L.dim>>, l)
        \/ r = Allocated(<<s[1], L.dim>>, l, <<L.dim>>)
    BY <1>7, <2>1, <2>2 DEF LayerBuild, AttentionBuild, r
  <2>5. \E d : Done(r, l, <<s[1], L.dim>>, d)
    BY <1>2, <2>4
  <2> QED BY <1>1, <1>7, <2>3, <2>5 DEF Near, Widths
<1>8. CASE L.kind \in Passing
  <2>1. AnnouncedShape(L, s) = s
    BY <1>8 DEF AnnouncedShape, Passing
  <2>2. L.kind \in {"BatchNorm1d", "LayerNorm"} =>
          s # <<>> /\ (L.kind = "BatchNorm1d" => Len(s) = 2 /\ Last(s) = s[2])
    <3> SUFFICES ASSUME L.kind \in {"BatchNorm1d", "LayerNorm"}
                 PROVE  s # <<>> /\ (L.kind = "BatchNorm1d" => Len(s) = 2 /\ Last(s) = s[2])
      OBVIOUS
    <3>1. Len(s) = IF b THEN 2 ELSE 1
      BY DEF Suits
    <3>2. s # <<>>
      <4>1. Len(s) # Len(<<>>)
        BY <3>1
      <4> QED BY <4>1, Zenon
    <3>3. L.kind = "BatchNorm1d" => b
      BY DEF Suits
    <3> QED BY <3>1, <3>2, <3>3 DEF Last
  <2>3. (r = Built(u, l) /\ (L.kind \in Widths => l.built)) \/ r = Allocated(s, l, <<Last(s)>>)
    <3>1. CASE L.kind = "BatchNorm1d"
      <4>1. r = BatchNormBuild(l, u)
        BY <3>1 DEF LayerBuild, r
      <4> QED BY <2>2, <3>1, <4>1 DEF BatchNormBuild
    <3>2. CASE L.kind = "LayerNorm"
      <4>1. r = LayerNormBuild(L, l, u)
        BY <3>2 DEF LayerBuild, r
      <4>2. L.dim \in {-1, Last(s)}
        BY <3>2 DEF Suits
      <4>3. (IF L.dim = -1 THEN Last(s) ELSE L.dim) = Last(s)
        BY <4>2
      <4> QED BY <2>2, <3>2, <4>1, <4>3 DEF LayerNormBuild
    <3>3. CASE L.kind \in {"Dropout", "Softmax", "Elementwise"}
      <4>1. r = Built(u, l)
        BY <3>3 DEF LayerBuild, PassThroughBuild, r
      <4> QED BY <3>3, <4>1 DEF Widths
    <3> QED BY <1>8, <3>1, <3>2, <3>3 DEF Passing
  <2>4. CASE r = Built(u, l) /\ (L.kind \in Widths => l.built)
    <3>1. Done(r, l, u, l.dims)
      BY <2>4, BuiltDone
    <3>2. L.kind \in Widths => l.dims = <<Last(s)>>
      BY <2>4 DEF Wide
    <3> QED BY <1>1, <1>8, <2>1, <3>1, <3>2 DEF Passing
  <2>5. CASE r = Allocated(s, l, <<Last(s)>>)
    <3>1. Done(r, l, s, <<Last(s)>>)
      BY <1>2, <2>5
    <3> QED BY <1>1, <1>8, <2>1, <3>1 DEF Near, Passing
  <2> QED BY <2>3, <2>4, <2>5
<1>9. L.kind \in {"Dense", "Conv2D", "Embedding", "Attention"} \union Passing
  BY DEF Kinds, Passing
<1> QED BY <1>4, <1>5, <1>6, <1>7, <1>8, <1>9

LEMMA JoinThird ==
  ASSUME NEW a, NEW b, NEW c
  PROVE  <<a, b>> \o <<c>> = <<a, b, c>>
<1> DEFINE X == {a, b, c}
           s == <<a, b>>
           t == <<c>>
<1>1. s \in Seq(X) /\ t \in Seq(X)
  OBVIOUS
<1>2. Len(s) = 2 /\ Len(t) = 1 /\ s[1] = a /\ s[2] = b /\ t[1] = c
  OBVIOUS
<1> HIDE DEF X, s, t
<1> DEFINE u == s \o t
<1>3. u \in Seq(X) /\ Len(u) = Len(s) + Len(t)
      /\ \A i \in 1 .. Len(s) + Len(t) : u[i] = IF i <= Len(s) THEN s[i] ELSE t[i - Len(s)]
  BY <1>1, ConcatProperties
<1> HIDE DEF u
<1>4. u \in Seq(X) /\ Len(u) = 3 /\ u[1] = a /\ u[2] = b /\ u[3] = c
  BY <1>2, <1>3
<1>5. u = <<a, b, c>>
  BY <1>4
<1> QED BY <1>5 DEF u, s, t

\* Whatever the layer: on a batch of what it was built for, backward does what
\* forward did, and the result is a batch of what build announced.
LEMMA LayerAdjoint ==
  ASSUME NEW L, L.kind \in Kinds, NEW l, IsLayer(l), NEW b \in BOOLEAN, NEW s, Suits(L, b, s), Sized(L, l, s),
         NEW N \in Nat \ {0}, NEW v, v = InBatch(b, N, s), NEW call, NEW tokens, NEW keep,
         LayerForward(L, l, call, v, tokens, keep).ok
  PROVE  LET r == LayerForward(L, l, call, v, tokens, keep)
         IN  /\ Adjoint(L, r) /\ r.shape = InBatch(b, N, AnnouncedShape(L, s)) /\ r.layer.training = l.training
             /\ keep \subseteq Offsets(v) => Reads(r, v)
<1> DEFINE r == LayerForward(L, l, call, v, tokens, keep)
           Good == /\ Adjoint(L, r) /\ r.shape = InBatch(b, N, AnnouncedShape(L, s)) /\ r.layer.training = l.training
                   /\ keep \subseteq Offsets(v) => Reads(r, v)
<1>0. r.ok /\ N \in Nat
  OBVIOUS
<1>1. s \in Seq(Nat)
  BY DEF Suits
<1>2. ASSUME NEW t, Adjoint(L, r), Reads(r, v), r.shape = t, r.layer.training = l.training,
             t = InBatch(b, N, AnnouncedShape(L, s))
      PROVE  Good
  <2> HIDE DEF r
  <2> QED BY <1>2
<1> SUFFICES Good
  OBVIOUS
<1> HIDE DEF Good
<1>3. ASSUME Len(s) = IF b THEN 2 ELSE 1
      PROVE  v = <<N, Last(s)>> /\ Last(s) \in Nat
  <2> DEFINE t == [s EXCEPT ![Len(s)] = 0]
  <2>1. 0 \in Nat /\ IsVector(b, s) /\ Widened(s, 0, t)
    BY <1>1, <1>3 DEF IsVector, Widened
  <2> HIDE DEF t
  <2> QED BY <1>0, <2>1, RowOfSample
<1>4. CASE L.kind = "Dense"
  <2>1. Len(s) = (IF b THEN 2 ELSE 1) /\ L.out \in Nat
    BY <1>4 DEF Suits
  <2>2. v = <<N, Last(s)>> /\ Last(s) \in Nat /\ l.dims = <<Last(s)>>
    BY <1>3, <1>4, <2>1 DEF Sized, Wide, Widths
  <2>3. AnnouncedShape(L, s) = [s EXCEPT ![Len(s)] = L.out]
    BY <1>4 DEF AnnouncedShape
  <2>4. InBatch(b, N, AnnouncedShape(L, s)) = <<N, L.out>>
    <3>1. IsVector(b, s) /\ Widened(s, L.out, AnnouncedShape(L, s))
      BY <1>1, <2>1, <2>3 DEF IsVector, Widened
    <3> QED BY <1>0, <2>1, <3>1, RowOfSample
  <2>5. Adjoint(L, r) /\ Reads(r, v) /\ r.shape = <<N, L.out>> /\ r.layer.training = l.training
    BY <1>4, <2>1, <2>2, DenseAdjoint
  <2> HIDE DEF r
  <2> QED BY <1>2, <2>4, <2>5
<1>5. CASE L.kind = "Conv2D"
  <2>1. Len(s) = 3 /\ ~b /\ l.dims = s
    BY <1>5 DEF Suits, Sized
  <2>2. s = <<s[1], s[2], s[3]>> /\ s[1] \in Nat /\ s[2] \in Nat /\ s[3] \in Nat
    BY <1>1, <2>1, TupleThree
  <2>3. PICK C \in Nat, H \in Nat, W \in Nat : s = <<C, H, W>>
    BY <2>2
  <2>4. v = <<N, C, H, W>>
    BY <2>1, <2>3, PrependOne DEF InBatch
  <2>5. AnnouncedShape(L, s) = <<L.filters, OutSize(L, H), OutSize(L, W)>>
    <3>1. AnnouncedShape(L, s) = ConvOut(L, s) /\ s[2] = H /\ s[3] = W
      BY <1>5, <2>3 DEF AnnouncedShape
    <3> QED BY <3>1 DEF ConvOut
  <2>6. InBatch(b, N, AnnouncedShape(L, s)) = <<N, L.filters, OutSize(L, H), OutSize(L, W)>>
    BY <2>1, <2>5, PrependOne DEF InBatch
  <2>7. /\ Adjoint(L, r) /\ Reads(r, v)
        /\ r.shape = <<N, L.filters, OutSize(L, H), OutSize(L, W)>> /\ r.layer.training = l.training
    <3>1. l.dims = <<C, H, W>>
      BY <2>1, <2>3
    <3> QED BY <1>0, <1>5, <2>4, <3>1, ConvAdjoint, SMTT(40)
  <2> HIDE DEF r
  <2> QED BY <1>2, <2>6, <2>7
<1>6. CASE L.kind = "Embedding"
  <2>1. Len(s) = 1 /\ ~b /\ L.dim \in Nat
    BY <1>6 DEF Suits
  <2>2. s = <<s[1]>>
    BY <1>1, <2>1, TupleOne
  <2>3. PICK P : s = <<P>>
    BY <2>2
  <2>4. v = <<N, P>> /\ v \o <<L.dim>> = <<N, P, L.dim>>
    <3>1. <<N>> \o <<P>> = <<N, P>>
      BY PrependToOne
    <3>2. v = <<N, P>>
      BY <2>1, <2>3, <3>1 DEF InBatch
    <3>3. <<N, P>> \o <<L.dim>> = <<N, P, L.dim>>
      BY JoinThird
    <3> QED BY <3>2, <3>3
  <2>5. AnnouncedShape(L, s) = <<P, L.dim>>
    BY <1>6, <2>3 DEF AnnouncedShape, Last
  <2>6. InBatch(b, N, AnnouncedShape(L, s)) = <<N, P, L.dim>>
    BY <2>1, <2>5, PrependToTwo DEF InBatch
  <2>7. Adjoint(L, r) /\ Reads(r, v) /\ r.shape = v \o <<L.dim>> /\ r.layer.training = l.training
    BY <1>0, <1>6, EmbeddingAdjoint
  <2> HIDE DEF r
  <2> QED BY <1>2, <2>4, <2>6, <2>7
<1>7. CASE L.kind = "Attention"
  <2>1. Len(s) = 2 /\ ~b /\ s[2] = L.dim /\ L.heads \in Nat \ {0} /\ L.dim % L.heads = 0
    BY <1>7 DEF Suits
  <2>2. s = <<s[1], s[2]>> /\ s[1] \in Nat /\ s[2] \in Nat
    BY <1>1, <2>1, TupleTwo
  <2>3. PICK len \in Nat : s = <<len, L.dim>> /\ L.dim \in Nat
    BY <2>1, <2>2
  <2>4. v = <<N, len, L.dim>>
    BY <2>1, <2>3, PrependToTwo DEF InBatch
  <2>5. AnnouncedShape(L, s) = s
    BY <1>7, <2>3 DEF AnnouncedShape
  <2>6. InBatch(b, N, AnnouncedShape(L, s)) = v
    BY <2>5
  <2>7. Adjoint(L, r) /\ Reads(r, v) /\ r.shape = v /\ r.layer.training = l.training
    <3> DEFINE w == <<N, len, L.dim>>
    <3>1. LayerForward(L, l, call, w, tokens, keep).ok
      BY <1>0, <2>4
    <3>2. L.dim \in Nat /\ L.heads \in Nat \ {0} /\ L.dim % L.heads = 0
      BY <2>1, <2>3
    <3> HIDE DEF r
    <3>3. LET q == LayerForward(L, l, call, w, tokens, keep)
          IN  Adjoint(L, q) /\ Reads(q, w) /\ q.shape = w /\ q.layer.training = l.training
      BY <1>7, <3>1, <3>2, AttentionAdjoint
    <3> QED BY <2>4, <3>3 DEF r
  <2> HIDE DEF r
  <2> QED BY <1>2, <2>6, <2>7
<1>8. CASE L.kind \in {"BatchNorm1d", "LayerNorm", "Softmax"}
  <2>1. Len(s) = (IF b THEN 2 ELSE 1)
    BY <1>8 DEF Suits
  <2>2. v = <<N, Last(s)>> /\ Last(s) \in Nat
    BY <1>3, <2>1
  <2>3. AnnouncedShape(L, s) = s
    BY <1>8 DEF AnnouncedShape
  <2>4. L.kind # "Softmax" => l.dims = <<Last(s)>>
    BY <1>8 DEF Sized, Wide, Widths
  <2>5. Adjoint(L, r) /\ Reads(r, v) /\ r.shape = v /\ r.layer.training = l.training
    <3>1. CASE L.kind = "BatchNorm1d"
      BY <1>0, <2>2, <2>4, <3>1, BatchNormAdjoint
    <3>2. CASE L.kind = "LayerNorm"
      BY <1>0, <2>2, <2>4, <3>2, LayerNormAdjoint
    <3>3. CASE L.kind = "Softmax"
      BY <1>0, <2>2, <3>3, SoftmaxAdjoint
    <3> QED BY <1>8, <3>1, <3>2, <3>3
  <2> HIDE DEF r
  <2> QED BY <1>2, <2>3, <2>5
<1>9. CASE L.kind = "Elementwise"
  <2>1. AnnouncedShape(L, s) = s
    BY <1>9 DEF AnnouncedShape
  <2>2. Adjoint(L, r) /\ Reads(r, v) /\ r.shape = v /\ r.layer.training = l.training
    BY <1>9, ElementwiseAdjoint
  <2> HIDE DEF r
  <2> QED BY <1>2, <2>1, <2>2
<1>10. CASE L.kind = "Dropout"
  <2>1. AnnouncedShape(L, s) = s
    BY <1>10 DEF AnnouncedShape
  <2>2. /\ Adjoint(L, r) /\ r.shape = v /\ r.layer.training = l.training
        /\ keep \subseteq Offsets(v) => Reads(r, v)
    BY <1>10, DropoutAdjoint
  <2> HIDE DEF r
  <2> QED BY <2>1, <2>2 DEF Good
<1> QED BY <1>4, <1>5, <1>6, <1>7, <1>8, <1>9, <1>10 DEF Kinds

-----------------------------------------------------------------------------
(***************************************************************************)
(* Sequential.  The shapes of a well-shaped model, the fold of backward as *)
(* a recursive function over the last layers, and the three passes: build, *)
(* forward and backward.                                                   *)
(***************************************************************************)

\* The equation by which ShapesOf is defined, for n layers.
AreShapes(t, n, ls, s) ==
  t = [k \in 0 .. n |-> IF k = 0 THEN s ELSE LayerBuild(ls[k], New, t[k - 1]).shape]

\* Shapes that satisfy it exist,
LEMMA ShapesExist ==
  ASSUME NEW n \in Nat, NEW ls, NEW s
  PROVE  \E t : AreShapes(t, n, ls, s)
<1> DEFINE T == {k \in 0 .. n : \E t : AreShapes(t, k, ls, s)}
<1>1. 0 \in T
  <2> DEFINE t == [k \in 0 .. 0 |-> s]
  <2>1. AreShapes(t, 0, ls, s)
    BY DEF AreShapes
  <2> QED BY <2>1
<1>2. ASSUME NEW k \in 0 .. n-1, k \in T PROVE k + 1 \in T
  <2>1. PICK t : AreShapes(t, k, ls, s)
    BY <1>2
  <2> DEFINE Step(u, j) == IF j = 0 THEN s ELSE LayerBuild(ls[j], New, u[j - 1]).shape
             h == [j \in 0 .. k+1 |-> IF j = k + 1 THEN Step(t, k + 1) ELSE t[j]]
  <2>2. t = [j \in 0 .. k |-> Step(t, j)]
    BY <2>1 DEF AreShapes
  <2>3. \A j \in 0 .. k : h[j] = t[j]
    OBVIOUS
  <2>4. h[k + 1] = Step(t, k + 1)
    OBVIOUS
  <2>5. \A j \in 0 .. k+1 : j # 0 => j - 1 \in 0 .. k
    OBVIOUS
  <2>6. \A j \in 0 .. k+1 : Step(h, j) = Step(t, j)
    BY <2>3, <2>5
  <2>7. ASSUME NEW j \in 0 .. k+1 PROVE h[j] = Step(h, j)
    <3>1. CASE j = k + 1
      BY <2>4, <2>6, <3>1
    <3>2. CASE j # k + 1
      <4>1. j \in 0 .. k
        BY <3>2
      <4>2. t[j] = Step(t, j)
        BY <2>2, <4>1
      <4> QED BY <2>3, <2>6, <4>1, <4>2
    <3> QED BY <3>1, <3>2
  <2>8. h = [j \in 0 .. k+1 |-> h[j]]
    OBVIOUS
  <2> HIDE DEF h, Step
  <2>9. h = [j \in 0 .. k+1 |-> Step(h, j)]
    BY <2>7, <2>8
  <2>10. AreShapes(h, k + 1, ls, s)
    BY <2>9 DEF AreShapes, Step
  <2>11. k + 1 \in 0 .. n
    OBVIOUS
  <2> QED BY <2>10, <2>11
<1> HIDE DEF T
<1>3. 0 .. n \subseteq T
  BY <1>1, <1>2, IntervalInduction
<1>4. n \in T
  BY <1>3
<1> QED BY <1>4 DEF T

\* and ShapesOf chooses them.
LEMMA ShapesOfAre ==
  ASSUME NEW m, NEW s, Len(m.layers) \in Nat
  PROVE  /\ ShapesOf(m, s)[0] = s
         /\ \A k \in 1 .. Len(m.layers) :
              ShapesOf(m, s)[k] = LayerBuild(m.layers[k], New, ShapesOf(m, s)[k - 1]).shape
<1> DEFINE n == Len(m.layers)
           t == ShapesOf(m, s)
<1>1. t = CHOOSE u : AreShapes(u, n, m.layers, s)
  BY DEF ShapesOf, AreShapes
<1>2. \E u : AreShapes(u, n, m.layers, s)
  BY ShapesExist
<1> HIDE DEF t
<1>3. AreShapes(t, n, m.layers, s)
  BY <1>1, <1>2
<1>4. 0 \in 0 .. n /\ \A k \in 1 .. n : k \in 0 .. n /\ k # 0
  OBVIOUS
<1>5. t[0] = s /\ \A k \in 1 .. n : t[k] = LayerBuild(m.layers[k], New, t[k - 1]).shape
  BY <1>3, <1>4 DEF AreShapes
<1> QED BY <1>5 DEF t

\* A well-shaped model: each layer suits the shape that arrives, and announces
\* the next.
LEMMA ModelShapes ==
  ASSUME NEW m \in Models, NEW s \in m.shapes, NEW k \in 1 .. Len(m.layers)
  PROVE  /\ m.batched \in BOOLEAN /\ m.layers[k].kind \in Kinds
         /\ Suits(m.layers[k], m.batched, ShapesOf(m, s)[k - 1])
         /\ ShapesOf(m, s)[k] = AnnouncedShape(m.layers[k], ShapesOf(m, s)[k - 1])
         /\ m.layers[k].kind \in Widths =>
              \A t \in m.shapes : Last(ShapesOf(m, t)[k - 1]) = Last(ShapesOf(m, s)[k - 1])
<1> DEFINE L == m.layers[k]
           u == ShapesOf(m, s)[k - 1]
<1>1. Len(m.layers) \in Nat /\ L.kind \in Kinds
  BY LayersAssumption DEF LayersAssumption
<1>2. WellShaped(m)
  BY ModelsAreWellShaped
<1>3. m.batched \in BOOLEAN /\ Suits(L, m.batched, u)
  BY <1>2 DEF WellShaped
<1>4. L.kind \in Widths => \A t \in m.shapes : Last(ShapesOf(m, t)[k - 1]) = Last(u)
  BY <1>2 DEF WellShaped, Widths
<1>5. IsLayer(New) /\ ~New.built
  BY DEF IsLayer, New
<1>6. ShapesOf(m, s)[k] = LayerBuild(L, New, u).shape
  BY <1>1, ShapesOfAre
<1> HIDE DEF L, u
<1>7. LayerBuild(L, New, u).shape = AnnouncedShape(L, u)
  BY <1>1, <1>3, <1>5, BuildFits DEF Near
<1> QED BY <1>1, <1>3, <1>4, <1>6, <1>7 DEF L, u

\* The smallest of some numbers up to n.
LEMMA MinIs ==
  ASSUME NEW S, S \subseteq Int, NEW m \in S, \A x \in S : m <= x
  PROVE  Min(S) = m
<1>1. \E y \in S : \A x \in S : y <= x
  OBVIOUS
<1>2. Min(S) \in S /\ \A x \in S : Min(S) <= x
  BY <1>1 DEF Min
<1>3. Min(S) \in Int /\ m \in Int /\ m <= Min(S) /\ Min(S) <= m
  BY <1>2
<1> QED BY <1>3

LEMMA MinExists ==
  ASSUME NEW n \in Nat, NEW S \in SUBSET (1 .. n), S # {}
  PROVE  Min(S) \in S /\ \A x \in S : Min(S) <= x
<1>1. S \subseteq Nat /\ S \subseteq Int
  OBVIOUS
<1>2. PICK m \in S : \A x \in S : m <= x
  BY <1>1, LeastNatural
<1>3. Min(S) = m
  BY <1>1, <1>2, MinIs
<1> QED BY <1>2, <1>3

\* The equation of the fold over the last k of the layers.
IsWalk(f, k, shapes, base) ==
  f = [s \in SUBSET (Depth - k + 1 .. Depth) |->
         IF s = {} THEN base ELSE BackwardStep(shapes, Min(s), f[s \ {Min(s)}])]

LEMMA WalksExist ==
  ASSUME Depth \in Nat, NEW shapes, NEW base
  PROVE  \E f : IsWalk(f, Depth, shapes, base)
<1> DEFINE n == Depth
           T == {k \in 0 .. n : \E f : IsWalk(f, k, shapes, base)}
<1>0. n \in Nat
  OBVIOUS
<1>1. 0 \in T
  <2> DEFINE f == [s \in SUBSET (n - 0 + 1 .. n) |-> base]
  <2>1. \A s \in SUBSET (n - 0 + 1 .. n) : s = {}
    OBVIOUS
  <2>2. IsWalk(f, 0, shapes, base)
    BY <2>1 DEF IsWalk
  <2> HIDE DEF f
  <2> QED BY <2>2
<1>2. ASSUME NEW k \in 0 .. n-1, k \in T PROVE k + 1 \in T
  <2>1. PICK f : IsWalk(f, k, shapes, base)
    BY <1>2
  <2> DEFINE lo == n - k
             Step(g, s) == IF s = {} THEN base ELSE BackwardStep(shapes, Min(s), g[s \ {Min(s)}])
             h == [s \in SUBSET (lo .. n) |-> IF lo \in s THEN BackwardStep(shapes, lo, f[s \ {lo}]) ELSE f[s]]
  <2>2. lo \in 1 .. n /\ n - k + 1 = lo + 1 /\ n - (k + 1) + 1 = lo /\ k + 1 \in 0 .. n
    OBVIOUS
  <2>3. f = [s \in SUBSET (lo + 1 .. n) |-> Step(f, s)]
    BY <2>1, <2>2 DEF IsWalk
  <2> HIDE DEF lo, n
  <2>4. \A s \in SUBSET (lo .. n) : s \ {lo} \in SUBSET (lo + 1 .. n)
    BY <1>0, <2>2
  <2>5. \A s \in SUBSET (lo + 1 .. n) : s \in SUBSET (lo .. n) /\ h[s] = f[s]
    <3> SUFFICES ASSUME NEW s \in SUBSET (lo + 1 .. n) PROVE s \in SUBSET (lo .. n) /\ h[s] = f[s]
      OBVIOUS
    <3>1. s \in SUBSET (lo .. n) /\ lo \notin s
      BY <1>0, <2>2
    <3> QED BY <3>1
  <2>6. ASSUME NEW s \in SUBSET (lo .. n)
        PROVE  h[s] = Step(h, s)
    <3>1. CASE lo \in s
      <4>1. s \subseteq Int /\ \A x \in s : lo <= x
        BY <1>0, <2>2
      <4>2. Min(s) = lo /\ s # {}
        BY <3>1, <4>1, MinIs
      <4>3. h[s] = BackwardStep(shapes, lo, f[s \ {lo}])
        BY <3>1
      <4>4. h[s \ {lo}] = f[s \ {lo}]
        BY <2>4, <2>5
      <4> HIDE DEF h
      <4> QED BY <4>2, <4>3, <4>4
    <3>2. CASE lo \notin s
      <4>1. s \in SUBSET (lo + 1 .. n)
        BY <2>4, <3>2
      <4>2. h[s] = f[s] /\ f[s] = Step(f, s)
        BY <2>3, <2>5, <4>1
      <4>3. s # {} => s \ {Min(s)} \in SUBSET (lo + 1 .. n)
        BY <4>1
      <4>4. s # {} => h[s \ {Min(s)}] = f[s \ {Min(s)}]
        BY <2>5, <4>3
      <4> HIDE DEF h
      <4> QED BY <4>2, <4>4
    <3> QED BY <3>1, <3>2
  <2>7. h = [s \in SUBSET (lo .. n) |-> h[s]]
    OBVIOUS
  <2> HIDE DEF h, Step
  <2>8. h = [s \in SUBSET (lo .. n) |-> Step(h, s)]
    BY <2>6, <2>7
  <2>9. IsWalk(h, k + 1, shapes, base)
    BY <2>2, <2>8 DEF IsWalk, Step, n
  <2> QED BY <2>2, <2>9
<1> HIDE DEF T
<1>3. 0 .. n \subseteq T
  BY <1>1, <1>2, IntervalInduction
<1>4. n \in T
  BY <1>3
<1> QED BY <1>4 DEF T

\* f holds what backward has after the layers behind k.
Walks(f, shapes, g) ==
  /\ f[Depth] = [edges |-> g, uses |-> {}]
  /\ \A k \in 0 .. Depth - 1 : f[k] = BackwardStep(shapes, k + 1, f[k + 1])

\* backward takes one step a layer, from the last to the first.
LEMMA BackwardWalks ==
  ASSUME Depth \in Nat, DOMAIN net = 1 .. Depth, NEW g, NEW shapes
  PROVE  \E f : Walks(f, shapes, g) /\ f[0] = SequentialBackward(g, shapes)
<1> DEFINE n == Depth
           base == [edges |-> g, uses |-> {}]
           ks == [i \in DOMAIN net |-> i]
           Eq(f) == f = [t \in SUBSET DOMAIN ks |->
                           IF t = {} THEN base ELSE BackwardStep(shapes, ks[Min(t)], f[t \ {Min(t)}])]
           iter == CHOOSE f : IsWalk(f, n, shapes, base)
           w == [k \in 0 .. n |-> iter[k + 1 .. n]]
<1>0. n \in Nat
  OBVIOUS
<1>1. SequentialBackward(g, shapes) = (CHOOSE f : Eq(f))[DOMAIN ks]
  BY DEF SequentialBackward, FoldRightDomain, FoldRight, MapThenFoldSet
<1>2. DOMAIN ks = 1 .. n
  OBVIOUS
<1>3. \A t \in SUBSET (1 .. n) : t # {} => ks[Min(t)] = Min(t)
  BY MinExists
<1>4. \A f : Eq(f) <=> IsWalk(f, n, shapes, base)
  <2> SUFFICES ASSUME NEW f PROVE Eq(f) <=> IsWalk(f, n, shapes, base)
    OBVIOUS
  <2> HIDE DEF ks, base
  <2> DEFINE here(t) == IF t = {} THEN base ELSE BackwardStep(shapes, ks[Min(t)], f[t \ {Min(t)}])
             there(t) == IF t = {} THEN base ELSE BackwardStep(shapes, Min(t), f[t \ {Min(t)}])
  <2>1. \A t \in SUBSET (1 .. n) : here(t) = there(t)
    BY <1>3
  <2>2. Eq(f) <=> f = [t \in SUBSET (1 .. n) |-> here(t)]
    BY <1>2
  <2>3. IsWalk(f, n, shapes, base) <=> f = [t \in SUBSET (1 .. n) |-> there(t)]
    <3>1. n - n + 1 = 1
      BY <1>0
    <3> QED BY <3>1 DEF IsWalk
  <2> HIDE DEF here, there, Eq
  <2>4. [t \in SUBSET (1 .. n) |-> here(t)] = [t \in SUBSET (1 .. n) |-> there(t)]
    BY <2>1
  <2> QED BY <2>2, <2>3, <2>4
<1>5. (CHOOSE f : Eq(f)) = iter
  <2> HIDE DEF Eq, base
  <2> QED BY <1>4
<1> HIDE DEF Eq, ks
<1>6. IsWalk(iter, n, shapes, base)
  BY <1>0, WalksExist
<1> HIDE DEF iter
<1>7. iter = [s \in SUBSET (1 .. n) |->
                IF s = {} THEN base ELSE BackwardStep(shapes, Min(s), iter[s \ {Min(s)}])]
  <2>1. n - n + 1 = 1
    BY <1>0
  <2> QED BY <1>6, <2>1 DEF IsWalk
<1> HIDE DEF n, base
<1>8. \A k \in 0 .. n : w[k] = iter[k + 1 .. n]
  OBVIOUS
<1> HIDE DEF w
<1>9. w[n] = base
  <2>1. n + 1 .. n = {} /\ n \in 0 .. n
    BY <1>0
  <2> QED BY <1>7, <1>8, <2>1
<1>10. ASSUME NEW k \in 0 .. n - 1 PROVE w[k] = BackwardStep(shapes, k + 1, w[k + 1])
  <2>1. /\ k + 1 .. n \in SUBSET (1 .. n) /\ k + 1 \in k + 1 .. n /\ k \in 0 .. n /\ k + 1 \in 0 .. n
        /\ k + 1 .. n \subseteq Int /\ \A x \in k + 1 .. n : k + 1 <= x
        /\ (k + 1 .. n) \ {k + 1} = (k + 1) + 1 .. n
    BY <1>0
  <2>2. Min(k + 1 .. n) = k + 1 /\ k + 1 .. n # {}
    BY <2>1, MinIs
  <2>3. iter[k + 1 .. n] = BackwardStep(shapes, k + 1, iter[(k + 1) + 1 .. n])
    BY <1>7, <2>1, <2>2
  <2> QED BY <1>8, <2>1, <2>3
<1>11. w[0] = iter[1 .. n]
  <2>1. 0 \in 0 .. n /\ 0 + 1 = 1
    BY <1>0
  <2> QED BY <1>8, <2>1
<1>12. Walks(w, shapes, g) /\ w[0] = SequentialBackward(g, shapes)
  BY <1>1, <1>2, <1>5, <1>9, <1>10, <1>11 DEF Walks, n, base
<1> QED BY <1>12

\* Every layer was built for the shape that arrives when the model is given s.
NetFits(ls, s) ==
  \A k \in 1 .. Depth : ls[k].built /\ Sized(model.layers[k], ls[k], ShapesOf(model, s)[k - 1])

\* A layer is in the mode of the model, and either none is built or all are,
\* for the shape of the last build.
NetInv ==
  /\ LInv
  /\ \A k \in 1 .. Depth : net[k].training = training
  /\ \/ ~lastBuild.ok /\ \A k \in 1 .. Depth : ~net[k].built
     \/ lastBuild.ok /\ lastBuild.shape \in model.shapes /\ NetFits(net, lastBuild.shape)

\* Of a model that is well shaped every build succeeds, the first one and all
\* that follow; the first announces what ShapesOf says, and of shapes without
\* the batch every one does.
LEMMA ModelBuilds ==
  ASSUME NetInv, NEW s \in model.shapes
  PROVE  LET r == SequentialBuild(s)
         IN  /\ r.ok /\ NetFits(r.layers, s) /\ \A j \in 1 .. Depth : r.layers[j].training = net[j].training
             /\ ~model.batched \/ (\A j \in 1 .. Depth : ~net[j].built) => r.shape = ShapesOf(model, s)[Depth]
<1> DEFINE sh == ShapesOf(model, s)
           b == model.batched
<1>0. LInv /\ model \in Models
  BY DEF NetInv, LInv
<1>1. Depth \in Nat /\ DOMAIN net = 1 .. Depth
  BY <1>0, ModelFacts
<1>2. PICK f : Follows(f, BuildPass, BuildBase(s)) /\ f[Depth] = SequentialBuild(s)
  BY <1>1, BuildFollows
<1>3. f[0] = BuildBase(s) /\ \A k \in 0 .. Depth - 1 : f[k+1] = BuildStep(f[k], k+1)
  BY <1>2 DEF Follows, StepOf, BuildPass
<1>4. sh[0] = s
  BY <1>1, ShapesOfAre DEF Depth
<1>5. ASSUME NEW k \in 1 .. Depth
      PROVE  /\ b \in BOOLEAN /\ model.layers[k].kind \in Kinds
             /\ Suits(model.layers[k], b, sh[k - 1])
             /\ sh[k] = AnnouncedShape(model.layers[k], sh[k - 1])
             /\ net[k].built => Wide(model.layers[k], net[k], sh[k - 1])
  <2> DEFINE L == model.layers[k]
  <2>1. /\ b \in BOOLEAN /\ L.kind \in Kinds /\ Suits(L, b, sh[k - 1]) /\ sh[k] = AnnouncedShape(L, sh[k - 1])
        /\ L.kind \in Widths => \A t \in model.shapes : Last(ShapesOf(model, t)[k - 1]) = Last(sh[k - 1])
    BY <1>0, ModelShapes DEF Depth
  <2>2. ASSUME net[k].built PROVE Wide(L, net[k], sh[k - 1])
    <3>1. lastBuild.shape \in model.shapes /\ Wide(L, net[k], ShapesOf(model, lastBuild.shape)[k - 1])
      BY <2>2 DEF NetInv, NetFits, Sized
    <3> HIDE DEF sh, L
    <3> QED BY <2>1, <3>1 DEF Wide
  <2> QED BY <2>1, <2>2
<1>6. (\A k \in 1 .. Depth : net[k].built) \/ (\A k \in 1 .. Depth : ~net[k].built)
  BY DEF NetInv, NetFits
<1> HIDE DEF sh, b
<1> DEFINE Fits(k) == /\ BuildKept(f[k], k)
                      /\ f[k].ok /\ Near(b, f[k].shape, sh[k])
                      /\ (\A j \in 1 .. Depth : ~net[j].built) => f[k].shape = sh[k]
                      /\ \A j \in 1 .. k : f[k].layers[j].built /\ Sized(model.layers[j], f[k].layers[j], sh[j - 1])
                      /\ \A j \in 1 .. Depth : f[k].layers[j].training = net[j].training
           T == {k \in 0 .. Depth : Fits(k)}
<1>7. 0 \in T
  <2>1. f[0].ok = TRUE /\ f[0].layers = net /\ f[0].shape = s
    BY <1>3 DEF BuildBase
  <2>2. BuildKept(f[0], 0)
    BY <1>0, <2>1 DEF LInv, BuildKept
  <2>3. Near(b, f[0].shape, sh[0])
    BY <1>4, <2>1 DEF Near
  <2> QED BY <1>1, <1>4, <2>1, <2>2, <2>3
<1>8. ASSUME NEW k \in 0 .. Depth - 1, k \in T PROVE k + 1 \in T
  <2> DEFINE L == model.layers[k+1]
             l == net[k+1]
             new == LayerBuild(L, l, f[k].shape)
  <2>1. k + 1 \in 1 .. Depth /\ k + 1 \in 0 .. Depth /\ (k + 1) - 1 = k /\ k \in Nat
    BY <1>1
  <2>2. Fits(k)
    BY <1>8
  <2>3. f[k+1] = BuildStep(f[k], k+1)
    BY <1>3
  <2>4. /\ BuildKept(f[k+1], k+1)
        /\ f[k+1].layers[k+1] = IF f[k].ok THEN new.layer ELSE f[k].layers[k+1]
        /\ \A j \in 1 .. Depth : j # k+1 => f[k+1].layers[j] = f[k].layers[j]
    BY <1>0, <2>2, <2>3, BuildStepIs
  <2>5. /\ IsLayer(l) /\ L.kind \in Kinds /\ b \in BOOLEAN /\ Suits(L, b, sh[k])
        /\ l.built \/ f[k].shape = sh[k]
        /\ l.built => Wide(L, l, sh[k])
        /\ sh[k+1] = AnnouncedShape(L, sh[k])
    <3>1. IsLayer(l)
      BY <1>0, <2>1 DEF LInv
    <3>2. l.built \/ f[k].shape = sh[k]
      BY <1>6, <2>1, <2>2
    <3> QED BY <1>5, <2>1, <3>1, <3>2
  <2>6. Near(b, f[k].shape, sh[k])
    BY <2>2
  <2>7. /\ new.ok /\ new.layer.built /\ new.layer.training = l.training
        /\ Sized(L, new.layer, sh[k]) /\ Near(b, new.shape, sh[k+1])
        /\ ~l.built => new.shape = sh[k+1]
    <3> HIDE DEF L, l, T
    <3> QED BY <2>5, <2>6, BuildFits
  <2> HIDE DEF new
  <2>8. f[k+1].ok = new.ok /\ f[k+1].shape = new.shape
    BY <2>2, <2>3 DEF BuildStep, new
  <2>9. ASSUME NEW j \in 1 .. k+1
        PROVE  f[k+1].layers[j].built /\ Sized(model.layers[j], f[k+1].layers[j], sh[j - 1])
    <3>1. CASE j = k + 1
      BY <2>1, <2>2, <2>4, <2>7, <3>1
    <3>2. CASE j # k + 1
      <4>1. j \in 1 .. k /\ j \in 1 .. Depth
        BY <1>1, <2>1, <2>9, <3>2
      <4> QED BY <2>2, <2>4, <3>2, <4>1
    <3> QED BY <3>1, <3>2
  <2>10. \A j \in 1 .. Depth : f[k+1].layers[j].training = net[j].training
    BY <2>2, <2>4, <2>7
  <2>11. (\A j \in 1 .. Depth : ~net[j].built) => f[k+1].shape = sh[k+1]
    BY <2>1, <2>7, <2>8
  <2> QED BY <2>1, <2>4, <2>7, <2>8, <2>9, <2>10, <2>11
<1> HIDE DEF T
<1>9. 0 .. Depth \subseteq T
  BY <1>1, <1>7, <1>8, IntervalInduction
<1> USE DEF T
<1>10. Fits(Depth)
  BY <1>1, <1>9
<1>11. NetFits(f[Depth].layers, s)
  BY <1>10 DEF NetFits, sh
<1>12. ~model.batched \/ (\A j \in 1 .. Depth : ~net[j].built) => f[Depth].shape = ShapesOf(model, s)[Depth]
  BY <1>10 DEF sh, b, Near
<1> QED BY <1>2, <1>10, <1>11, <1>12

LEMMA InLayerIsRel ==
  ASSUME NEW k, NEW U, IsRel(U)
  PROVE  IsRel(InLayer(k, U))
<1> SUFFICES ASSUME NEW r \in InLayer(k, U) PROVE r = <<r[1], r[2], r[3]>> /\ IsList(r[3])
  BY DEF IsRel
<1>1. PICK u \in U : r = <<u[1], <<k, u[2]>>, u[3]>>
  BY DEF InLayer
<1>2. IsList(u[3])
  BY DEF IsRel
<1> QED BY <1>1, <1>2, EdgeIs

\* The shapes of what n layers returned, from those of their inputs and the last.
LEMMA ShapesReturned ==
  ASSUME NEW n \in Nat \ {0}, NEW X, NEW inputs \in Seq(X), Len(inputs) = n, NEW last \in X
  PROVE  LET t == Append(Tail(inputs), last)
         IN  t[n] = last /\ \A k \in 1 .. n - 1 : t[k] = inputs[k + 1]
<1> DEFINE q == Tail(inputs)
           t == Append(q, last)
<1>1. q \in Seq(X) /\ Len(q) = n - 1 /\ \A k \in 1 .. n - 1 : q[k] = inputs[k + 1]
  <2>1. inputs # <<>>
    <3>1. Len(inputs) # Len(<<>>)
      OBVIOUS
    <3> QED BY <3>1, Zenon
  <2>2. q \in Seq(X) /\ Len(q) = n - 1 /\ \A k \in 1 .. Len(inputs) - 1 : q[k] = inputs[k + 1]
    BY <2>1, HeadTailProperties
  <2> QED BY <2>2
<1> HIDE DEF q
<1>2. t[Len(q) + 1] = last /\ \A k \in 1 .. Len(q) : t[k] = q[k]
  BY <1>1, AppendProperties
<1> HIDE DEF t
<1>3. t[n] = last /\ \A k \in 1 .. n - 1 : t[k] = inputs[k + 1]
  BY <1>1, <1>2
<1> QED BY <1>3 DEF t, q

\* A pass p from an input, in terms of what each layer does: E[k] and U[k] are
\* the edges and uses of layer k, F and V what the first layers do together;
\* with the layers as they are in ls, the way back through each is its way forth.
Traced(p, ls, input, E, U, F, V) ==
  /\ p.edges = F[Depth] /\ p.uses = V[Depth]
  /\ Forwards(Depth, E, [k \in 1 .. Depth |-> InLayer(k, U[k])], Offsets(input), F, V)
  /\ \A k \in 1 .. Depth :
       /\ IsRel(E[k]) /\ IsRel(U[k])
       /\ LayerBackward(model.layers[k], ls[k], Append(Tail(p.inputs), p.shape)[k])
            = [edges |-> E[k], uses |-> U[k]]
  /\ Depth = 0 => p.shape = input
  /\ Depth # 0 => \A e \in E[1] : e[2] \in Offsets(input)

\* The same pass by the results of the layers, each run on a batch of N of what
\* the model announces before it.
Layered(p, N, call, tokens, keep, R, F, V) ==
  LET v(k) == InBatch(model.batched, N, ShapesOf(model, lastBuild.shape)[k])
  IN  /\ p.edges = F[Depth] /\ p.uses = V[Depth]
      /\ Forwards(Depth, [k \in 1 .. Depth |-> R[k].edges], [k \in 1 .. Depth |-> InLayer(k, R[k].uses)],
                  Offsets(v(0)), F, V)
      /\ \A k \in 1 .. Depth :
           R[k] = LayerForward(model.layers[k], net[k], call, v(k - 1), tokens, keep) /\ R[k].ok /\ R[k].shape = v(k)

\* others is ls with l in place k.
Replaced(ls, k, l, others) == others = [ls EXCEPT ![k] = l]

\* What a step of a forward pass does that succeeds.
LEMMA ForwardStepIs ==
  ASSUME NEW call, NEW tokens, NEW keep, NEW p, NEW k,
         ForwardStep(call, tokens, keep, p, k).ok
  PROVE  LET r == LayerForward(model.layers[k], net[k], call, p.shape, tokens, keep)
             q == ForwardStep(call, tokens, keep, p, k)
         IN  /\ p.ok /\ r.ok /\ q.shape = r.shape
             /\ Replaced(p.layers, k, r.layer, q.layers)
             /\ q.edges = Then(r.edges, p.edges)
             /\ q.uses = Then(r.edges, p.uses) \union InLayer(k, r.uses)
             /\ q.inputs = Append(p.inputs, p.shape)
<1> DEFINE r == LayerForward(model.layers[k], net[k], call, p.shape, tokens, keep)
           q == ForwardStep(call, tokens, keep, p, k)
<1>1. p.ok
  BY DEF ForwardStep
<1>2. q = [ok |-> r.ok, shape |-> r.shape,
           layers |-> [p.layers EXCEPT ![k] = r.layer],
           edges |-> Then(r.edges, p.edges),
           uses |-> Then(r.edges, p.uses) \union InLayer(k, r.uses),
           inputs |-> Append(p.inputs, p.shape)]
  BY <1>1 DEF ForwardStep
<1>3. q.ok
  OBVIOUS
<1> HIDE DEF r, q
<1>4. /\ q.ok = r.ok /\ q.shape = r.shape /\ q.layers = [p.layers EXCEPT ![k] = r.layer]
      /\ q.edges = Then(r.edges, p.edges) /\ q.uses = Then(r.edges, p.uses) \union InLayer(k, r.uses)
      /\ q.inputs = Append(p.inputs, p.shape)
  BY <1>2
<1>5. Replaced(p.layers, k, r.layer, q.layers)
  BY <1>4 DEF Replaced
<1> QED BY <1>1, <1>3, <1>4, <1>5 DEF r, q

\* A forward pass that succeeds is traced, with the layers as it leaves them.
LEMMA ForwardTraced ==
  ASSUME NetInv, lastBuild.ok, NEW N \in Nat \ {0}, NEW call, NEW tokens, NEW keep,
         NEW input, input = InBatch(model.batched, N, lastBuild.shape), keep \subseteq Offsets(input),
         SequentialForward(call, input, tokens, keep).ok
  PROVE  LET r == SequentialForward(call, input, tokens, keep)
         IN  /\ \E E, U, F, V : Traced(r, r.layers, input, E, U, F, V)
             /\ \E R, F, V : Layered(r, N, call, tokens, keep, R, F, V)
             /\ \A k \in 1 .. Depth : r.layers[k].training = net[k].training
             /\ r.shape = InBatch(model.batched, N, ShapesOf(model, lastBuild.shape)[Depth])
<1> DEFINE sh == ShapesOf(model, lastBuild.shape)
           b == model.batched
           v == [k \in 0 .. Depth |-> InBatch(b, N, sh[k])]
<1>0. LInv /\ model \in Models
  BY DEF NetInv, LInv
<1>1. Depth \in Nat /\ DOMAIN net = 1 .. Depth
  BY <1>0, ModelFacts
<1>2. PICK f : /\ Follows(f, ForwardPassOf(call, tokens, keep), ForwardBase(input))
               /\ f[Depth] = SequentialForward(call, input, tokens, keep)
  BY <1>1, ForwardFollows
<1>3. /\ f[0] = ForwardBase(input)
      /\ \A k \in 0 .. Depth - 1 : f[k+1] = ForwardStep(call, tokens, keep, f[k], k+1)
  BY <1>2 DEF Follows, StepOf, ForwardPassOf
<1>4. sh[0] = lastBuild.shape /\ v[0] = input /\ \A k \in 0 .. Depth : v[k] = InBatch(b, N, sh[k])
  BY <1>1, ShapesOfAre DEF Depth
<1>5. ASSUME NEW k \in 1 .. Depth
      PROVE  /\ b \in BOOLEAN /\ model.layers[k].kind \in Kinds /\ IsLayer(net[k])
             /\ Suits(model.layers[k], b, sh[k - 1]) /\ Sized(model.layers[k], net[k], sh[k - 1])
             /\ sh[k] = AnnouncedShape(model.layers[k], sh[k - 1])
  <2>1. lastBuild.shape \in model.shapes /\ NetFits(net, lastBuild.shape)
    BY DEF NetInv
  <2>2. IsLayer(net[k]) /\ Sized(model.layers[k], net[k], sh[k - 1])
    BY <1>0, <2>1 DEF LInv, NetFits
  <2> QED BY <1>0, <2>1, <2>2, ModelShapes DEF Depth
<1> HIDE DEF sh, b, v
<1> DEFINE R(k) == LayerForward(model.layers[k], net[k], call, v[k - 1], tokens, keep)
           E == [k \in 1 .. Depth |-> R(k).edges]
           U == [k \in 1 .. Depth |-> R(k).uses]
           X == {v[k] : k \in 0 .. Depth}
           Step(k) == /\ Adjoint(model.layers[k], R(k)) /\ R(k).shape = v[k] /\ R(k).ok
                      /\ R(k).layer.training = net[k].training
                      /\ keep \subseteq Offsets(v[k - 1]) => Reads(R(k), v[k - 1])
                      /\ f[k].edges = Then(R(k).edges, f[k - 1].edges)
                      /\ f[k].uses = Then(R(k).edges, f[k - 1].uses) \union InLayer(k, R(k).uses)
           Fits(k) == /\ f[k].shape = v[k]
                      /\ f[k].layers = [j \in 1 .. Depth |-> f[k].layers[j]]
                      /\ f[k].inputs \in Seq(X) /\ Len(f[k].inputs) = k
                      /\ \A j \in 1 .. k : f[k].inputs[j] = v[j - 1] /\ f[k].layers[j] = R(j).layer /\ Step(j)
           T == {k \in 0 .. Depth : f[k].ok => Fits(k)}
<1>6. 0 \in T
  <2>1. f[0].shape = input /\ f[0].layers = net /\ f[0].inputs = <<>>
    BY <1>3 DEF ForwardBase
  <2>2. net = [j \in 1 .. Depth |-> net[j]]
    BY <1>0 DEF LInv
  <2>3. <<>> \in Seq(X) /\ Len(<<>>) = 0
    OBVIOUS
  <2>4. 0 \in 0 .. Depth /\ 1 .. 0 = {}
    BY <1>1
  <2> HIDE DEF X, R, Step, T
  <2>5. Fits(0)
    BY <1>4, <2>1, <2>2, <2>3, <2>4
  <2> HIDE DEF Fits
  <2> QED BY <2>4, <2>5 DEF T
<1>7. ASSUME NEW k \in 0 .. Depth - 1, k \in T PROVE k + 1 \in T
  <2>1. k + 1 \in 1 .. Depth /\ k + 1 \in 0 .. Depth /\ (k + 1) - 1 = k /\ k \in Nat /\ k \in 0 .. Depth
    BY <1>1
  <2> SUFFICES ASSUME f[k+1].ok PROVE Fits(k + 1)
    BY <2>1
  <2> DEFINE new == LayerForward(model.layers[k+1], net[k+1], call, f[k].shape, tokens, keep)
  <2>2. /\ f[k].ok /\ new.ok /\ f[k+1].shape = new.shape
        /\ Replaced(f[k].layers, k+1, new.layer, f[k+1].layers)
        /\ f[k+1].edges = Then(new.edges, f[k].edges)
        /\ f[k+1].uses = Then(new.edges, f[k].uses) \union InLayer(k+1, new.uses)
        /\ f[k+1].inputs = Append(f[k].inputs, f[k].shape)
    <3>1. f[k+1] = ForwardStep(call, tokens, keep, f[k], k+1)
      BY <1>3
    <3>2. ForwardStep(call, tokens, keep, f[k], k+1).ok
      BY <3>1
    <3> DEFINE p == f[k]
               j == k + 1
               q == ForwardStep(call, tokens, keep, p, j)
               new0 == LayerForward(model.layers[j], net[j], call, p.shape, tokens, keep)
    <3>3. /\ p.ok /\ new0.ok /\ q.shape = new0.shape
          /\ Replaced(p.layers, j, new0.layer, q.layers)
          /\ q.edges = Then(new0.edges, p.edges)
          /\ q.uses = Then(new0.edges, p.uses) \union InLayer(j, new0.uses)
          /\ q.inputs = Append(p.inputs, p.shape)
      <4> HIDE DEF p, j, T, Fits, new
      <4>1. q.ok
        BY <3>2 DEF p, j
      <4> QED BY <4>1, ForwardStepIs
    <3> QED BY <3>1, <3>3, Zenon
  <2>3. Fits(k)
    BY <1>7, <2>2
  <2>4. f[k].shape = v[k] /\ new = R(k + 1)
    BY <2>1, <2>3
  <2> HIDE DEF new, T
  <2>5. Step(k + 1)
    <3> DEFINE L == model.layers[k+1]
               l == net[k+1]
    <3>1. /\ L.kind \in Kinds /\ IsLayer(l) /\ b \in BOOLEAN /\ Suits(L, b, sh[k]) /\ Sized(L, l, sh[k])
          /\ sh[k+1] = AnnouncedShape(L, sh[k]) /\ v[k] = InBatch(b, N, sh[k])
          /\ v[k+1] = InBatch(b, N, sh[k+1])
      BY <1>4, <1>5, <2>1
    <3>2. new = LayerForward(L, l, call, v[k], tokens, keep) /\ new.ok
      BY <2>2, <2>4 DEF new
    <3> HIDE DEF L, l, R, Step, Fits
    <3>3. /\ Adjoint(L, new) /\ new.shape = v[k+1] /\ new.layer.training = l.training
          /\ keep \subseteq Offsets(v[k]) => Reads(new, v[k])
      BY <3>1, <3>2, LayerAdjoint
    <3> QED BY <2>1, <2>2, <2>4, <3>3 DEF Step, L, l
  <2>6. f[k+1].shape = v[k+1]
    BY <2>2, <2>4, <2>5
  <2>7. /\ f[k+1].layers = [j \in 1 .. Depth |-> f[k+1].layers[j]]
        /\ \A j \in 1 .. Depth : f[k+1].layers[j] = IF j = k+1 THEN new.layer ELSE f[k].layers[j]
    <3> HIDE DEF R, Step
    <3> QED BY <2>1, <2>2, <2>3 DEF Replaced
  <2>8. /\ f[k+1].inputs \in Seq(X) /\ Len(f[k+1].inputs) = k + 1
        /\ f[k+1].inputs[k+1] = v[k] /\ \A j \in 1 .. k : f[k+1].inputs[j] = v[j - 1]
    <3>1. f[k].inputs \in Seq(X) /\ Len(f[k].inputs) = k /\ \A j \in 1 .. k : f[k].inputs[j] = v[j - 1]
      BY <2>3
    <3>2. v[k] \in X
      BY <2>1
    <3> DEFINE s == f[k].inputs
    <3> HIDE DEF X, R, Step, Fits, s
    <3>3. /\ Append(s, v[k]) \in Seq(X) /\ Len(Append(s, v[k])) = Len(s) + 1
          /\ Append(s, v[k])[Len(s) + 1] = v[k] /\ \A j \in 1 .. Len(s) : Append(s, v[k])[j] = s[j]
      BY <3>1, <3>2, AppendProperties DEF s
    <3> QED BY <2>2, <2>4, <3>1, <3>3 DEF s
  <2>9. ASSUME NEW j \in 1 .. k+1
        PROVE  f[k+1].inputs[j] = v[j - 1] /\ f[k+1].layers[j] = R(j).layer /\ Step(j)
    <3>1. CASE j = k + 1
      <4> HIDE DEF R, Step, X
      <4> QED BY <2>1, <2>4, <2>5, <2>7, <2>8, <3>1
    <3>2. CASE j # k + 1
      <4>1. j \in 1 .. k /\ j \in 1 .. Depth
        BY <1>1, <2>1, <2>9, <3>2
      <4> HIDE DEF R, Step, X
      <4> QED BY <2>3, <2>7, <2>8, <3>2, <4>1
    <3> QED BY <3>1, <3>2
  <2> HIDE DEF R, Step, X
  <2> QED BY <2>1, <2>6, <2>7, <2>8, <2>9
<1> HIDE DEF T
<1>8. 0 .. Depth \subseteq T
  BY <1>1, <1>6, <1>7, IntervalInduction
<1> USE DEF T
<1>9. Fits(Depth)
  <2> HIDE DEF R, Step, X, Fits
  <2>1. Depth \in T /\ f[Depth].ok
    BY <1>1, <1>2, <1>8
  <2> QED BY <2>1
<1> DEFINE F == [k \in 0 .. Depth |-> f[k].edges]
           V == [k \in 0 .. Depth |-> f[k].uses]
           r == f[Depth]
           Q == [k \in 1 .. Depth |-> R(k)]
<1>10. \A k \in 1 .. Depth : E[k] = R(k).edges /\ U[k] = R(k).uses /\ Step(k) /\ r.layers[k] = R(k).layer
  BY <1>9
<1>19. \A k \in 1 .. Depth : Q[k] = R(k)
  OBVIOUS
<1> HIDE DEF R, E, U, T, Fits, Step, Q
<1>11. Forwards(Depth, E, [k \in 1 .. Depth |-> InLayer(k, U[k])], Offsets(input), F, V)
  <2>1. F[0] = Identity(Offsets(input)) /\ V[0] = {}
    BY <1>1, <1>3 DEF ForwardBase
  <2>2. ASSUME NEW k \in 0 .. Depth - 1
        PROVE  F[k+1] = Then(E[k+1], F[k]) /\ V[k+1] = Then(E[k+1], V[k]) \union InLayer(k+1, U[k+1])
    <3>1. k + 1 \in 1 .. Depth /\ k \in 0 .. Depth /\ k + 1 \in 0 .. Depth /\ (k + 1) - 1 = k
      BY <1>1
    <3>2. /\ f[k+1].edges = Then(R(k+1).edges, f[k].edges)
          /\ f[k+1].uses = Then(R(k+1).edges, f[k].uses) \union InLayer(k+1, R(k+1).uses)
      BY <1>10, <3>1 DEF Step
    <3> QED BY <1>10, <3>1, <3>2
  <2>3. \A k \in 0 .. Depth - 1 : k + 1 \in 1 .. Depth
    BY <1>1
  <2> HIDE DEF F, V
  <2> QED BY <2>1, <2>2, <2>3 DEF Forwards
<1>12. F[Depth] = r.edges /\ V[Depth] = r.uses
  BY <1>1
<1> HIDE DEF F, V
<1>13. ASSUME NEW k \in 1 .. Depth
       PROVE  /\ IsRel(E[k]) /\ IsRel(U[k])
              /\ LayerBackward(model.layers[k], r.layers[k], Append(Tail(r.inputs), r.shape)[k])
                   = [edges |-> E[k], uses |-> U[k]]
  <2>1. /\ IsRel(E[k]) /\ IsRel(U[k])
        /\ LayerBackward(model.layers[k], r.layers[k], v[k]) = [edges |-> E[k], uses |-> U[k]]
    BY <1>10 DEF Step, Adjoint
  <2>2. Append(Tail(r.inputs), r.shape)[k] = v[k]
    <3> DEFINE s == r.inputs
               last == r.shape
    <3>1. Depth \in Nat \ {0} /\ Depth \in 0 .. Depth
      BY <1>1
    <3>2. /\ s \in Seq(X) /\ Len(s) = Depth /\ last = v[Depth] /\ last \in X
          /\ \A j \in 1 .. Depth : s[j] = v[j - 1]
      BY <1>9, <3>1 DEF Fits
    <3> HIDE DEF s, last, X
    <3>3. /\ Append(Tail(s), last)[Depth] = last
          /\ \A j \in 1 .. Depth - 1 : Append(Tail(s), last)[j] = s[j + 1]
      BY <3>1, <3>2, ShapesReturned
    <3>4. \A j \in 1 .. Depth - 1 : j + 1 \in 1 .. Depth /\ (j + 1) - 1 = j
      BY <3>1
    <3>5. k = Depth \/ k \in 1 .. Depth - 1
      BY <3>1
    <3>6. \A j \in 1 .. Depth - 1 : Append(Tail(s), last)[j] = v[j]
      BY <3>2, <3>3, <3>4
    <3> QED BY <3>2, <3>3, <3>5, <3>6 DEF s, last
  <2> QED BY <2>1, <2>2
<1>14. Depth = 0 => r.shape = input
  BY <1>4, <1>9 DEF Fits
<1>15. Depth # 0 => \A e \in E[1] : e[2] \in Offsets(input)
  <2> SUFFICES ASSUME Depth # 0 PROVE \A e \in E[1] : e[2] \in Offsets(input)
    OBVIOUS
  <2>1. 1 \in 1 .. Depth /\ 1 - 1 = 0
    BY <1>1
  <2>2. Reads(R(1), input) /\ E[1] = R(1).edges
    BY <1>4, <1>10, <2>1 DEF Step
  <2> QED BY <2>2 DEF Reads
<1>16. Traced(r, r.layers, input, E, U, F, V)
  <2> HIDE DEF r
  <2> QED BY <1>11, <1>12, <1>13, <1>14, <1>15 DEF Traced
<1>17. \A k \in 1 .. Depth : r.layers[k].training = net[k].training
  BY <1>10 DEF Step
<1>18. r.shape = InBatch(model.batched, N, ShapesOf(model, lastBuild.shape)[Depth])
  BY <1>1, <1>4, <1>9 DEF Fits, sh, b
<1>20. Layered(r, N, call, tokens, keep, Q, F, V)
  <2> DEFINE w(k) == InBatch(model.batched, N, ShapesOf(model, lastBuild.shape)[k])
  <2>1. \A k \in 0 .. Depth : w(k) = v[k]
    BY <1>4 DEF sh, b
  <2>2. 0 \in 0 .. Depth /\ \A k \in 1 .. Depth : k \in 0 .. Depth /\ k - 1 \in 0 .. Depth
    BY <1>1
  <2>3. w(0) = input
    BY <1>4, <2>1, <2>2
  <2>4. [k \in 1 .. Depth |-> Q[k].edges] = E /\ [k \in 1 .. Depth |-> InLayer(k, Q[k].uses)] = [k \in 1 .. Depth |-> InLayer(k, U[k])]
    <3>1. \A k \in 1 .. Depth : Q[k].edges = E[k] /\ Q[k].uses = U[k]
      BY <1>10, <1>19
    <3>2. E = [k \in 1 .. Depth |-> E[k]]
      BY DEF E
    <3> QED BY <3>1, <3>2
  <2>5. ASSUME NEW k \in 1 .. Depth
        PROVE  /\ Q[k] = LayerForward(model.layers[k], net[k], call, w(k - 1), tokens, keep)
               /\ Q[k].ok /\ Q[k].shape = w(k)
    <3>1. Q[k] = R(k) /\ R(k).ok /\ R(k).shape = v[k]
      BY <1>10, <1>19 DEF Step
    <3>2. R(k) = LayerForward(model.layers[k], net[k], call, v[k - 1], tokens, keep)
      BY DEF R
    <3> HIDE DEF w
    <3> QED BY <2>1, <2>2, <3>1, <3>2
  <2> HIDE DEF r
  <2> QED BY <1>11, <1>12, <2>3, <2>4, <2>5 DEF Layered
<1> QED BY <1>2, <1>16, <1>17, <1>18, <1>20

\* The gradient of a loss is along the elements that its value is a sum over.
LEMMA LossIs ==
  ASSUME NEW loss, NEW s
  PROVE  /\ LossGradient(loss, s) = LossCompute(loss, s) /\ IsRel(LossGradient(loss, s))
         /\ \A e \in LossGradient(loss, s) : e[2] \in Offsets(s)
<1> DEFINE d == Divisor(loss, s)
           g == {<<0, i, <<<<loss, i, d>>>>>> : i \in Offsets(s)}
<1>1. LossGradient(loss, s) = g /\ LossCompute(loss, s) = g
  BY DEF LossGradient, LossCompute, Divisor
<1> HIDE DEF d
<1>2. \A e \in g : \E a, b, v : e = <<a, b, <<v>>>>
  OBVIOUS
<1>3. \A e \in g : e[2] \in Offsets(s)
  OBVIOUS
<1> HIDE DEF g
<1>4. IsRel(g)
  BY <1>2, TermsAreRel
<1> QED BY <1>1, <1>3, <1>4

\* A step of backward composes the gradient with what the layer returns.
LEMMA BackwardStepIs ==
  ASSUME NEW shapes, NEW k, NEW above, NEW e, NEW u,
         LayerBackward(model.layers[k], net[k], shapes[k]) = [edges |-> e, uses |-> u]
  PROVE  LET r == BackwardStep(shapes, k, above)
         IN  r.edges = Then(above.edges, e) /\ r.uses = above.uses \union Then(above.edges, InLayer(k, u))
<1> DEFINE q == LayerBackward(model.layers[k], net[k], shapes[k])
           r == BackwardStep(shapes, k, above)
<1>1. q.edges = e /\ q.uses = u
  OBVIOUS
<1>2. r = [edges |-> Then(above.edges, q.edges), uses |-> above.uses \union Then(above.edges, InLayer(k, q.uses))]
  BY DEF BackwardStep
<1> HIDE DEF q, r
<1> QED BY <1>1, <1>2 DEF r

\* The way back from the gradient of a loss, through the layers as they are.
LEMMA BackwardAdjoint ==
  ASSUME LInv, NEW loss, NEW E, NEW U, NEW F, NEW V, Traced(fwd, net, fwd.input, E, U, F, V)
  PROVE  LET r == SequentialBackward(LossGradient(loss, fwd.shape), OutputShapes)
         IN  /\ r.edges = Then(LossCompute(loss, fwd.shape), fwd.edges)
             /\ r.uses = Then(LossCompute(loss, fwd.shape), fwd.uses)
<1> DEFINE g == LossGradient(loss, fwd.shape)
           shapes == OutputShapes
           UL == [k \in 1 .. Depth |-> InLayer(k, U[k])]
<1>1. Depth \in Nat /\ DOMAIN net = 1 .. Depth
  BY ModelFacts
<1>2. PICK f : Walks(f, shapes, g) /\ f[0] = SequentialBackward(g, shapes)
  BY <1>1, BackwardWalks
<1> DEFINE G == [k \in 0 .. Depth |-> f[k].edges]
           W == [k \in 0 .. Depth |-> f[k].uses]
<1>3. \A k \in 1 .. Depth :
        /\ IsRel(E[k]) /\ IsRel(U[k])
        /\ LayerBackward(model.layers[k], net[k], shapes[k]) = [edges |-> E[k], uses |-> U[k]]
  BY DEF Traced, OutputShapes
<1>4. \A k \in 1 .. Depth : IsRel(UL[k]) /\ UL[k] = InLayer(k, U[k])
  BY <1>3, InLayerIsRel
<1> HIDE DEF g, shapes
<1>5. Backwards(Depth, E, UL, g, G, W)
  <2>1. G[Depth] = g /\ W[Depth] = {}
    BY <1>1, <1>2 DEF Walks
  <2>2. ASSUME NEW k \in 0 .. Depth - 1
        PROVE  G[k] = Then(G[k+1], E[k+1]) /\ W[k] = W[k+1] \union Then(G[k+1], UL[k+1])
    <3>1. k \in 0 .. Depth /\ k + 1 \in 0 .. Depth /\ k + 1 \in 1 .. Depth
      BY <1>1
    <3>2. f[k] = BackwardStep(shapes, k + 1, f[k+1])
      BY <1>2 DEF Walks
    <3>3. LayerBackward(model.layers[k+1], net[k+1], shapes[k+1]) = [edges |-> E[k+1], uses |-> U[k+1]]
      BY <1>3, <3>1
    <3>4. /\ f[k].edges = Then(f[k+1].edges, E[k+1])
          /\ f[k].uses = f[k+1].uses \union Then(f[k+1].edges, InLayer(k+1, U[k+1]))
      BY <3>2, <3>3, BackwardStepIs
    <3> QED BY <1>4, <3>1, <3>4
  <2> HIDE DEF G, W, UL
  <2> QED BY <2>1, <2>2 DEF Backwards
<1>6. Forwards(Depth, E, UL, Offsets(fwd.input), F, V)
  BY DEF Traced
<1>7. IsRel(g) /\ g = LossCompute(loss, fwd.shape) /\ \A e \in g : e[2] \in Offsets(fwd.shape)
  BY LossIs DEF g
<1>8. \A e \in G[0] : e[2] \in Offsets(fwd.input)
  <2>1. CASE Depth = 0
    <3>1. G[0] = g /\ fwd.shape = fwd.input
      BY <1>5, <2>1 DEF Backwards, Traced
    <3> QED BY <1>7, <3>1
  <2>2. CASE Depth # 0
    <3>1. 0 \in 0 .. Depth - 1 /\ 0 + 1 = 1
      BY <1>1, <2>2
    <3>2. G[0] = Then(G[1], E[1])
      BY <1>5, <3>1 DEF Backwards
    <3>3. \A e \in E[1] : e[2] \in Offsets(fwd.input)
      BY <2>2 DEF Traced
    <3> SUFFICES ASSUME NEW e \in G[0] PROVE e[2] \in Offsets(fwd.input)
      OBVIOUS
    <3> HIDE DEF G
    <3>4. PICK p \in G[1], q \in E[1] : Joins(e, p, q)
      BY <3>2, InThen
    <3> QED BY <3>3, <3>4 DEF Joins
  <2> QED BY <2>1, <2>2
<1>9. G[0] = f[0].edges /\ W[0] = f[0].uses
  BY <1>1
<1> HIDE DEF G, W, UL
<1>10. G[0] = Then(g, F[Depth]) /\ W[0] = Then(g, V[Depth])
  <2> DEFINE n == Depth
             P == Offsets(fwd.input)
  <2>1. n \in Nat /\ (\A k \in 1 .. n : IsRel(E[k]) /\ IsRel(UL[k])) /\ IsRel(g)
    BY <1>1, <1>3, <1>4, <1>7
  <2>2. Forwards(n, E, UL, P, F, V) /\ Backwards(n, E, UL, g, G, W) /\ \A e \in G[0] : e[2] \in P
    BY <1>5, <1>6, <1>8
  <2> HIDE DEF n, P
  <2>3. G[0] = Then(g, F[n]) /\ W[0] = Then(g, V[n])
    BY <2>1, <2>2, ChainRule
  <2> QED BY <2>3 DEF n
<1>11. F[Depth] = fwd.edges /\ V[Depth] = fwd.uses
  BY DEF Traced
<1> QED BY <1>2, <1>7, <1>9, <1>10, <1>11 DEF g, shapes

-----------------------------------------------------------------------------
(***************************************************************************)
(* The inductive invariant: the model is built or untouched, the mode is   *)
(* that of its layers, and the last forward pass is traced by edges along  *)
(* which every layer's backward goes, in the mode the pass was run in.     *)
(***************************************************************************)

\* The layers in the mode m.
InMode(ls, m) == [k \in DOMAIN ls |-> [ls[k] EXCEPT !.training = m]]

\* The last forward pass is traced, in the mode it was run in; and the property.
GradInv ==
  /\ NetInv
  /\ IsList(paramGrads)
  /\ fwd # <<>> /\ fwd.ok =>
       \E E, U, F, V : Traced(fwd, InMode(net, fwd.training), fwd.input, E, U, F, V)
  /\ GradientsAreAdjoint

\* setTraining changes the mode alone.
LEMMA SetMode ==
  ASSUME NEW l, IsLayer(l), NEW m
  PROVE  /\ [l EXCEPT !.training = m].training = m
         /\ IsLayer([l EXCEPT !.training = m]) /\ SameWeights(l, [l EXCEPT !.training = m])
         /\ \A t : [[l EXCEPT !.training = m] EXCEPT !.training = t] = [l EXCEPT !.training = t]
         /\ m = l.training => [l EXCEPT !.training = m] = l
<1> DEFINE q == [l EXCEPT !.training = m]
<1>1. q = [built |-> l.built, dims |-> l.dims, inits |-> l.inits,
           training |-> m, ctx |-> l.ctx, running |-> l.running]
  BY FieldsUpdated, Zenon
<1> HIDE DEF q
<1>2. q.training = m /\ IsLayer(q) /\ SameWeights(l, q)
  BY <1>1 DEF IsLayer, SameWeights
<1>3. ASSUME NEW t PROVE [q EXCEPT !.training = t] = [l EXCEPT !.training = t]
  <2> DEFINE a == [q EXCEPT !.training = t]
             c == [l EXCEPT !.training = t]
  <2>1. a = [built |-> q.built, dims |-> q.dims, inits |-> q.inits,
             training |-> t, ctx |-> q.ctx, running |-> q.running]
    BY <1>2, FieldsUpdated, Zenon
  <2>2. c = [built |-> l.built, dims |-> l.dims, inits |-> l.inits,
             training |-> t, ctx |-> l.ctx, running |-> l.running]
    BY FieldsUpdated, Zenon
  <2> HIDE DEF a, c
  <2>3. a = c
    BY <1>1, <2>1, <2>2
  <2> QED BY <2>3 DEF a, c
<1>4. m = l.training => q = l
  BY <1>1 DEF IsLayer
<1> QED BY <1>2, <1>3, <1>4 DEF q

\* Whatever leaves the weights alone and the mode with the layers keeps NetInv.
LEMMA NetKept ==
  ASSUME NetInv, LInv', model' = model, lastBuild' = lastBuild,
         \A k \in 1 .. Depth : SameWeights(net[k], net'[k]),
         \A k \in 1 .. Depth : net'[k].training = training'
  PROVE  NetInv'
<1>1. Depth' = Depth
  BY DEF Depth
<1>2. \A k \in 1 .. Depth : net'[k].built = net[k].built /\ net'[k].dims = net[k].dims
  BY DEF SameWeights
<1>3. ASSUME NetFits(net, lastBuild.shape) PROVE NetFits(net, lastBuild.shape)'
  BY <1>1, <1>2, <1>3 DEF NetFits, Sized, Wide
<1>4. \/ ~lastBuild'.ok /\ \A k \in 1 .. Depth' : ~net'[k].built
      \/ lastBuild'.ok /\ lastBuild'.shape \in model'.shapes /\ NetFits(net, lastBuild.shape)'
  BY <1>1, <1>2, <1>3 DEF NetInv
<1> QED BY <1>1, <1>4 DEF NetInv

LEMMA NetStart ==
  ASSUME LayersInit
  PROVE  NetInv
<1>1. net = [k \in 1 .. Depth |-> New] /\ training = TRUE /\ lastBuild = [shape |-> <<>>, ok |-> FALSE]
  BY DEF LayersInit
<1>2. \A k \in 1 .. Depth : net[k] = New
  BY <1>1
<1>3. New.training = TRUE /\ ~New.built
  BY DEF New
<1>4. ~lastBuild.ok
  BY <1>1
<1> QED BY <1>1, <1>2, <1>3, <1>4, LayersStart DEF NetInv

LEMMA GradStart ==
  ASSUME LayersInit
  PROVE  GradInv
<1>1. fwd = <<>> /\ bwd = <<>> /\ paramGrads = <<>>
  BY DEF LayersInit
<1>2. GradientsAreAdjoint
  BY <1>1 DEF GradientsAreAdjoint
<1> QED BY <1>1, <1>2, NetStart, NoFactors DEF GradInv

\* A build, the first or a later one.
LEMMA BuildGrad ==
  ASSUME GradInv, LInv', NEW s \in model.shapes, BuildModel(s)
  PROVE  GradInv'
<1> DEFINE r == SequentialBuild(s)
<1>1. /\ net' = r.layers /\ lastBuild' = [shape |-> s, ok |-> r.ok] /\ fwd' = <<>> /\ bwd' = <<>>
      /\ model' = model /\ training' = training /\ paramGrads' = paramGrads
  BY DEF BuildModel
<1>2. r.ok /\ NetFits(r.layers, s) /\ \A j \in 1 .. Depth : r.layers[j].training = net[j].training
  BY ModelBuilds DEF GradInv
<1> HIDE DEF r
<1>3. Depth' = Depth /\ lastBuild'.shape = s /\ lastBuild'.ok = r.ok
  BY <1>1 DEF Depth
<1>4. \A k \in 1 .. Depth' : net'[k].training = training'
  BY <1>1, <1>2, <1>3 DEF GradInv, NetInv
<1>5. NetFits(net, lastBuild.shape)'
  BY <1>1, <1>2, <1>3 DEF NetFits
<1>6. NetInv'
  BY <1>1, <1>2, <1>3, <1>4, <1>5 DEF NetInv
<1>7. GradientsAreAdjoint'
  BY <1>1 DEF GradientsAreAdjoint
<1>8. IsList(paramGrads)'
  BY <1>1 DEF GradInv
<1> QED BY <1>1, <1>6, <1>7, <1>8 DEF GradInv

\* The mode may change between forward and backward.
LEMMA ModeGrad ==
  ASSUME GradInv, LInv', NEW t \in BOOLEAN, SetTraining(t)
  PROVE  GradInv'
<1>1. /\ training' = t /\ net' = [k \in 1 .. Depth |-> [net[k] EXCEPT !.training = t]]
      /\ model' = model /\ lastBuild' = lastBuild /\ fwd' = fwd /\ bwd' = bwd /\ paramGrads' = paramGrads
  BY DEF SetTraining
<1>2. LInv /\ NetInv
  BY DEF GradInv, NetInv
<1>3. Depth \in Nat /\ DOMAIN net = 1 .. Depth /\ Depth' = Depth /\ DOMAIN net' = 1 .. Depth
  BY <1>1, <1>2, ModelFacts DEF Depth
<1>4. ASSUME NEW k \in 1 .. Depth
      PROVE  /\ net'[k].training = t /\ SameWeights(net[k], net'[k])
             /\ \A m : [net'[k] EXCEPT !.training = m] = [net[k] EXCEPT !.training = m]
  <2> DEFINE l == net[k]
  <2>1. net'[k] = [l EXCEPT !.training = t] /\ IsLayer(l)
    BY <1>1, <1>2 DEF LInv
  <2> HIDE DEF l
  <2>2. /\ [l EXCEPT !.training = t].training = t /\ SameWeights(l, [l EXCEPT !.training = t])
        /\ \A m : [[l EXCEPT !.training = t] EXCEPT !.training = m] = [l EXCEPT !.training = m]
    BY <2>1, SetMode
  <2> QED BY <2>1, <2>2 DEF l
<1>5. NetInv'
  BY <1>1, <1>2, <1>3, <1>4, NetKept
<1>6. \A m : InMode(net', m) = InMode(net, m)
  BY <1>3, <1>4 DEF InMode
<1>7. ASSUME NEW E, NEW U, NEW F, NEW V, Traced(fwd, InMode(net, fwd.training), fwd.input, E, U, F, V)
      PROVE  Traced(fwd, InMode(net, fwd.training), fwd.input, E, U, F, V)'
  BY <1>1, <1>3, <1>6, <1>7 DEF Traced
<1>8. (fwd # <<>> /\ fwd.ok =>
         \E E, U, F, V : Traced(fwd, InMode(net, fwd.training), fwd.input, E, U, F, V))'
  BY <1>1, <1>7 DEF GradInv
<1>9. GradientsAreAdjoint' /\ IsList(paramGrads)'
  BY <1>1 DEF GradInv, GradientsAreAdjoint
<1> QED BY <1>5, <1>8, <1>9 DEF GradInv

\* A forward pass, successful or not.
LEMMA ForwardGrad ==
  ASSUME GradInv, LInv', NEW N \in Batches, NEW tokens \in Tokens(N), NEW keep \in Masks(N),
         ForwardPass(N, tokens, keep)
  PROVE  GradInv'
<1> DEFINE input == InputShape(N)
           r == SequentialForward(calls', input, tokens, keep)
<1>1. /\ lastBuild.ok /\ net' = r.layers /\ bwd' = <<>>
      /\ fwd' = [ok |-> r.ok, training |-> training, input |-> input, shape |-> r.shape,
                 inputs |-> r.inputs, edges |-> r.edges, uses |-> r.uses]
      /\ model' = model /\ training' = training /\ lastBuild' = lastBuild /\ paramGrads' = paramGrads
  BY DEF ForwardPass
<1>2. LInv /\ NetInv
  BY DEF GradInv, NetInv
<1>3. Depth \in Nat /\ DOMAIN net = 1 .. Depth /\ Depth' = Depth
  BY <1>1, <1>2, ModelFacts DEF Depth
<1>4. N \in Nat \ {0} /\ keep \subseteq Offsets(input) /\ input = InBatch(model.batched, N, lastBuild.shape)
  BY LayersAssumption DEF LayersAssumption, Masks, InputShape, InBatch
<1>5. /\ r.layers = [j \in 1 .. Depth |-> r.layers[j]]
      /\ \A j \in 1 .. Depth : IsLayer(r.layers[j]) /\ SameWeights(net[j], r.layers[j])
      /\ \A j \in 1 .. Depth : r.layers[j].training = net[j].training
  BY <1>2, ForwardPassKeeps
<1>6. r.ok => /\ \E E, U, F, V : Traced(r, r.layers, input, E, U, F, V)
              /\ \A k \in 1 .. Depth : r.layers[k].training = net[k].training
  <2> SUFFICES ASSUME r.ok
               PROVE  /\ \E E, U, F, V : Traced(r, r.layers, input, E, U, F, V)
                      /\ \A k \in 1 .. Depth : r.layers[k].training = net[k].training
    OBVIOUS
  <2> DEFINE c == calls'
  <2>1. r = SequentialForward(c, input, tokens, keep)
    OBVIOUS
  <2> HIDE DEF input, c, r
  <2>2. SequentialForward(c, input, tokens, keep).ok
    BY <2>1
  <2>3. LET q == SequentialForward(c, input, tokens, keep)
        IN  /\ \E E, U, F, V : Traced(q, q.layers, input, E, U, F, V)
            /\ \A k \in 1 .. Depth : q.layers[k].training = net[k].training
    <3>1. lastBuild.ok
      BY <1>1
    <3> QED BY <1>2, <1>4, <2>2, <3>1, ForwardTraced
  <2> QED BY <2>1, <2>3
<1>7. \A k \in 1 .. Depth : r.layers[k].training = net[k].training
  BY <1>5
<1> HIDE DEF r, input
<1>8. /\ fwd'.ok = r.ok /\ fwd'.training = training /\ fwd'.input = input /\ fwd'.shape = r.shape
      /\ fwd'.inputs = r.inputs /\ fwd'.edges = r.edges /\ fwd'.uses = r.uses
  BY <1>1
<1>9. NetInv'
  <2>1. \A k \in 1 .. Depth : net'[k].training = training' /\ SameWeights(net[k], net'[k])
    BY <1>1, <1>2, <1>5, <1>7 DEF NetInv
  <2> QED BY <1>1, <1>2, <2>1, NetKept
<1>10. InMode(net', fwd'.training) = r.layers
  <2>1. DOMAIN net' = 1 .. Depth
    BY <1>1, <1>5
  <2>2. ASSUME NEW k \in 1 .. Depth PROVE [net'[k] EXCEPT !.training = training] = r.layers[k]
    <3> DEFINE l == r.layers[k]
    <3>1. IsLayer(l) /\ l.training = training /\ net'[k] = l
      BY <1>1, <1>2, <1>5, <1>7 DEF NetInv
    <3> HIDE DEF l
    <3>2. [l EXCEPT !.training = training] = l
      BY <3>1, SetMode
    <3> QED BY <3>1, <3>2 DEF l
  <2>3. InMode(net', training) = [k \in 1 .. Depth |-> r.layers[k]]
    BY <2>1, <2>2 DEF InMode
  <2> QED BY <1>5, <1>8, <2>3
<1>11. ASSUME NEW E, NEW U, NEW F, NEW V, Traced(r, r.layers, input, E, U, F, V)
       PROVE  Traced(fwd, InMode(net, fwd.training), fwd.input, E, U, F, V)'
  BY <1>1, <1>3, <1>8, <1>10, <1>11 DEF Traced
<1>12. (fwd # <<>> /\ fwd.ok =>
          \E E, U, F, V : Traced(fwd, InMode(net, fwd.training), fwd.input, E, U, F, V))'
  BY <1>6, <1>8, <1>11
<1>13. GradientsAreAdjoint' /\ IsList(paramGrads)'
  BY <1>1 DEF GradInv, GradientsAreAdjoint
<1> QED BY <1>9, <1>12, <1>13 DEF GradInv

\* A backward pass, in either mode.
LEMMA BackwardGrad ==
  ASSUME GradInv, LInv', NEW loss \in Losses, BackwardPass(loss)
  PROVE  GradInv'
<1> DEFINE r == SequentialBackward(LossGradient(loss, fwd.shape), OutputShapes)
           target == LossCompute(loss, fwd.shape)
<1>1. /\ fwd # <<>> /\ fwd.ok /\ bwd' = [loss |-> loss, training |-> training, edges |-> r.edges]
      /\ paramGrads' = Append(paramGrads, r.uses)
      /\ model' = model /\ net' = net /\ training' = training /\ lastBuild' = lastBuild /\ fwd' = fwd
  BY DEF BackwardPass
<1>2. LInv /\ NetInv
  BY DEF GradInv, NetInv
<1>3. Depth \in Nat /\ DOMAIN net = 1 .. Depth /\ Depth' = Depth
  BY <1>1, <1>2, ModelFacts DEF Depth
<1>4. PICK E, U, F, V : Traced(fwd, InMode(net, fwd.training), fwd.input, E, U, F, V)
  BY <1>1 DEF GradInv
<1>5. training = fwd.training => r.edges = Then(target, fwd.edges) /\ r.uses = Then(target, fwd.uses)
  <2> SUFFICES ASSUME training = fwd.training
               PROVE  r.edges = Then(target, fwd.edges) /\ r.uses = Then(target, fwd.uses)
    OBVIOUS
  <2>1. ASSUME NEW k \in 1 .. Depth PROVE [net[k] EXCEPT !.training = training] = net[k]
    <3>1. IsLayer(net[k]) /\ training = net[k].training
      BY <1>2 DEF NetInv, LInv
    <3> QED BY <3>1, SetMode
  <2>2. InMode(net, training) = [k \in 1 .. Depth |-> net[k]]
    BY <1>3, <2>1 DEF InMode
  <2>3. InMode(net, fwd.training) = net
    BY <1>2, <2>2 DEF LInv
  <2>4. Traced(fwd, net, fwd.input, E, U, F, V)
    BY <1>4, <2>3
  <2> QED BY <1>2, <2>4, BackwardAdjoint
<1>6. /\ IsList(paramGrads') /\ paramGrads' # <<>> /\ Last(paramGrads') = r.uses
  <2> DEFINE u == r.uses
  <2>1. PICK X : paramGrads \in Seq(X)
    BY DEF GradInv, IsList
  <2>2. paramGrads \in Seq(X \union {u}) /\ u \in X \union {u}
    BY <2>1
  <2> HIDE DEF u
  <2> DEFINE s == Append(paramGrads, u)
  <2>3. /\ s \in Seq(X \union {u}) /\ Len(s) = Len(paramGrads) + 1 /\ s[Len(paramGrads) + 1] = u
        /\ Len(paramGrads) \in Nat
    BY <2>2, AppendProperties
  <2> HIDE DEF s
  <2>4. Len(s) # Len(<<>>)
    BY <2>3
  <2>5. s # <<>>
    BY <2>4, Zenon
  <2>6. IsList(s) /\ Last(s) = u
    BY <2>3 DEF IsList, Last
  <2>7. paramGrads' = s
    BY <1>1 DEF s, u
  <2> QED BY <2>5, <2>6, <2>7 DEF u
<1> HIDE DEF r
<1>7. bwd'.loss = loss /\ bwd'.training = training /\ bwd'.edges = r.edges
  BY <1>1
<1>8. GradientsAreAdjoint'
  BY <1>1, <1>5, <1>6, <1>7 DEF GradientsAreAdjoint
<1>9. NetInv'
  BY <1>1, <1>2, <1>3, NetKept DEF NetInv, SameWeights
<1>10. ASSUME NEW a, NEW b, NEW c, NEW d, Traced(fwd, InMode(net, fwd.training), fwd.input, a, b, c, d)
       PROVE  Traced(fwd, InMode(net, fwd.training), fwd.input, a, b, c, d)'
  BY <1>1, <1>3, <1>10 DEF Traced
<1>11. (fwd # <<>> /\ fwd.ok =>
          \E a, b, c, d : Traced(fwd, InMode(net, fwd.training), fwd.input, a, b, c, d))'
  BY <1>1, <1>4, <1>10
<1> QED BY <1>6, <1>8, <1>9, <1>11 DEF GradInv

\* Nothing the invariant speaks of changes, but that backward may be forgotten.
LEMMA StillGrad ==
  ASSUME GradInv, LInv', model' = model, net' = net, training' = training, lastBuild' = lastBuild, fwd' = fwd,
         \/ bwd' = <<>> /\ paramGrads' = <<>>
         \/ bwd' = bwd /\ paramGrads' = paramGrads
  PROVE  GradInv'
<1>1. LInv /\ NetInv
  BY DEF GradInv, NetInv
<1>2. Depth' = Depth
  BY DEF Depth
<1>3. NetInv'
  BY <1>1, <1>2, NetKept DEF NetInv, SameWeights
<1>4. ASSUME NEW a, NEW b, NEW c, NEW d, Traced(fwd, InMode(net, fwd.training), fwd.input, a, b, c, d)
      PROVE  Traced(fwd, InMode(net, fwd.training), fwd.input, a, b, c, d)'
  BY <1>2, <1>4 DEF Traced
<1>5. (fwd # <<>> /\ fwd.ok =>
         \E a, b, c, d : Traced(fwd, InMode(net, fwd.training), fwd.input, a, b, c, d))'
  BY <1>4 DEF GradInv
<1>6. GradientsAreAdjoint'
  BY DEF GradInv, GradientsAreAdjoint
<1>7. IsList(paramGrads)'
  BY NoFactors DEF GradInv
<1> QED BY <1>3, <1>5, <1>6, <1>7 DEF GradInv

\* Every step keeps the invariant.
LEMMA GradStep ==
  ASSUME GradInv, [LayersNext]_layerVars
  PROVE  GradInv'
<1>1. LInv'
  BY LayersStep DEF GradInv, NetInv
<1>2. ASSUME NEW s \in model.shapes, BuildModel(s) PROVE GradInv'
  BY <1>1, <1>2, BuildGrad
<1>3. ASSUME NEW t \in BOOLEAN, SetTraining(t) PROVE GradInv'
  BY <1>1, <1>3, ModeGrad
<1>4. ASSUME NEW N \in Batches, NEW tokens \in Tokens(N), NEW keep \in Masks(N), ForwardPass(N, tokens, keep)
      PROVE  GradInv'
  BY <1>1, <1>4, ForwardGrad
<1>5. ASSUME NEW loss \in Losses, BackwardPass(loss) PROVE GradInv'
  BY <1>1, <1>5, BackwardGrad
<1>6. CASE ZeroGrad
  BY <1>1, <1>6, StillGrad DEF ZeroGrad
<1>7. CASE UNCHANGED layerVars
  BY <1>1, <1>7, StillGrad DEF layerVars
<1> QED BY <1>2, <1>3, <1>4, <1>5, <1>6, <1>7 DEF LayersNext

\* Whatever well-shaped model a program makes of the layers, however deep, and
\* whatever it calls in which order: backward computes the gradient of the loss.
THEOREM BackwardIsGradient == LayersSpec => []GradientsAreAdjoint
<1>1. LayersInit => GradInv
  BY GradStart
<1>2. GradInv /\ [LayersNext]_layerVars => GradInv'
  BY GradStep
<1>3. GradInv => GradientsAreAdjoint
  BY DEF GradInv
<1> QED BY <1>1, <1>2, <1>3, PTL DEF LayersSpec

-----------------------------------------------------------------------------
(***************************************************************************)
(* What each layer's result has to do with its input: where its edges and  *)
(* uses lie, from which sample they come, and that every element is        *)
(* written.  A matrix, a batch of matrices and a batch of images name      *)
(* their elements by row and column.                                       *)
(***************************************************************************)

\* Every place is some column of some row.
LEMMA DigitsExist ==
  ASSUME NEW a \in Nat, NEW b \in Nat, NEW o \in 0 .. a * b - 1
  PROVE  \E x \in 0 .. a-1, c \in 0 .. b-1 : o = x * b + c
<1>1. b > 0 /\ a > 0
  <2>1. CASE a = 0
    <3>1. a * b = 0
      BY <2>1
    <3> QED BY <3>1
  <2>2. CASE b = 0
    <3>1. a * b = 0
      BY <2>2
    <3> QED BY <3>1
  <2> QED BY <2>1, <2>2
<1> DEFINE x == o \div b
           c == o % b
<1>2. o \in Nat /\ o < a * b
  BY ProductNat
<1>3. x \in Nat /\ c \in 0 .. b-1 /\ o = b * x + c
  BY <1>1, <1>2
<1>4. o = x * b + c
  BY <1>1, <1>3
<1> HIDE DEF x, c
<1>5. x < a
  <2> SUFFICES ASSUME a <= x PROVE FALSE
    BY <1>3
  <2>1. a * b <= x * b
    BY <1>3, ProductMonotone
  <2>2. a * b \in Nat /\ x * b \in Nat
    BY <1>3, ProductNat
  <2> QED BY <1>2, <1>3, <1>4, <2>1, <2>2
<1> QED BY <1>3, <1>4, <1>5

\* The elements of a matrix, of a batch of matrices and of a batch of images.
LEMMA InMatrix ==
  ASSUME NEW P \in Nat, NEW Q \in Nat
  PROVE  /\ \A x \in 0 .. P-1, y \in 0 .. Q-1 : x * Q + y \in Offsets(<<P, Q>>)
         /\ \A o \in Offsets(<<P, Q>>) : \E x \in 0 .. P-1, y \in 0 .. Q-1 : o = x * Q + y
<1>1. Offsets(<<P, Q>>) = 0 .. P * Q - 1
  BY OffsetsTwo
<1>2. \A x \in 0 .. P-1, y \in 0 .. Q-1 : x * Q + y \in 0 .. P * Q - 1
  BY DigitBounds
<1>3. \A o \in 0 .. P * Q - 1 : \E x \in 0 .. P-1, y \in 0 .. Q-1 : o = x * Q + y
  BY DigitsExist
<1> QED BY <1>1, <1>2, <1>3

LEMMA InMatrices ==
  ASSUME NEW B \in Nat, NEW P \in Nat, NEW Q \in Nat
  PROVE  /\ \A i \in 0 .. B-1, x \in 0 .. P-1, y \in 0 .. Q-1 : Cell(i, x, y, P, Q) \in Offsets(<<B, P, Q>>)
         /\ \A o \in Offsets(<<B, P, Q>>) :
              \E i \in 0 .. B-1, x \in 0 .. P-1, y \in 0 .. Q-1 : o = Cell(i, x, y, P, Q)
<1> DEFINE A == P * Q
<1>1. A \in Nat /\ B * P * Q = B * A
  BY ProductNat
<1>2. Offsets(<<B, P, Q>>) = 0 .. B * A - 1
  BY <1>1, OffsetsThree
<1>3. \A x \in 0 .. P-1, y \in 0 .. Q-1 : x * Q + y \in 0 .. A - 1
  BY DigitBounds
<1>4. \A o \in 0 .. A - 1 : \E x \in 0 .. P-1, y \in 0 .. Q-1 : o = x * Q + y
  BY DigitsExist
<1>5. \A i \in 0 .. B-1, j \in 0 .. A-1 : i * A + j \in 0 .. B * A - 1
  <2> HIDE DEF A
  <2> QED BY <1>1, DigitBounds
<1>6. \A o \in 0 .. B * A - 1 : \E i \in 0 .. B-1, j \in 0 .. A-1 : o = i * A + j
  <2> HIDE DEF A
  <2> QED BY <1>1, DigitsExist
<1>7. \A i, x, y : Cell(i, x, y, P, Q) = i * A + (x * Q + y)
  BY DEF Cell
<1> HIDE DEF A
<1>8. ASSUME NEW i \in 0 .. B-1, NEW x \in 0 .. P-1, NEW y \in 0 .. Q-1
      PROVE  Cell(i, x, y, P, Q) \in Offsets(<<B, P, Q>>)
  BY <1>2, <1>3, <1>5, <1>7
<1>9. ASSUME NEW o \in Offsets(<<B, P, Q>>)
      PROVE  \E i \in 0 .. B-1, x \in 0 .. P-1, y \in 0 .. Q-1 : o = Cell(i, x, y, P, Q)
  <2>1. PICK i \in 0 .. B-1, j \in 0 .. A-1 : o = i * A + j
    BY <1>2, <1>6
  <2>2. PICK x \in 0 .. P-1, y \in 0 .. Q-1 : j = x * Q + y
    BY <1>4
  <2>3. o = Cell(i, x, y, P, Q)
    BY <1>7, <2>1, <2>2
  <2> QED BY <2>3
<1> QED BY <1>8, <1>9

Pixel(n, c, y, x, C, H, W) == n * (C*H*W) + c * (H*W) + y * W + x

IsPixel(N, C, H, W, o) ==
  \E n \in 0 .. N-1, c \in 0 .. C-1, y \in 0 .. H-1, x \in 0 .. W-1 : o = Pixel(n, c, y, x, C, H, W)

LEMMA InImages ==
  ASSUME NEW N \in Nat, NEW C \in Nat, NEW H \in Nat, NEW W \in Nat, NEW o \in Offsets(<<N, C, H, W>>)
  PROVE  IsPixel(N, C, H, W, o)
<1> DEFINE A == H * W
           B == C * A
<1>1. A \in Nat /\ B \in Nat /\ C*H*W = B /\ N*C*H*W = N * B
  <2>1. A \in Nat
    BY ProductNat
  <2>2. B \in Nat
    BY <2>1, ProductNat
  <2> QED BY <2>1, <2>2
<1>2. o \in 0 .. N * B - 1
  BY <1>1, OffsetsFour
<1>3. PICK n \in 0 .. N-1, j \in 0 .. B-1 : o = n * B + j
  <2> HIDE DEF B
  <2> QED BY <1>1, <1>2, DigitsExist
<1>4. PICK c \in 0 .. C-1, k \in 0 .. A-1 : j = c * A + k
  <2> HIDE DEF A
  <2>1. j \in 0 .. C * A - 1
    OBVIOUS
  <2> QED BY <1>1, <2>1, DigitsExist
<1>5. PICK y \in 0 .. H-1, x \in 0 .. W-1 : k = y * W + x
  BY DigitsExist
<1>6. o = n * B + c * A + y * W + x
  <2>1. n * B \in Nat /\ c * A \in Nat /\ y * W \in Nat /\ x \in Nat
    BY <1>1, ProductNat
  <2> HIDE DEF A, B
  <2> QED BY <1>3, <1>4, <1>5, <2>1
<1>7. n * B = n * (C*H*W) /\ c * A = c * (H*W)
  BY <1>1
<1>8. o = Pixel(n, c, y, x, C, H, W)
  BY <1>6, <1>7 DEF Pixel
<1> QED BY <1>8 DEF IsPixel

\* The matrix and the row of an element of a batch of matrices.
LEMMA PlaceOfCell ==
  ASSUME NEW P \in Nat, NEW Q \in Nat, NEW i \in Nat, NEW x \in 0 .. P-1, NEW y \in 0 .. Q-1
  PROVE  LET o == Cell(i, x, y, P, Q)
         IN  o \div (P * Q) = i /\ (o \div Q) % P = x /\ o % Q = y
<1> DEFINE A == P * Q
           j == x * Q + y
           m == i * P + x
           o == Cell(i, x, y, P, Q)
<1>1. A \in Nat /\ j \in 0 .. A - 1 /\ m \in Nat
  <2>1. i * P \in Nat
    BY ProductNat
  <2> QED BY <2>1, ProductNat, DigitBounds
<1>2. o = i * A + j
  BY DEF Cell
<1>3. o \div A = i
  <2> HIDE DEF A, j, o
  <2> QED BY <1>1, <1>2, DigitOf
<1>4. o = m * Q + y
  <2>1. i * A = (i * P) * Q /\ i * P \in Nat
    BY ProductNat
  <2> DEFINE u == i * P
  <2>2. u * Q \in Nat /\ x * Q \in Nat /\ (u + x) * Q = u * Q + x * Q
    <3>1. u \in Nat /\ x \in Nat
      BY <2>1
    <3> HIDE DEF u
    <3> QED BY <3>1, ProductNat
  <2> QED BY <1>2, <2>1, <2>2
<1>5. o \div Q = m /\ o % Q = y
  <2> HIDE DEF m, o
  <2> QED BY <1>1, <1>4, DigitOf
<1>6. m % P = x
  BY DigitOf
<1> HIDE DEF o, m
<1> QED BY <1>3, <1>5, <1>6 DEF o

\* Where a result lies, whether every element of it is computed, and from
\* which sample and which position of the input v.
Writes(r, v) ==
  /\ \A e \in r.edges : e[2] \in Offsets(v) => e[1] \in Offsets(r.shape)
  /\ \A u \in r.uses : u[1] \in Offsets(r.shape)

UsesCover(r) == \A o \in Offsets(r.shape) : \E u \in r.uses : u[1] = o

EdgesCover(r, v) == \A o \in Offsets(r.shape) : \E e \in r.edges : e[1] = o /\ e[2] \in Offsets(v)

Apart(r, v) == \A e \in r.edges : Sample(e[1], r.shape) = Sample(e[2], v)

PastOnly(r, v) == \A e \in r.edges : e[2] \in Offsets(v) => Position(e[2], v) <= Position(e[1], r.shape)

LEMMA SampleTwo ==
  ASSUME NEW a, NEW b \in Nat, NEW o
  PROVE  Sample(o, <<a, b>>) = o \div b
<1>1. Tail(<<a, b>>) = <<b>>
  OBVIOUS
<1> QED BY <1>1, ProductOne DEF Sample

LEMMA SampleThree ==
  ASSUME NEW a, NEW b \in Nat, NEW c \in Nat, NEW o
  PROVE  Sample(o, <<a, b, c>>) = o \div (b * c) /\ Position(o, <<a, b, c>>) = (o \div c) % b
<1>1. Tail(<<a, b, c>>) = <<b, c>>
  OBVIOUS
<1> QED BY <1>1, ProductTwo DEF Sample, Position

LEMMA SampleFour ==
  ASSUME NEW a, NEW b \in Nat, NEW c \in Nat, NEW d \in Nat, NEW o
  PROVE  Sample(o, <<a, b, c, d>>) = o \div (b * c * d)
<1>1. Tail(<<a, b, c, d>>) = <<b, c, d>>
  OBVIOUS
<1> QED BY <1>1, ProductThree DEF Sample

\* The sample of an element of a matrix, of a batch of matrices or of images.
LEMMA SampleOfRow ==
  ASSUME NEW a, NEW b \in Nat, NEW x \in Nat, NEW y \in 0 .. b-1
  PROVE  Sample(x * b + y, <<a, b>>) = x
<1> DEFINE o == x * b + y
<1>1. o \div b = x
  BY DigitOf
<1>2. Sample(o, <<a, b>>) = o \div b
  <2> HIDE DEF o
  <2> QED BY SampleTwo
<1> QED BY <1>1, <1>2

LEMMA SampleOfCell ==
  ASSUME NEW a, NEW b \in Nat, NEW c \in Nat, NEW i \in Nat, NEW x \in 0 .. b-1, NEW y \in 0 .. c-1
  PROVE  Sample(Cell(i, x, y, b, c), <<a, b, c>>) = i /\ Position(Cell(i, x, y, b, c), <<a, b, c>>) = x
<1> DEFINE o == Cell(i, x, y, b, c)
<1>1. o \div (b * c) = i /\ (o \div c) % b = x
  BY PlaceOfCell
<1>2. Sample(o, <<a, b, c>>) = o \div (b * c) /\ Position(o, <<a, b, c>>) = (o \div c) % b
  <2> HIDE DEF o
  <2> QED BY SampleThree
<1> QED BY <1>1, <1>2

LEMMA SampleOfPixel ==
  ASSUME NEW a, NEW C \in Nat, NEW H \in Nat, NEW W \in Nat,
         NEW n \in Nat, NEW c \in 0 .. C-1, NEW y \in 0 .. H-1, NEW x \in 0 .. W-1
  PROVE  Sample(Pixel(n, c, y, x, C, H, W), <<a, C, H, W>>) = n
<1> DEFINE A == H * W
           B == C * A
           k == y * W + x
           j == c * A + k
           o == Pixel(n, c, y, x, C, H, W)
<1>1. A \in Nat /\ k \in 0 .. A - 1
  BY ProductNat, DigitBounds
<1>2. B \in Nat /\ j \in 0 .. B - 1
  <2> HIDE DEF A, k
  <2> QED BY <1>1, ProductNat, DigitBounds
<1>3. C*H*W = B
  BY <1>1
<1>4. o = n * B + j
  <2>1. o = n * B + c * A + y * W + x
    BY <1>3 DEF Pixel
  <2>2. n * B \in Nat /\ c * A \in Nat /\ y * W \in Nat /\ x \in Nat /\ c \in Nat /\ y \in Nat
    <3>1. c \in Nat /\ y \in Nat /\ x \in Nat
      OBVIOUS
    <3> HIDE DEF A, B
    <3> QED BY <1>1, <1>2, <3>1, ProductNat
  <2> HIDE DEF A, B, o
  <2> QED BY <2>1, <2>2
<1>5. o \div B = n
  <2> HIDE DEF B, j, o
  <2> QED BY <1>2, <1>4, DigitOf
<1> QED BY <1>3, <1>5, SampleFour

LEMMA PositionIsNat ==
  ASSUME NEW a \in Nat, NEW b \in Nat, NEW c \in Nat, NEW o \in Offsets(<<a, b, c>>)
  PROVE  Position(o, <<a, b, c>>) \in Nat
<1>1. PICK i \in 0 .. a-1, x \in 0 .. b-1, y \in 0 .. c-1 : o = Cell(i, x, y, b, c)
  BY InMatrices
<1>2. i \in Nat /\ x \in Nat
  OBVIOUS
<1>3. Position(o, <<a, b, c>>) = x
  BY <1>1, <1>2, SampleOfCell
<1> QED BY <1>2, <1>3

BiasTerm(name, rows, cols, u) ==
  \E i \in 0..(rows - 1), c \in 0..(cols - 1) : u = <<i * cols + c, <<name, c>>, <<>>>>

LEMMA BiasTerms ==
  ASSUME NEW name, NEW rows, NEW cols, NEW u
  PROVE  u \in Bias(name, rows, cols) <=> BiasTerm(name, rows, cols, u)
BY DEF Bias, BiasTerm

\* A bias reaches every element of the rows it is added to.
LEMMA BiasCovers ==
  ASSUME NEW name, NEW M \in Nat, NEW K \in Nat
  PROVE  /\ \A u \in Bias(name, M, K) : u[1] \in 0 .. M * K - 1
         /\ \A o \in 0 .. M * K - 1 : \E u \in Bias(name, M, K) : u[1] = o
<1>1. ASSUME NEW u \in Bias(name, M, K) PROVE u[1] \in 0 .. M * K - 1
  <2>0. BiasTerm(name, M, K, u)
    BY BiasTerms
  <2>1. PICK i \in 0..(M - 1), c \in 0..(K - 1) : u = <<i * K + c, <<name, c>>, <<>>>>
    BY <2>0 DEF BiasTerm
  <2>2. i * K + c \in 0 .. M * K - 1
    BY DigitBounds
  <2> QED BY <2>1, <2>2
<1>2. ASSUME NEW o \in 0 .. M * K - 1 PROVE \E u \in Bias(name, M, K) : u[1] = o
  <2>1. PICK x \in 0 .. M-1, c \in 0 .. K-1 : o = x * K + c
    BY DigitsExist
  <2> DEFINE u == <<x * K + c, <<name, c>>, <<>>>>
  <2>2. u \in Bias(name, M, K)
    BY BiasTerms DEF BiasTerm
  <2>3. u[1] = o
    BY <2>1
  <2> QED BY <2>2, <2>3
<1> QED BY <1>1, <1>2

LEMMA DenseLocal ==
  ASSUME NEW L, NEW l, L.kind = "Dense", NEW call, NEW tokens, NEW keep,
         NEW M \in Nat, NEW K \in Nat, L.out \in Nat, l.dims = <<K>>
  PROVE  LET v == <<M, K>>
             r == LayerForward(L, l, call, v, tokens, keep)
         IN  Writes(r, v) /\ UsesCover(r) /\ Apart(r, v)
<1> DEFINE v == <<M, K>>
           N == L.out
           m == Saves(l, call, v, {})
           r == LayerForward(L, l, call, v, tokens, keep)
           E == Linear("weights", DenseTerms(M, K, N))
           U == LinearUses("weights", <<"x", call>>, DenseTerms(M, K, N)) \union Bias("bias", M, N)
<1>0. l.dims[1] = K /\ v[1] = M /\ N \in Nat /\ Swap(<<N, K>>, 1, 2) = <<K, N>>
  BY DEF Swap
<1>1. r = Computed(m, <<M, N>>, E, U)
  <2>1. LayerForward(L, l, call, v, tokens, keep) = DenseForward(L, l, call, v)
    BY DEF LayerForward
  <2>2. {<<t[1], t[2], transpose(<<N, K>>, 1, 2)[t[3]]>> : t \in matmul(v, <<K, N>>)} = DenseTerms(M, K, N)
    BY DEF DenseTerms
  <2> HIDE DEF v
  <2>3. DenseForward(L, l, call, v) = Computed(m, <<M, N>>, E, U)
    BY <1>0, <2>2 DEF DenseForward
  <2> QED BY <2>1, <2>3
<1>2. r.shape = <<M, N>> /\ r.edges = E /\ r.uses = U
  BY <1>1, ComputedHas
<1>3. Offsets(<<M, N>>) = 0 .. M * N - 1
  BY <1>0, OffsetsTwo
<1>4. ASSUME NEW t \in DenseTerms(M, K, N)
      PROVE  t[1] \in 0 .. M * N - 1 /\ Sample(t[1], <<M, N>>) = Sample(t[2], v)
  <2>1. DenseTerm(M, K, N, t)
    BY <1>0, DenseTermIs
  <2>2. PICK i \in 0 .. M-1, n \in 0 .. N-1, k \in 0 .. K-1 : t[1] = i * N + n /\ t[2] = i * K + k
    BY <2>1 DEF DenseTerm
  <2>3. i * N + n \in 0 .. M * N - 1
    BY <1>0, DigitBounds
  <2>4. i \in Nat
    OBVIOUS
  <2>5. Sample(i * N + n, <<M, N>>) = i
    BY <1>0, <2>4, SampleOfRow
  <2>6. Sample(i * K + k, <<M, K>>) = i
    BY <2>4, SampleOfRow
  <2> QED BY <2>2, <2>3, <2>5, <2>6
<1>5. ASSUME NEW e \in E PROVE e[1] \in 0 .. M * N - 1 /\ Sample(e[1], <<M, N>>) = Sample(e[2], v)
  <2>1. PICK t \in DenseTerms(M, K, N) : e = <<t[1], t[2], <<<<"weights", t[3]>>>>>>
    BY DEF Linear
  <2>2. e[1] = t[1] /\ e[2] = t[2]
    BY <2>1
  <2> QED BY <1>4, <2>2
<1>6. ASSUME NEW u \in U PROVE u[1] \in 0 .. M * N - 1
  <2>1. CASE u \in Bias("bias", M, N)
    BY <1>0, <2>1, BiasCovers
  <2>2. CASE u \in LinearUses("weights", <<"x", call>>, DenseTerms(M, K, N))
    <3>1. PICK t \in DenseTerms(M, K, N) : u = <<t[1], <<"weights", t[3]>>, <<Append(<<"x", call>>, t[2])>>>>
      BY <2>2 DEF LinearUses
    <3>2. u[1] = t[1]
      BY <3>1
    <3> QED BY <1>4, <3>2
  <2> QED BY <2>1, <2>2
<1>7. \A o \in 0 .. M * N - 1 : \E u \in U : u[1] = o
  <2>1. \A o \in 0 .. M * N - 1 : \E u \in Bias("bias", M, N) : u[1] = o
    BY <1>0, BiasCovers
  <2> QED BY <2>1
<1> HIDE DEF v, m, E, U, r
<1> QED BY <1>2, <1>3, <1>5, <1>6, <1>7 DEF Writes, UsesCover, Apart, r, v

LookupTerm(L, positions, tokens, u) ==
  \E p \in positions, c \in 0..(L.dim - 1) : u = <<p * L.dim + c, <<"weight", tokens[p] * L.dim + c>>, <<>>>>

LEMMA LookupTerms ==
  ASSUME NEW L, NEW positions, NEW tokens, NEW u
  PROVE  u \in Lookups(L, positions, tokens) <=> LookupTerm(L, positions, tokens, u)
BY DEF Lookups, LookupTerm

LEMMA EmbeddingLocal ==
  ASSUME NEW L, NEW l, L.kind = "Embedding", NEW call, NEW tokens, NEW keep,
         NEW M \in Nat, NEW P \in Nat, L.dim \in Nat,
         LayerForward(L, l, call, <<M, P>>, tokens, keep).ok
  PROVE  LET v == <<M, P>>
             r == LayerForward(L, l, call, v, tokens, keep)
         IN  Writes(r, v) /\ UsesCover(r) /\ Apart(r, v)
<1> DEFINE v == <<M, P>>
           d == L.dim
           m == Saves(l, call, v, tokens)
           t == v \o <<d>>
           r == LayerForward(L, l, call, v, tokens, keep)
           U == Lookups(L, Offsets(v), tokens)
           R == M * P
<1>0. r = EmbeddingForward(L, l, call, v, tokens)
  BY DEF LayerForward
<1>10. ~Failed(l).ok /\ ~Failed(m).ok
  BY DEF Failed
<1>1. r = Computed(m, t, {}, U)
  <2> HIDE DEF r
  <2> QED BY <1>0, <1>10 DEF EmbeddingForward, r
<1>2. r.shape = t /\ r.edges = {} /\ r.uses = U
  <2> HIDE DEF m, t, r, U
  <2> QED BY <1>1, ComputedHas
<1>3. R \in Nat /\ Offsets(v) = 0 .. R - 1 /\ d \in Nat
  BY ProductNat, OffsetsTwo
<1>4. Offsets(t) = 0 .. R * d - 1
  <2>1. t = <<M, P, d>>
    BY JoinThird
  <2> HIDE DEF t
  <2> QED BY <1>3, <2>1, OffsetsThree
<1> HIDE DEF v, t, r, R
<1>5. ASSUME NEW u \in U PROVE u[1] \in 0 .. R * d - 1
  <2>1. PICK p \in 0 .. R - 1, c \in 0 .. d - 1 : u = <<p * d + c, <<"weight", tokens[p] * d + c>>, <<>>>>
    BY <1>3, LookupTerms DEF LookupTerm
  <2>2. p * d + c \in 0 .. R * d - 1
    BY <1>3, DigitBounds
  <2> QED BY <2>1, <2>2
<1>6. ASSUME NEW o \in 0 .. R * d - 1 PROVE \E u \in U : u[1] = o
  <2>1. PICK p \in 0 .. R - 1, c \in 0 .. d - 1 : o = p * d + c
    <3> HIDE DEF d
    <3> QED BY <1>3, DigitsExist
  <2> DEFINE u == <<p * d + c, <<"weight", tokens[p] * d + c>>, <<>>>>
  <2>2. u \in U
    <3>1. p \in Offsets(v) /\ c \in 0..(L.dim - 1)
      BY <1>3
    <3>2. LookupTerm(L, Offsets(v), tokens, u)
      BY <3>1, Zenon DEF LookupTerm
    <3> QED BY <3>2, LookupTerms
  <2>3. u[1] = o
    BY <2>1
  <2> QED BY <2>2, <2>3
<1> HIDE DEF U
<1> QED BY <1>2, <1>4, <1>5, <1>6 DEF Writes, UsesCover, Apart, r, v

\* A term of a convolution stays in its image.
ConvStays(L, v, y) ==
  \A t \in ConvTerms(L, v, y) : t[1] \in Offsets(y) /\ Sample(t[1], y) = Sample(t[2], v)

LEMMA ConvPlaces ==
  ASSUME NEW L, NEW N \in Nat, NEW C \in Nat, NEW H \in Nat, NEW W \in Nat,
         NEW F \in Nat, NEW oH \in Nat, NEW oW \in Nat
  PROVE  ConvStays(L, <<N, C, H, W>>, <<N, F, oH, oW>>)
<1> DEFINE x == <<N, C, H, W>>
           y == <<N, F, oH, oW>>
           k == L.kernel
           Row(t) == t[3] * L.stride + t[6] - L.padding
           Col(t) == t[4] * L.stride + t[7] - L.padding
           all == (0..(x[1]-1)) \X (0..(y[2]-1)) \X (0..(y[3]-1)) \X (0..(y[4]-1))
                     \X (0..(x[2]-1)) \X (0..(k-1)) \X (0..(k-1))
           taps == {t \in all : Row(t) \in 0..(x[3]-1) /\ Col(t) \in 0..(x[4]-1)}
           to(t) == t[1] * (y[2]*y[3]*y[4]) + t[2] * (y[3]*y[4]) + t[3] * y[4] + t[4]
           from(t) == t[1] * (x[2]*x[3]*x[4]) + t[5] * (x[3]*x[4]) + Row(t) * x[4] + Col(t)
           by(t) == t[2] * (x[2]*k*k) + t[5] * (k*k) + t[6] * k + t[7]
<1>0. x[1] = N /\ x[2] = C /\ x[3] = H /\ x[4] = W /\ y[2] = F /\ y[3] = oH /\ y[4] = oW
  OBVIOUS
<1>1. ConvTerms(L, x, y) = {<<to(t), from(t), by(t)>> : t \in taps}
  BY Zenon DEF ConvTerms
<1>2. ASSUME NEW t \in taps PROVE to(t) \in Offsets(y) /\ Sample(to(t), y) = Sample(from(t), x)
  <2>1. t \in all /\ Row(t) \in 0..(x[3]-1) /\ Col(t) \in 0..(x[4]-1)
    OBVIOUS
  <2>2. /\ t[1] \in 0..(x[1]-1) /\ t[5] \in 0..(x[2]-1)
        /\ t[2] \in 0..(y[2]-1) /\ t[3] \in 0..(y[3]-1) /\ t[4] \in 0..(y[4]-1)
    <3> HIDE DEF x, y, Row, Col
    <3> QED BY <2>1
  <2> DEFINE n == t[1]
             c == t[5]
             h == Row(t)
             w == Col(t)
             f == t[2]
             i == t[3]
             j == t[4]
  <2>3. /\ n \in 0 .. N-1 /\ c \in 0 .. C-1 /\ h \in 0 .. H-1 /\ w \in 0 .. W-1
        /\ f \in 0 .. F-1 /\ i \in 0 .. oH-1 /\ j \in 0 .. oW-1
    BY <1>0, <2>1, <2>2
  <2>4. from(t) = n * (x[2]*x[3]*x[4]) + c * (x[3]*x[4]) + h * x[4] + w
    BY DEF n, c, h, w
  <2>5. to(t) = n * (y[2]*y[3]*y[4]) + f * (y[3]*y[4]) + i * y[4] + j
    BY DEF n, f, i, j
  <2> HIDE DEF n, c, h, w, f, i, j, from, to
  <2>6. from(t) = Pixel(n, c, h, w, C, H, W) /\ to(t) = Pixel(n, f, i, j, F, oH, oW)
    BY <1>0, <2>4, <2>5 DEF Pixel
  <2>7. Pixel(n, f, i, j, F, oH, oW) \in Offsets(<<N, F, oH, oW>>)
    BY <2>3, PlaceOfFour DEF Pixel
  <2>8. n \in Nat
    BY <2>3
  <2>9. Sample(Pixel(n, c, h, w, C, H, W), <<N, C, H, W>>) = n
    BY <2>3, <2>8, SampleOfPixel
  <2>10. Sample(Pixel(n, f, i, j, F, oH, oW), <<N, F, oH, oW>>) = n
    BY <2>3, <2>8, SampleOfPixel
  <2> QED BY <2>6, <2>7, <2>9, <2>10
<1>3. ASSUME NEW e \in ConvTerms(L, x, y) PROVE e[1] \in Offsets(y) /\ Sample(e[1], y) = Sample(e[2], x)
  <2> HIDE DEF taps, to, from, by, x, y
  <2>1. PICK t \in taps : e = <<to(t), from(t), by(t)>>
    BY <1>1
  <2>2. e[1] = to(t) /\ e[2] = from(t)
    BY <2>1
  <2> QED BY <1>2, <2>2
<1> QED BY <1>3 DEF ConvStays, x, y

PixelBias(N, F, oH, oW, u) ==
  \E n \in 0 .. N-1, f \in 0 .. F-1, i \in 0 .. oH-1, j \in 0 .. oW-1 :
    u = <<Pixel(n, f, i, j, F, oH, oW), <<"bias", f>>, <<>>>>

LEMMA ConvBiasTerms ==
  ASSUME NEW N, NEW F, NEW oH, NEW oW, NEW u
  PROVE  u \in ConvBias(<<N, F, oH, oW>>) <=> PixelBias(N, F, oH, oW, u)
<1> DEFINE y == <<N, F, oH, oW>>
           all == (0..(N-1)) \X (0..(F-1)) \X (0..(oH-1)) \X (0..(oW-1))
           to(t) == t[1] * (F*oH*oW) + t[2] * (oH*oW) + t[3] * oW + t[4]
<1>1. y[1] = N /\ y[2] = F /\ y[3] = oH /\ y[4] = oW
  OBVIOUS
<1>2. ConvBias(y) = {<<t[1] * (y[2]*y[3]*y[4]) + t[2] * (y[3]*y[4]) + t[3] * y[4] + t[4], <<"bias", t[2]>>, <<>>>> :
                       t \in (0..(y[1]-1)) \X (0..(y[2]-1)) \X (0..(y[3]-1)) \X (0..(y[4]-1))}
  BY Zenon DEF ConvBias
<1> HIDE DEF y
<1>3. ConvBias(y) = {<<to(t), <<"bias", t[2]>>, <<>>>> : t \in all}
  BY <1>1, <1>2
<1>4. \A n, f, i, j : to(<<n, f, i, j>>) = Pixel(n, f, i, j, F, oH, oW)
  BY DEF Pixel
<1> HIDE DEF to
<1>5. ASSUME u \in ConvBias(y) PROVE PixelBias(N, F, oH, oW, u)
  <2>1. PICK t \in all : u = <<to(t), <<"bias", t[2]>>, <<>>>>
    BY <1>3, <1>5
  <2>2. PICK n \in 0..(N-1), f \in 0..(F-1), i \in 0..(oH-1), j \in 0..(oW-1) : t = <<n, f, i, j>>
    OBVIOUS
  <2>3. t[2] = f /\ to(t) = Pixel(n, f, i, j, F, oH, oW)
    BY <1>4, <2>2
  <2>4. u = <<Pixel(n, f, i, j, F, oH, oW), <<"bias", f>>, <<>>>>
    BY <2>1, <2>3
  <2> QED BY <2>4 DEF PixelBias
<1>6. ASSUME PixelBias(N, F, oH, oW, u) PROVE u \in ConvBias(y)
  <2>1. PICK n \in 0..(N-1), f \in 0..(F-1), i \in 0..(oH-1), j \in 0..(oW-1) :
          u = <<Pixel(n, f, i, j, F, oH, oW), <<"bias", f>>, <<>>>>
    BY <1>6 DEF PixelBias
  <2> DEFINE t == <<n, f, i, j>>
  <2>2. t \in all /\ t[2] = f /\ to(t) = Pixel(n, f, i, j, F, oH, oW)
    BY <1>4
  <2>3. u = <<to(t), <<"bias", t[2]>>, <<>>>>
    BY <2>1, <2>2
  <2> HIDE DEF t, all
  <2> QED BY <1>3, <2>2, <2>3
<1> QED BY <1>5, <1>6 DEF y

LEMMA ConvLocal ==
  ASSUME NEW L, NEW l, L.kind = "Conv2D", NEW call, NEW tokens, NEW keep,
         NEW N \in Nat, NEW C \in Nat, NEW H \in Nat, NEW W \in Nat,
         L.filters \in Nat, OutSize(L, H) \in Nat, OutSize(L, W) \in Nat,
         LayerForward(L, l, call, <<N, C, H, W>>, tokens, keep).ok
  PROVE  LET v == <<N, C, H, W>>
             r == LayerForward(L, l, call, v, tokens, keep)
         IN  Writes(r, v) /\ UsesCover(r) /\ Apart(r, v)
<1> DEFINE v == <<N, C, H, W>>
           F == L.filters
           oH == OutSize(L, H)
           oW == OutSize(L, W)
           y == <<N, F, oH, oW>>
           T == ConvTerms(L, v, y)
           m == Saves(l, call, v, {})
           r == LayerForward(L, l, call, v, tokens, keep)
           E == Linear("kernel", T)
           U == LinearUses("kernel", <<"x", call>>, T) \union ConvBias(y)
<1>0. v[1] = N /\ v[3] = H /\ v[4] = W /\ Len(v) = 4
  OBVIOUS
<1>10. ~Failed(l).ok
  BY DEF Failed
<1>1. r = Computed(m, y, E, U)
  <2>1. r = ConvForward(L, l, call, v) /\ r.ok
    BY DEF LayerForward
  <2>2. <<v[1], L.filters, OutSize(L, v[3]), OutSize(L, v[4])>> = y
    BY <1>0
  <2> HIDE DEF v, r, y
  <2> QED BY <1>0, <1>10, <2>1, <2>2 DEF ConvForward
<1>2. r.shape = y /\ r.edges = E /\ r.uses = U
  <2> HIDE DEF m, y, E, U, r
  <2> QED BY <1>1, ComputedHas
<1>3. F \in Nat /\ oH \in Nat /\ oW \in Nat
  OBVIOUS
<1> HIDE DEF F, oH, oW, r
<1>4. \A t \in T : t[1] \in Offsets(y) /\ Sample(t[1], y) = Sample(t[2], v)
  <2>1. ConvStays(L, v, y)
    BY <1>3, ConvPlaces
  <2> QED BY <2>1 DEF ConvStays
<1>5. ASSUME NEW o, NEW n \in 0 .. N-1, NEW f \in 0 .. F-1, NEW i \in 0 .. oH-1, NEW j \in 0 .. oW-1,
             o = Pixel(n, f, i, j, F, oH, oW)
      PROVE  o \in Offsets(y)
  BY <1>3, <1>5, PlaceOfFour DEF Pixel
<1>6. \A u \in ConvBias(y) : u[1] \in Offsets(y)
  <2> SUFFICES ASSUME NEW u \in ConvBias(y) PROVE u[1] \in Offsets(y)
    OBVIOUS
  <2>0. PixelBias(N, F, oH, oW, u)
    BY ConvBiasTerms
  <2>1. PICK n \in 0 .. N-1, f \in 0 .. F-1, i \in 0 .. oH-1, j \in 0 .. oW-1 :
          u = <<Pixel(n, f, i, j, F, oH, oW), <<"bias", f>>, <<>>>>
    BY <2>0 DEF PixelBias
  <2>2. u[1] = Pixel(n, f, i, j, F, oH, oW)
    BY <2>1
  <2> HIDE DEF y
  <2> QED BY <1>5, <2>2
<1>7. ASSUME NEW o \in Offsets(y) PROVE \E u \in ConvBias(y) : u[1] = o
  <2>1. PICK n \in 0 .. N-1, f \in 0 .. F-1, i \in 0 .. oH-1, j \in 0 .. oW-1 : o = Pixel(n, f, i, j, F, oH, oW)
    <3>1. IsPixel(N, F, oH, oW, o)
      BY <1>3, InImages
    <3> QED BY <3>1 DEF IsPixel
  <2> DEFINE u == <<Pixel(n, f, i, j, F, oH, oW), <<"bias", f>>, <<>>>>
  <2>2. u \in ConvBias(y)
    <3>1. PixelBias(N, F, oH, oW, u)
      BY DEF PixelBias
    <3> HIDE DEF u
    <3> QED BY <3>1, ConvBiasTerms
  <2>3. u[1] = o
    BY <2>1
  <2> QED BY <2>2, <2>3
<1> HIDE DEF T, y, v
<1>8. ASSUME NEW e \in E PROVE e[1] \in Offsets(y) /\ Sample(e[1], y) = Sample(e[2], v)
  <2>1. PICK t \in T : e = <<t[1], t[2], <<<<"kernel", t[3]>>>>>>
    BY DEF Linear
  <2>2. e[1] = t[1] /\ e[2] = t[2]
    BY <2>1
  <2> QED BY <1>4, <2>2
<1>9. ASSUME NEW u \in U PROVE u[1] \in Offsets(y)
  <2>1. CASE u \in LinearUses("kernel", <<"x", call>>, T)
    <3>1. PICK t \in T : u = <<t[1], <<"kernel", t[3]>>, <<Append(<<"x", call>>, t[2])>>>>
      BY <2>1 DEF LinearUses
    <3>2. u[1] = t[1]
      BY <3>1
    <3> QED BY <1>4, <3>2
  <2> QED BY <1>6, <2>1
<1>11. \A o \in Offsets(y) : \E u \in U : u[1] = o
  BY <1>7
<1> HIDE DEF E, U, m
<1> QED BY <1>2, <1>8, <1>9, <1>11 DEF Writes, UsesCover, Apart, r, v

ScaleTerm(rows, cols, call, u) ==
  \E i \in 0..(rows * cols - 1) : u = <<i, <<"gamma", i % cols>>, <<<<"xNorm", call, i>>>>>>

LEMMA ScaleTerms ==
  ASSUME NEW rows, NEW cols, NEW call, NEW u
  PROVE  u \in ScaleUses(rows, cols, call)
           <=> ScaleTerm(rows, cols, call, u) \/ u \in Bias("beta", rows, cols)
BY DEF ScaleUses, ScaleTerm

LEMMA ScaleCovers ==
  ASSUME NEW M \in Nat, NEW K \in Nat, NEW call
  PROVE  /\ \A u \in ScaleUses(M, K, call) : u[1] \in 0 .. M * K - 1
         /\ \A o \in 0 .. M * K - 1 : \E u \in ScaleUses(M, K, call) : u[1] = o
<1> DEFINE U == ScaleUses(M, K, call)
<1>1. \A u : u \in U <=> ScaleTerm(M, K, call, u) \/ u \in Bias("beta", M, K)
  BY ScaleTerms
<1>2. /\ \A u \in Bias("beta", M, K) : u[1] \in 0 .. M * K - 1
      /\ \A o \in 0 .. M * K - 1 : \E u \in Bias("beta", M, K) : u[1] = o
  <2> DEFINE name == "beta"
  <2> HIDE DEF name
  <2>1. /\ \A u \in Bias(name, M, K) : u[1] \in 0 .. M * K - 1
        /\ \A o \in 0 .. M * K - 1 : \E u \in Bias(name, M, K) : u[1] = o
    BY BiasCovers
  <2> QED BY <2>1 DEF name
<1> HIDE DEF U
<1>3. ASSUME NEW u, ScaleTerm(M, K, call, u) PROVE u[1] \in 0 .. M * K - 1
  <2>1. PICK i \in 0 .. M * K - 1 : u = <<i, <<"gamma", i % K>>, <<<<"xNorm", call, i>>>>>>
    BY <1>3, Zenon DEF ScaleTerm
  <2> QED BY <2>1
<1> QED BY <1>1, <1>2, <1>3 DEF U

LEMMA ScaledPlaces ==
  ASSUME NEW R, NEW cols, NEW e \in Scaled(R, cols)
  PROVE  \E r \in R : e[1] = r[1] /\ e[2] = r[2]
<1>1. PICK r \in R : e = <<r[1], r[2], <<<<"gamma", r[1] % cols>>>> \o r[3]>>
  BY DEF Scaled
<1>2. e[1] = r[1] /\ e[2] = r[2]
  BY <1>1
<1> QED BY <1>2

LEMMA ColumnsWritten ==
  ASSUME NEW M \in Nat, NEW K \in Nat, NEW call
  PROVE  \A e \in Columns(M, K, call) : e[1] \in 0 .. M * K - 1
<1> SUFFICES ASSUME NEW e \in Columns(M, K, call) PROVE e[1] \in 0 .. M * K - 1
  OBVIOUS
<1>1. PICK r \in 0..(M - 1), q \in 0..(M - 1), c \in 0..(K - 1) :
        e = <<r * K + c, q * K + c, <<<<"column", call, c>>>>>>
  BY DEF Columns
<1>2. r * K + c \in 0 .. M * K - 1
  BY DigitBounds
<1> QED BY <1>1, <1>2

LEMMA BatchNormLocal ==
  ASSUME NEW L, NEW l, L.kind = "BatchNorm1d", NEW call, NEW tokens, NEW keep, NEW M \in Nat, NEW K \in Nat
  PROVE  LET v == <<M, K>>
             r == LayerForward(L, l, call, v, tokens, keep)
         IN  Writes(r, v) /\ UsesCover(r)
<1> DEFINE v == <<M, K>>
           z == Saves(l, call, v, {})
           x == IF l.training THEN call ELSE z.running
           m == [z EXCEPT !.running = x]
           r == LayerForward(L, l, call, v, tokens, keep)
           C == Columns(M, K, call)
           E == Scaled(C, K)
           U == ScaleUses(M, K, call)
<1>0. v[1] = M /\ v[2] = K /\ Len(v) = 2
  OBVIOUS
<1>1. r = Computed(m, v, E, U)
  <2>1. r = BatchNormForward(l, call, v)
    BY DEF LayerForward
  <2> HIDE DEF v, r
  <2> QED BY <1>0, <2>1 DEF BatchNormForward
<1>2. r.shape = v /\ r.edges = E /\ r.uses = U
  BY <1>1, ComputedHas
<1>3. Offsets(v) = 0 .. M * K - 1
  BY OffsetsTwo
<1>4. \A e \in C : e[1] \in 0 .. M * K - 1
  BY ColumnsWritten
<1> HIDE DEF C, r, v
<1>5. ASSUME NEW e \in E PROVE e[1] \in 0 .. M * K - 1
  <2>1. \E c \in C : e[1] = c[1] /\ e[2] = c[2]
    BY ScaledPlaces
  <2> QED BY <1>4, <2>1
<1>6. /\ \A u \in U : u[1] \in 0 .. M * K - 1
      /\ \A o \in 0 .. M * K - 1 : \E u \in U : u[1] = o
  BY ScaleCovers
<1> HIDE DEF E, U, m
<1> QED BY <1>2, <1>3, <1>5, <1>6 DEF Writes, UsesCover, r, v

\* An edge of Rows stays in its row.
LEMMA RowsStay ==
  ASSUME NEW M \in Nat, NEW K \in Nat, NEW call, NEW e \in Rows(M, K, call)
  PROVE  e[1] \in 0 .. M * K - 1 /\ Sample(e[1], <<M, K>>) = Sample(e[2], <<M, K>>)
<1>1. PICK r \in 0..(M - 1), c \in 0..(K - 1), d \in 0..(K - 1) :
        e = <<r * K + c, r * K + d, <<<<"row", call, r>>>>>>
  BY DEF Rows
<1>2. e[1] = r * K + c /\ e[2] = r * K + d /\ r \in Nat
  BY <1>1
<1>3. r * K + c \in 0 .. M * K - 1
  BY DigitBounds
<1>4. Sample(r * K + c, <<M, K>>) = r
  BY <1>2, SampleOfRow
<1>5. Sample(r * K + d, <<M, K>>) = r
  BY <1>2, SampleOfRow
<1> QED BY <1>2, <1>3, <1>4, <1>5

RowTerm(rows, cols, call, e) ==
  \E i \in 0..(rows - 1), c \in 0..(cols - 1), d \in 0..(cols - 1) :
    e = <<i * cols + c, i * cols + d, <<<<"row", call, i>>>>>>

LEMMA RowTerms ==
  ASSUME NEW rows, NEW cols, NEW call, NEW e
  PROVE  e \in Rows(rows, cols, call) <=> RowTerm(rows, cols, call, e)
BY DEF Rows, RowTerm

LEMMA RowsCover ==
  ASSUME NEW M \in Nat, NEW K \in Nat, NEW call, NEW o \in 0 .. M * K - 1
  PROVE  \E e \in Rows(M, K, call) : e[1] = o /\ e[2] = o
<1>1. PICK i \in 0 .. M-1, c \in 0 .. K-1 : o = i * K + c
  BY DigitsExist
<1> DEFINE e == <<i * K + c, i * K + c, <<<<"row", call, i>>>>>>
<1>2. i \in 0..(M - 1) /\ c \in 0..(K - 1)
  OBVIOUS
<1>3. e \in Rows(M, K, call)
  <2>1. RowTerm(M, K, call, e)
    BY <1>2, Zenon DEF RowTerm
  <2> QED BY <2>1, RowTerms
<1>4. e[1] = o /\ e[2] = o
  BY <1>1
<1> QED BY <1>3, <1>4

LEMMA LayerNormLocal ==
  ASSUME NEW L, NEW l, L.kind = "LayerNorm", NEW call, NEW tokens, NEW keep,
         NEW M \in Nat, NEW K \in Nat, l.dims = <<K>>
  PROVE  LET v == <<M, K>>
             r == LayerForward(L, l, call, v, tokens, keep)
         IN  Writes(r, v) /\ UsesCover(r) /\ Apart(r, v)
<1> DEFINE v == <<M, K>>
           m == Saves(l, call, <<M>>, {})
           r == LayerForward(L, l, call, v, tokens, keep)
           R == Rows(M, K, call)
           E == Scaled(R, K)
           U == ScaleUses(M, K, call)
<1>0. l.dims[1] = K /\ v[1] = M /\ v[2] = K /\ Len(v) # 1
  OBVIOUS
<1>1. r = Computed(m, v, E, U)
  <2>1. r = LayerNormForward(l, call, v)
    BY DEF LayerForward
  <2>2. v = <<M, K>>
    OBVIOUS
  <2> HIDE DEF v, r
  <2> QED BY <1>0, <2>1, <2>2 DEF LayerNormForward
<1>2. r.shape = v /\ r.edges = E /\ r.uses = U
  BY <1>1, ComputedHas
<1>3. Offsets(v) = 0 .. M * K - 1
  BY OffsetsTwo
<1>4. \A e \in R : e[1] \in 0 .. M * K - 1 /\ Sample(e[1], v) = Sample(e[2], v)
  BY RowsStay
<1> HIDE DEF R, r, v
<1>5. ASSUME NEW e \in E PROVE e[1] \in 0 .. M * K - 1 /\ Sample(e[1], v) = Sample(e[2], v)
  <2>1. \E c \in R : e[1] = c[1] /\ e[2] = c[2]
    BY ScaledPlaces
  <2> QED BY <1>4, <2>1
<1>6. /\ \A u \in U : u[1] \in 0 .. M * K - 1
      /\ \A o \in 0 .. M * K - 1 : \E u \in U : u[1] = o
  BY ScaleCovers
<1> HIDE DEF E, U, m
<1> QED BY <1>2, <1>3, <1>5, <1>6 DEF Writes, UsesCover, Apart, r, v

LEMMA SoftmaxLocal ==
  ASSUME NEW L, NEW l, L.kind = "Softmax", NEW call, NEW tokens, NEW keep, NEW M \in Nat, NEW K \in Nat
  PROVE  LET v == <<M, K>>
             r == LayerForward(L, l, call, v, tokens, keep)
         IN  Writes(r, v) /\ EdgesCover(r, v) /\ Apart(r, v)
<1> DEFINE v == <<M, K>>
           m == Saves(l, call, v, {})
           r == LayerForward(L, l, call, v, tokens, keep)
           R == Rows(M, K, call)
<1>0. v[1] = M /\ v[2] = K /\ Len(v) # 1
  OBVIOUS
<1>1. r = Computed(m, v, R, {})
  <2>1. r = SoftmaxForward(l, call, v)
    BY DEF LayerForward
  <2>2. SoftmaxRows(v, call) = R
    <3> HIDE DEF v
    <3> QED BY <1>0 DEF SoftmaxRows
  <2> HIDE DEF v, r
  <2> QED BY <2>1, <2>2 DEF SoftmaxForward
<1>2. r.shape = v /\ r.edges = R /\ r.uses = {}
  BY <1>1, ComputedHas
<1>3. Offsets(v) = 0 .. M * K - 1
  BY OffsetsTwo
<1>4. \A e \in R : e[1] \in 0 .. M * K - 1 /\ Sample(e[1], v) = Sample(e[2], v)
  BY RowsStay
<1>5. ASSUME NEW o \in Offsets(v) PROVE \E e \in R : e[1] = o /\ e[2] \in Offsets(v)
  <2>0. o \in 0 .. M * K - 1
    BY <1>3
  <2> HIDE DEF v, r, m
  <2>1. \E e \in R : e[1] = o /\ e[2] = o
    BY <2>0, RowsCover
  <2> QED BY <2>1
<1> HIDE DEF R, r, v, m
<1> QED BY <1>2, <1>3, <1>4, <1>5 DEF Writes, EdgesCover, Apart, r, v

LEMMA ElementwiseLocal ==
  ASSUME NEW L, NEW l, L.kind = "Elementwise", NEW call, NEW tokens, NEW keep, NEW v
  PROVE  LET r == LayerForward(L, l, call, v, tokens, keep)
         IN  Writes(r, v) /\ EdgesCover(r, v) /\ Apart(r, v) /\ \A e \in r.edges : e[1] = e[2]
<1> DEFINE m == Saves(l, call, v, {})
           r == LayerForward(L, l, call, v, tokens, keep)
           E == ElementByElement(v, call)
<1>1. r = Computed(m, v, E, {})
  BY DEF LayerForward, ElementwiseForward
<1>2. r.shape = v /\ r.edges = E /\ r.uses = {}
  BY <1>1, ComputedHas
<1>3. ASSUME NEW e \in E PROVE e[1] = e[2] /\ e[1] \in Offsets(v)
  <2>1. PICK i \in Offsets(v) : e = <<i, i, <<<<"at", call, i>>>>>>
    BY DEF ElementByElement
  <2> QED BY <2>1
<1>4. ASSUME NEW o \in Offsets(v) PROVE \E e \in E : e[1] = o /\ e[2] \in Offsets(v)
  <2> DEFINE e == <<o, o, <<<<"at", call, o>>>>>>
  <2>1. e \in E
    BY Zenon DEF ElementByElement
  <2>2. e[1] = o /\ e[2] = o
    OBVIOUS
  <2> QED BY <2>1, <2>2
<1> HIDE DEF m, E, r
<1>5. Writes(r, v) /\ EdgesCover(r, v) /\ Apart(r, v)
  BY <1>2, <1>3, <1>4 DEF Writes, EdgesCover, Apart
<1>6. \A e \in r.edges : e[1] = e[2]
  BY <1>2, <1>3
<1> QED BY <1>5, <1>6 DEF r

LEMMA DropoutLocal ==
  ASSUME NEW L, NEW l, L.kind = "Dropout", NEW call, NEW tokens, NEW keep, NEW v
  PROVE  LET r == LayerForward(L, l, call, v, tokens, keep)
         IN  Writes(r, v) /\ Apart(r, v) /\ \A e \in r.edges : e[1] = e[2]
<1> DEFINE r == LayerForward(L, l, call, v, tokens, keep)
<1>0. r = DropoutForward(l, call, v, keep)
  BY DEF LayerForward
<1> HIDE DEF r
<1>1. r.shape = v /\ r.uses = {} /\ (r.edges = Kept(keep, call) \/ r.edges = Identity(Offsets(v)))
  <2>1. CASE l.training
    <3> DEFINE m == Saves(l, call, v, keep)
    <3>1. r = Computed(m, v, Kept(keep, call), {})
      BY <1>0, <2>1 DEF DropoutForward
    <3> QED BY <3>1, ComputedHas
  <2>2. CASE ~l.training
    <3> DEFINE m == [l EXCEPT !.ctx = <<>>]
    <3>1. r = Computed(m, v, Identity(Offsets(v)), {})
      BY <1>0, <2>2 DEF DropoutForward
    <3> QED BY <3>1, ComputedHas
  <2> QED BY <2>1, <2>2
<1>2. \A e \in Kept(keep, call) : e[1] = e[2]
  BY DEF Kept
<1>3. \A e \in Identity(Offsets(v)) : e[1] = e[2]
  BY DEF Identity
<1>4. \A e \in r.edges : e[1] = e[2]
  BY <1>1, <1>2, <1>3
<1>5. Writes(r, v) /\ Apart(r, v)
  BY <1>1, <1>4 DEF Writes, Apart
<1> QED BY <1>4, <1>5 DEF r

-----------------------------------------------------------------------------
(***************************************************************************)
(* Attention again.  A position of the scores, of the context and of the   *)
(* result belongs to a sample and a place in its sequence, which the       *)
(* splits of the heads and the products keep and the mask orders.          *)
(***************************************************************************)

\* The sample and the position of an element of matrices of P rows and Q
\* columns, h of which belong to a sample.
Placed(P, Q, h) == [x \in Nat |-> <<(x \div (P * Q)) \div h, (x \div Q) % P>>]

\* Of edges between elements placed by f and by g: they stay in place, or they
\* stay in their sample and, where the mask is set, lead to no later position.
Stay(R, f, g)     == \A r \in R : f[r[1]] = g[r[2]] /\ f[r[1]][2] \in Int
Leads(L, R, f, g) == \A r \in R : /\ f[r[1]][1] = g[r[2]][1] /\ f[r[1]][2] \in Int /\ g[r[2]][2] \in Int
                                  /\ L.causal => g[r[2]][2] <= f[r[1]][2]

LEMMA StayLeads ==
  ASSUME NEW L, NEW R, NEW f, NEW g, Stay(R, f, g)
  PROVE  Leads(L, R, f, g)
BY DEF Stay, Leads

LEMMA ThenLeads ==
  ASSUME NEW L, NEW R, NEW S, NEW f, NEW g, NEW h, Leads(L, R, f, g), Leads(L, S, g, h)
  PROVE  Leads(L, Then(R, S), f, h)
<1> SUFFICES ASSUME NEW e \in Then(R, S)
             PROVE  /\ f[e[1]][1] = h[e[2]][1] /\ f[e[1]][2] \in Int /\ h[e[2]][2] \in Int
                    /\ L.causal => h[e[2]][2] <= f[e[1]][2]
  BY DEF Leads
<1>1. PICK r \in R, s \in S : Joins(e, r, s)
  BY InThen
<1>2. e[1] = r[1] /\ e[2] = s[2] /\ s[1] = r[2]
  BY <1>1 DEF Joins
<1>3. /\ f[r[1]][1] = g[r[2]][1] /\ f[r[1]][2] \in Int /\ g[r[2]][2] \in Int
      /\ L.causal => g[r[2]][2] <= f[r[1]][2]
  BY DEF Leads
<1>4. /\ g[s[1]][1] = h[s[2]][1] /\ h[s[2]][2] \in Int
      /\ L.causal => h[s[2]][2] <= g[s[1]][2]
  BY DEF Leads
<1> QED BY <1>2, <1>3, <1>4

LEMMA UnionLeads ==
  ASSUME NEW L, NEW R, NEW S, NEW f, NEW g, Leads(L, R, f, g), Leads(L, S, f, g)
  PROVE  Leads(L, R \union S, f, g)
BY DEF Leads

LEMMA FlipStays ==
  ASSUME NEW R, NEW f, NEW g, Stay(R, f, g)
  PROVE  Stay(Flip(R), g, f)
<1> SUFFICES ASSUME NEW e \in Flip(R) PROVE g[e[1]] = f[e[2]] /\ g[e[1]][2] \in Int
  BY DEF Stay
<1>1. PICK r \in R : e = <<r[2], r[1], r[3]>>
  BY DEF Flip
<1>2. e[1] = r[2] /\ e[2] = r[1]
  BY <1>1
<1>3. f[r[1]] = g[r[2]] /\ f[r[1]][2] \in Int
  BY DEF Stay
<1> QED BY <1>2, <1>3

IsPlaced(P, Q, h, i, x, y) == Placed(P, Q, h)[Cell(i, x, y, P, Q)] = <<i \div h, x>>

LEMMA PlacedCell ==
  ASSUME NEW P \in Nat, NEW Q \in Nat, NEW h, NEW i \in Nat, NEW x \in 0 .. P-1, NEW y \in 0 .. Q-1
  PROVE  IsPlaced(P, Q, h, i, x, y)
<1> DEFINE o == Cell(i, x, y, P, Q)
<1>1. o \in Nat
  <2>1. P * Q \in Nat /\ x * Q \in Nat /\ x \in Nat /\ y \in Nat
    BY ProductNat
  <2> DEFINE A == P * Q
             j == x * Q
  <2>2. A \in Nat /\ j \in Nat /\ o = i * A + (j + y)
    BY <2>1 DEF Cell
  <2> HIDE DEF A, j, o
  <2>3. i * A \in Nat
    BY <2>2, ProductNat
  <2> QED BY <2>1, <2>2, <2>3
<1>2. o \div (P * Q) = i /\ (o \div Q) % P = x
  BY PlaceOfCell
<1> HIDE DEF o
<1>3. Placed(P, Q, h)[o] = <<(o \div (P * Q)) \div h, (o \div Q) % P>>
  BY <1>1 DEF Placed
<1> QED BY <1>2, <1>3 DEF o, IsPlaced

\* The projections keep a row in its place.
LEMMA ProjectionStays ==
  ASSUME NEW N \in Nat, NEW len \in Nat, NEW E \in Nat, NEW W
  PROVE  Stay(Linear(W, matmul(<<N * len, E>>, <<E, E>>)), Placed(len, E, 1), Placed(len, E, 1))
<1> DEFINE f == Placed(len, E, 1)
           M == N * len
           T == matmul(<<M, E>>, <<E, E>>)
<1>1. M \in Nat
  BY ProductNat
<1>2. ASSUME NEW t \in T PROVE f[t[1]] = f[t[2]] /\ f[t[1]][2] \in Int
  <2>1. Term(M, E, E, t)
    <3> HIDE DEF M
    <3> QED BY <1>1, Terms
  <2> HIDE DEF M, f, T
  <2>2. PICK m \in 0 .. M-1, n \in 0 .. E-1, k \in 0 .. E-1 : t = <<m * E + n, m * E + k, k * E + n>>
    BY <2>1 DEF Term
  <2>3. t[1] = m * E + n /\ t[2] = m * E + k
    BY <2>2
  <2>4. \E i \in 0 .. N-1, x \in 0 .. len-1 : m = i * len + x
    BY DigitsExist DEF M
  <2>5. PICK i \in 0 .. N-1, x \in 0 .. len-1 : m = i * len + x
    BY <2>4
  <2>6. ASSUME NEW y \in 0 .. E-1 PROVE m * E + y = Cell(i, x, y, len, E)
    <3>1. i \in Nat /\ x \in Nat /\ i * len \in Nat /\ x * E \in Nat /\ (i * len) * E = i * (len * E)
      BY ProductNat
    <3> DEFINE u == i * len
    <3>2. u \in Nat /\ u * E \in Nat /\ (u + x) * E = u * E + x * E
      <4>1. u \in Nat
        BY <3>1
      <4> HIDE DEF u
      <4> QED BY <3>1, <4>1, ProductNat
    <3> QED BY <2>5, <3>1, <3>2 DEF Cell
  <2>7. i \in Nat /\ x \in Nat
    OBVIOUS
  <2>8. ASSUME NEW y \in 0 .. E-1 PROVE f[Cell(i, x, y, len, E)] = <<i \div 1, x>>
    <3>1. IsPlaced(len, E, 1, i, x, y)
      BY <2>7, PlacedCell
    <3> QED BY <3>1 DEF IsPlaced, f
  <2>9. f[t[1]] = <<i \div 1, x>> /\ f[t[2]] = <<i \div 1, x>>
    BY <2>3, <2>6, <2>8
  <2> QED BY <2>7, <2>9
<1> HIDE DEF T, f
<1>3. ASSUME NEW e \in Linear(W, T) PROVE f[e[1]] = f[e[2]] /\ f[e[1]][2] \in Int
  <2>1. PICK t \in T : e = <<t[1], t[2], <<<<W, t[3]>>>>>>
    BY DEF Linear
  <2>2. e[1] = t[1] /\ e[2] = t[2]
    BY <2>1
  <2> QED BY <1>2, <2>2
<1> QED BY <1>3 DEF Stay, T, f

\* Splitting the heads and merging them too.
LEMMA HeadsStay ==
  ASSUME NEW N \in Nat \ {0}, NEW len \in Nat, NEW h \in Nat \ {0}, NEW d \in Nat
  PROVE  /\ Stay(splitHeads(N, len, h, d), Placed(len, d, h), Placed(len, h * d, 1))
         /\ Stay(mergeHeads(N * h, N, len, h * d), Placed(len, h * d, 1), Placed(len, d, h))
<1> DEFINE f == Placed(len, d, h)
           E == h * d
           g == Placed(len, E, 1)
           Places == (0..(N-1)) \X (0..(len-1)) \X (0..(h-1)) \X (0..(d-1))
           HeadPlace(t) == (t[1]*h + t[3]) * (len*d) + t[2]*d + t[4]
           Whole(t) == t[1]*(len*h*d) + t[2]*(h*d) + t[3]*d + t[4]
           split == splitHeads(N, len, h, d)
<1>1. split = {<<HeadPlace(t), Whole(t), <<>>>> : t \in Places}
  BY DEF splitHeads
<1>2. ASSUME NEW t \in Places PROVE f[HeadPlace(t)] = g[Whole(t)] /\ f[HeadPlace(t)][2] \in Int
  <2>0. t[1] \in 0 .. N-1 /\ t[2] \in 0 .. len-1 /\ t[3] \in 0 .. h-1 /\ t[4] \in 0 .. d-1
    OBVIOUS
  <2> DEFINE n == t[1]
             p == t[2]
             j == t[3]
             c == t[4]
             m == n * h + j
             q == j * d + c
  <2>1. n \in Nat /\ p \in 0 .. len-1 /\ j \in 0 .. h-1 /\ c \in 0 .. d-1
    BY <2>0
  <2>2. HeadPlace(t) = m * (len*d) + p*d + c /\ Whole(t) = n*(len*h*d) + p*(h*d) + j*d + c
    OBVIOUS
  <2> HIDE DEF Places, HeadPlace, Whole, n, p, j, c, f, g
  <2>3. m \in Nat /\ q \in 0 .. E-1 /\ m \div h = n /\ E \in Nat
    <3>1. n * h \in Nat /\ E \in Nat
      BY <2>1, ProductNat
    <3>2. j * d + c \in 0 .. h * d - 1
      BY <2>1, DigitBounds
    <3>3. (n * h + j) \div h = n
      BY <2>1, DigitOf
    <3> QED BY <2>1, <3>1, <3>2, <3>3
  <2>4. HeadPlace(t) = Cell(m, p, c, len, d)
    <3> HIDE DEF m
    <3>1. m * (len*d) \in Nat /\ p * d \in Nat /\ p \in Nat /\ c \in Nat
      <4>1. len * d \in Nat
        BY ProductNat
      <4> DEFINE A == len * d
      <4> HIDE DEF A
      <4>2. A \in Nat /\ p \in Nat /\ c \in Nat
        BY <2>1, <4>1 DEF A
      <4>3. m * A \in Nat /\ p * d \in Nat
        BY <2>3, <4>2, ProductNat
      <4> QED BY <4>2, <4>3 DEF A
    <3> DEFINE u == m * (len*d)
               w == p * d
    <3>2. HeadPlace(t) = u + w + c /\ Cell(m, p, c, len, d) = u + (w + c) /\ u \in Nat /\ w \in Nat
      BY <2>2, <3>1 DEF Cell
    <3> HIDE DEF u, w
    <3> QED BY <3>1, <3>2
  <2>5. Whole(t) = Cell(n, p, q, len, E)
    <3>1. len * h * d = len * E
      OBVIOUS
    <3> DEFINE u == n * (len * E)
               w == p * E
               z == j * d
    <3>2. u \in Nat /\ w \in Nat /\ z \in Nat /\ c \in Nat
      <4>1. len * E \in Nat
        <5> HIDE DEF E
        <5> QED BY <2>3, ProductNat
      <4> DEFINE A == len * E
      <4> HIDE DEF A, E
      <4>2. A \in Nat /\ p \in Nat /\ j \in Nat /\ c \in Nat
        BY <2>1, <4>1 DEF A
      <4>3. n * A \in Nat /\ p * E \in Nat /\ j * d \in Nat
        BY <2>1, <2>3, <4>2, ProductNat
      <4> QED BY <4>2, <4>3 DEF A
    <3>3. Whole(t) = u + w + z + c
      BY <2>2, <3>1
    <3>4. Cell(n, p, q, len, E) = u + (w + (z + c))
      BY DEF Cell
    <3> HIDE DEF u, w, z
    <3> QED BY <3>2, <3>3, <3>4
  <2> HIDE DEF m, q, E
  <2>6. f[Cell(m, p, c, len, d)] = <<m \div h, p>>
    <3>1. IsPlaced(len, d, h, m, p, c)
      BY <2>1, <2>3, PlacedCell
    <3> QED BY <3>1 DEF IsPlaced, f
  <2>7. g[Cell(n, p, q, len, E)] = <<n \div 1, p>>
    <3>1. IsPlaced(len, E, 1, n, p, q)
      BY <2>1, <2>3, PlacedCell
    <3> QED BY <3>1 DEF IsPlaced, g
  <2>8. n \div 1 = n /\ p \in Int
    BY <2>1, DivByOne
  <2> QED BY <2>3, <2>4, <2>5, <2>6, <2>7, <2>8
<1>3. Stay(split, f, g)
  <2> HIDE DEF Places, HeadPlace, Whole, f, g, split
  <2> SUFFICES ASSUME NEW e \in split PROVE f[e[1]] = g[e[2]] /\ f[e[1]][2] \in Int
    BY DEF Stay
  <2>1. PICK t \in Places : e = <<HeadPlace(t), Whole(t), <<>>>>
    BY <1>1
  <2>2. e[1] = HeadPlace(t) /\ e[2] = Whole(t)
    BY <2>1
  <2> QED BY <1>2, <2>2
<1>4. Stay(Flip(split), g, f)
  <2> HIDE DEF split, f, g
  <2> QED BY <1>3, FlipStays
<1>5. Flip(split) = mergeHeads(N * h, N, len, h * d)
  BY HeadsTurned
<1> QED BY <1>3, <1>4, <1>5

\* Where the mask leaves an element of the scores.
LEMMA AttendsCell ==
  ASSUME NEW L, NEW len \in Nat, NEW i \in Nat, NEW x \in 0 .. len-1, NEW y \in 0 .. len-1,
         Attends(L, len, Cell(i, x, y, len, len))
  PROVE  L.causal => y <= x
<1> DEFINE o == Cell(i, x, y, len, len)
<1>1. (o \div len) % len = x /\ o % len = y
  BY PlaceOfCell
<1> HIDE DEF o
<1>2. L.causal => o % len <= (o \div len) % len
  BY DEF Attends, o
<1> QED BY <1>1, <1>2

PlaceIs(f, o, i, x) == f[o] = <<i, x>>

LEMMA CellPlaceIs ==
  ASSUME NEW P \in Nat, NEW Q \in Nat, NEW h, NEW i \in Nat, NEW x \in 0 .. P-1, NEW y \in 0 .. Q-1
  PROVE  PlaceIs(Placed(P, Q, h), Cell(i, x, y, P, Q), i \div h, x)
<1>1. IsPlaced(P, Q, h, i, x, y)
  BY PlacedCell
<1> QED BY <1>1, Zenon DEF IsPlaced, PlaceIs

\* A term of the scores: the query is that of the row, the key that of the
\* column, which the mask keeps from being later.
ScorePlaces(L, len, d, h, KT, t) ==
  \E i, x, y : /\ x \in Nat /\ y \in Nat /\ (L.causal => y <= x)
               /\ PlaceIs(Placed(len, len, h), t[1], i, x) /\ PlaceIs(Placed(len, d, h), t[2], i, x)
               /\ PlaceIs(Placed(len, d, h), KT[t[3]], i, y)

LEMMA ScoreIsPlaced ==
  ASSUME NEW L, NEW B \in Nat, NEW len \in Nat, NEW d \in Nat, NEW h, NEW t,
         t \in Unmasked(L, len, matmul(<<B, len, d>>, <<B, d, len>>), 1)
  PROVE  ScorePlaces(L, len, d, h, transpose(<<B, len, d>>, 2, 3), t)
<1> DEFINE KT == transpose(<<B, len, d>>, 2, 3)
<1>1. t \in matmul(<<B, len, d>>, <<B, d, len>>) /\ Attends(L, len, t[1])
  BY DEF Unmasked
<1>2. CellTerm(B, len, d, len, t)
  BY <1>1, CellTerms
<1>3. PICK i \in 0 .. B-1, m \in 0 .. len-1, n \in 0 .. len-1, k \in 0 .. d-1 :
        t = <<Cell(i, m, n, len, len), Cell(i, m, k, len, d), Cell(i, k, n, d, len)>>
  BY <1>2 DEF CellTerm
<1>4. t[1] = Cell(i, m, n, len, len) /\ t[2] = Cell(i, m, k, len, d) /\ t[3] = Cell(i, k, n, d, len)
  BY <1>3
<1>5. i \in Nat /\ m \in Nat /\ n \in Nat
  OBVIOUS
<1>6. L.causal => n <= m
  BY <1>1, <1>4, <1>5, AttendsCell
<1>7. KT[t[3]] = Cell(i, n, k, len, d)
  <2>1. KT[Cell(i, k, n, d, len)] = Cell(i, n, k, len, d)
    BY TransposeThree
  <2> QED BY <1>4, <2>1
<1> HIDE DEF KT
<1>8. PlaceIs(Placed(len, len, h), t[1], i \div h, m)
  BY <1>4, <1>5, CellPlaceIs
<1>9. PlaceIs(Placed(len, d, h), t[2], i \div h, m)
  BY <1>4, <1>5, CellPlaceIs
<1>10. PlaceIs(Placed(len, d, h), KT[t[3]], i \div h, n)
  BY <1>5, <1>7, CellPlaceIs
<1> QED BY <1>5, <1>6, <1>8, <1>9, <1>10 DEF ScorePlaces, KT

\* A term of the context: the score is one of the row, the value that of a
\* position the mask leaves.
ContextPlaces(L, len, d, h, t) ==
  \E i, x, y : /\ x \in Nat /\ y \in Nat /\ (L.causal => y <= x)
               /\ PlaceIs(Placed(len, d, h), t[1], i, x) /\ PlaceIs(Placed(len, len, h), t[2], i, x)
               /\ PlaceIs(Placed(len, d, h), t[3], i, y)

LEMMA ContextIsPlaced ==
  ASSUME NEW L, NEW B \in Nat, NEW len \in Nat, NEW d \in Nat, NEW h, NEW t,
         t \in Unmasked(L, len, matmul(<<B, len, len>>, <<B, len, d>>), 2)
  PROVE  ContextPlaces(L, len, d, h, t)
<1>1. t \in matmul(<<B, len, len>>, <<B, len, d>>) /\ Attends(L, len, t[2])
  BY DEF Unmasked
<1>2. CellTerm(B, len, len, d, t)
  BY <1>1, CellTerms
<1>3. PICK i \in 0 .. B-1, m \in 0 .. len-1, n \in 0 .. d-1, k \in 0 .. len-1 :
        t = <<Cell(i, m, n, len, d), Cell(i, m, k, len, len), Cell(i, k, n, len, d)>>
  BY <1>2 DEF CellTerm
<1>4. t[1] = Cell(i, m, n, len, d) /\ t[2] = Cell(i, m, k, len, len) /\ t[3] = Cell(i, k, n, len, d)
  BY <1>3
<1>5. i \in Nat /\ m \in Nat /\ k \in Nat
  OBVIOUS
<1>6. L.causal => k <= m
  BY <1>1, <1>4, <1>5, AttendsCell
<1>8. PlaceIs(Placed(len, d, h), t[1], i \div h, m)
  BY <1>4, <1>5, CellPlaceIs
<1>9. PlaceIs(Placed(len, len, h), t[2], i \div h, m)
  BY <1>4, <1>5, CellPlaceIs
<1>10. PlaceIs(Placed(len, d, h), t[3], i \div h, k)
  BY <1>4, <1>5, CellPlaceIs
<1> QED BY <1>5, <1>6, <1>8, <1>9, <1>10 DEF ContextPlaces

\* From the scores to the queries and to the keys.
ToQueries(L, B, len, d, call) ==
  LET KT     == transpose(<<B, len, d>>, 2, 3)
      scores == Unmasked(L, len, matmul(<<B, len, d>>, <<B, d, len>>), 1)
  IN  {<<t[1], t[2], <<<<"K", call, KT[t[3]]>>>>>> : t \in scores}

ToKeys(L, B, len, d, call) ==
  LET KT     == transpose(<<B, len, d>>, 2, 3)
      scores == Unmasked(L, len, matmul(<<B, len, d>>, <<B, d, len>>), 1)
  IN  {<<t[1], KT[t[3]], <<<<"Q", call, t[2]>>>>>> : t \in scores}

LEMMA ScoresLead ==
  ASSUME NEW L, NEW B \in Nat, NEW len \in Nat, NEW d \in Nat, NEW h, NEW call
  PROVE  /\ Leads(L, ToQueries(L, B, len, d, call), Placed(len, len, h), Placed(len, d, h))
         /\ Leads(L, ToKeys(L, B, len, d, call), Placed(len, len, h), Placed(len, d, h))
<1> DEFINE KT     == transpose(<<B, len, d>>, 2, 3)
           scores == Unmasked(L, len, matmul(<<B, len, d>>, <<B, d, len>>), 1)
           f == Placed(len, len, h)
           g == Placed(len, d, h)
           Q == {<<t[1], t[2], <<<<"K", call, KT[t[3]]>>>>>> : t \in scores}
           K == {<<t[1], KT[t[3]], <<<<"Q", call, t[2]>>>>>> : t \in scores}
<1>1. ASSUME NEW t \in scores PROVE ScorePlaces(L, len, d, h, KT, t)
  BY ScoreIsPlaced
<1> HIDE DEF KT, scores
<1>2. ASSUME NEW t \in scores
      PROVE  /\ f[t[1]][1] = g[t[2]][1] /\ f[t[1]][2] \in Int /\ g[t[2]][2] \in Int
             /\ L.causal => g[t[2]][2] <= f[t[1]][2]
             /\ f[t[1]][1] = g[KT[t[3]]][1] /\ f[t[1]][2] \in Int /\ g[KT[t[3]]][2] \in Int
             /\ L.causal => g[KT[t[3]]][2] <= f[t[1]][2]
  <2>1. PICK i, x, y : /\ x \in Nat /\ y \in Nat /\ (L.causal => y <= x)
                       /\ PlaceIs(f, t[1], i, x) /\ PlaceIs(g, t[2], i, x) /\ PlaceIs(g, KT[t[3]], i, y)
    BY <1>1 DEF ScorePlaces
  <2>2. f[t[1]] = <<i, x>> /\ g[t[2]] = <<i, x>> /\ g[KT[t[3]]] = <<i, y>>
    <3> HIDE DEF f, g
    <3> QED BY <2>1 DEF PlaceIs
  <2> HIDE DEF f, g
  <2> QED BY <2>1, <2>2
<1> HIDE DEF f, g
<1>3. ASSUME NEW e \in Q
      PROVE  /\ f[e[1]][1] = g[e[2]][1] /\ f[e[1]][2] \in Int /\ g[e[2]][2] \in Int
             /\ L.causal => g[e[2]][2] <= f[e[1]][2]
  <2>1. PICK t \in scores : e = <<t[1], t[2], <<<<"K", call, KT[t[3]]>>>>>>
    OBVIOUS
  <2>2. e[1] = t[1] /\ e[2] = t[2]
    BY <2>1
  <2> QED BY <1>2, <2>2
<1>4. ASSUME NEW e \in K
      PROVE  /\ f[e[1]][1] = g[e[2]][1] /\ f[e[1]][2] \in Int /\ g[e[2]][2] \in Int
             /\ L.causal => g[e[2]][2] <= f[e[1]][2]
  <2>1. PICK t \in scores : e = <<t[1], KT[t[3]], <<<<"Q", call, t[2]>>>>>>
    OBVIOUS
  <2>2. e[1] = t[1] /\ e[2] = KT[t[3]]
    BY <2>1
  <2> QED BY <1>2, <2>2
<1> HIDE DEF Q, K
<1>5. Leads(L, Q, f, g)
  BY <1>3 DEF Leads
<1>6. Leads(L, K, f, g)
  BY <1>4 DEF Leads
<1>7. Q = ToQueries(L, B, len, d, call) /\ K = ToKeys(L, B, len, d, call)
  BY DEF Q, K, KT, scores, ToQueries, ToKeys
<1> QED BY <1>5, <1>6, <1>7 DEF f, g

LEMMA ContextLeads ==
  ASSUME NEW L, NEW B \in Nat, NEW len \in Nat, NEW d \in Nat, NEW h, NEW call
  PROVE  LET context == Unmasked(L, len, matmul(<<B, len, len>>, <<B, len, d>>), 2)
         IN  /\ Leads(L, AlongSaved(<<"V", call>>, context), Placed(len, d, h), Placed(len, len, h))
             /\ Leads(L, {<<t[1], t[3], <<<<"attn", call, t[2]>>>>>> : t \in context},
                      Placed(len, d, h), Placed(len, d, h))
<1> DEFINE context == Unmasked(L, len, matmul(<<B, len, len>>, <<B, len, d>>), 2)
           f == Placed(len, len, h)
           g == Placed(len, d, h)
           A == AlongSaved(<<"V", call>>, context)
           V == {<<t[1], t[3], <<<<"attn", call, t[2]>>>>>> : t \in context}
<1>1. ASSUME NEW t \in context PROVE ContextPlaces(L, len, d, h, t)
  BY ContextIsPlaced
<1> HIDE DEF context
<1>2. ASSUME NEW t \in context
      PROVE  /\ g[t[1]][1] = f[t[2]][1] /\ g[t[1]][2] \in Int /\ f[t[2]][2] \in Int
             /\ L.causal => f[t[2]][2] <= g[t[1]][2]
             /\ g[t[1]][1] = g[t[3]][1] /\ g[t[1]][2] \in Int /\ g[t[3]][2] \in Int
             /\ L.causal => g[t[3]][2] <= g[t[1]][2]
  <2>1. PICK i, x, y : /\ x \in Nat /\ y \in Nat /\ (L.causal => y <= x)
                       /\ PlaceIs(g, t[1], i, x) /\ PlaceIs(f, t[2], i, x) /\ PlaceIs(g, t[3], i, y)
    BY <1>1 DEF ContextPlaces
  <2>2. g[t[1]] = <<i, x>> /\ f[t[2]] = <<i, x>> /\ g[t[3]] = <<i, y>>
    <3> HIDE DEF f, g
    <3> QED BY <2>1 DEF PlaceIs
  <2> HIDE DEF f, g
  <2> QED BY <2>1, <2>2
<1> HIDE DEF f, g
<1>3. ASSUME NEW e \in A
      PROVE  /\ g[e[1]][1] = f[e[2]][1] /\ g[e[1]][2] \in Int /\ f[e[2]][2] \in Int
             /\ L.causal => f[e[2]][2] <= g[e[1]][2]
  <2>1. PICK t \in context : e = <<t[1], t[2], <<Append(<<"V", call>>, t[3])>>>>
    BY DEF AlongSaved
  <2>2. e[1] = t[1] /\ e[2] = t[2]
    BY <2>1
  <2> QED BY <1>2, <2>2
<1>4. ASSUME NEW e \in V
      PROVE  /\ g[e[1]][1] = g[e[2]][1] /\ g[e[1]][2] \in Int /\ g[e[2]][2] \in Int
             /\ L.causal => g[e[2]][2] <= g[e[1]][2]
  <2>1. PICK t \in context : e = <<t[1], t[3], <<<<"attn", call, t[2]>>>>>>
    OBVIOUS
  <2>2. e[1] = t[1] /\ e[2] = t[3]
    BY <2>1
  <2> QED BY <1>2, <2>2
<1> HIDE DEF A, V
<1>5. Leads(L, A, g, f)
  BY <1>3 DEF Leads
<1>6. Leads(L, V, g, g)
  BY <1>4 DEF Leads
<1> QED BY <1>5, <1>6 DEF A, V, f, g, context

\* The softmax of the scores stays in a row of them.
LEMMA SoftmaxStays ==
  ASSUME NEW L, NEW B \in Nat, NEW len \in Nat, NEW h, NEW call
  PROVE  Stay(softmaxLastDim(L, B, len, call), Placed(len, len, h), Placed(len, len, h))
<1> DEFINE f == Placed(len, len, h)
           all == {<<r * len + i, r * len + j, <<<<"row", call, r, i, j>>>>>> :
                     r \in 0..(B * len - 1), i \in 0..(len - 1), j \in 0..(len - 1)}
           M == B * len
<1>1. M \in Nat
  BY ProductNat
<1>2. \A e \in softmaxLastDim(L, B, len, call) : e \in all
  BY DEF softmaxLastDim, Unmasked
<1>3. ASSUME NEW r \in 0 .. M-1
      PROVE  \E i \in Nat, x \in Nat : \A y \in 0 .. len-1 : f[r * len + y] = <<i \div h, x>>
  <2>1. PICK i \in 0 .. B-1, x \in 0 .. len-1 : r = i * len + x
    BY DigitsExist
  <2>2. i \in Nat /\ x \in Nat
    OBVIOUS
  <2>3. ASSUME NEW y \in 0 .. len-1 PROVE f[r * len + y] = <<i \div h, x>>
    <3>1. r * len + y = Cell(i, x, y, len, len)
      <4>1. i \in Nat /\ x \in Nat /\ i * len \in Nat /\ x * len \in Nat /\ (i * len) * len = i * (len * len)
        BY ProductNat
      <4> DEFINE u == i * len
      <4>2. u \in Nat /\ u * len \in Nat /\ (u + x) * len = u * len + x * len
        <5>1. u \in Nat
          BY <4>1
        <5> HIDE DEF u
        <5> QED BY <4>1, <5>1, ProductNat
      <4> QED BY <2>1, <4>1, <4>2 DEF Cell
    <3>2. PlaceIs(f, Cell(i, x, y, len, len), i \div h, x)
      BY <2>2, CellPlaceIs
    <3> HIDE DEF f
    <3> QED BY <3>1, <3>2 DEF PlaceIs
  <2> HIDE DEF f
  <2> QED BY <2>2, <2>3
<1> HIDE DEF f
<1>4. ASSUME NEW e \in softmaxLastDim(L, B, len, call) PROVE f[e[1]] = f[e[2]] /\ f[e[1]][2] \in Int
  <2>0. e \in all
    BY <1>2
  <2>1. PICK r \in 0 .. M-1, i \in 0 .. len-1, j \in 0 .. len-1 :
          e = <<r * len + i, r * len + j, <<<<"row", call, r, i, j>>>>>>
    BY <2>0
  <2>2. e[1] = r * len + i /\ e[2] = r * len + j
    BY <2>1
  <2>3. PICK b \in Nat, x \in Nat : \A y \in 0 .. len-1 : f[r * len + y] = <<b \div h, x>>
    BY <1>3
  <2>4. f[e[1]] = <<b \div h, x>> /\ f[e[2]] = <<b \div h, x>>
    BY <2>2, <2>3
  <2> QED BY <2>4
<1> QED BY <1>4 DEF Stay, f

\* The place of an element of a batch of matrices is its sample and position.
LEMMA WholePlace ==
  ASSUME NEW N \in Nat, NEW len \in Nat, NEW E \in Nat, NEW o \in Offsets(<<N, len, E>>)
  PROVE  PlaceIs(Placed(len, E, 1), o, Sample(o, <<N, len, E>>), Position(o, <<N, len, E>>))
<1>1. PICK i \in 0 .. N-1, x \in 0 .. len-1, y \in 0 .. E-1 : o = Cell(i, x, y, len, E)
  BY InMatrices
<1>2. i \in Nat /\ x \in Nat
  OBVIOUS
<1>3. Sample(o, <<N, len, E>>) = i /\ Position(o, <<N, len, E>>) = x
  BY <1>1, <1>2, SampleOfCell
<1>4. i \div 1 = i
  BY <1>2, DivByOne
<1> DEFINE one == 1
<1>5. PlaceIs(Placed(len, E, one), Cell(i, x, y, len, E), i \div one, x)
  <2> HIDE DEF one
  <2> QED BY <1>2, CellPlaceIs
<1> QED BY <1>1, <1>3, <1>4, <1>5

\* What reads a product writes where its rows are.
LEMMA ProductWrites ==
  ASSUME NEW N \in Nat, NEW len \in Nat, NEW E \in Nat
  PROVE  \A t \in matmul(<<N * len, E>>, <<E, E>>) : t[1] \in Offsets(<<N, len, E>>)
<1> SUFFICES ASSUME NEW t \in matmul(<<N * len, E>>, <<E, E>>) PROVE t[1] \in Offsets(<<N, len, E>>)
  OBVIOUS
<1> DEFINE M == N * len
<1>1. M \in Nat
  BY ProductNat
<1>2. Term(M, E, E, t)
  <2>1. t \in matmul(<<M, E>>, <<E, E>>)
    OBVIOUS
  <2> HIDE DEF M
  <2> QED BY <1>1, <2>1, Terms
<1>3. Offsets(<<N, len, E>>) = 0 .. M * E - 1
  BY OffsetsThree
<1> HIDE DEF M
<1>4. PICK m \in 0 .. M-1, n \in 0 .. E-1, k \in 0 .. E-1 : t = <<m * E + n, m * E + k, k * E + n>>
  BY <1>2 DEF Term
<1>5. t[1] = m * E + n /\ m * E + n \in 0 .. M * E - 1
  BY <1>1, <1>4, DigitBounds
<1> QED BY <1>3, <1>5

\* Edges composed begin where the first of them do.
LEMMA ThenBegins ==
  ASSUME NEW R, NEW S, NEW X, \A r \in R : r[1] \in X
  PROVE  \A e \in Then(R, S) : e[1] \in X
<1> SUFFICES ASSUME NEW e \in Then(R, S) PROVE e[1] \in X
  OBVIOUS
<1>1. PICK r \in R, s \in S : Joins(e, r, s)
  BY InThen
<1> QED BY <1>1 DEF Joins

LEMMA AttentionPathsLead ==
  ASSUME NEW L, NEW s, NEW call, s[1] \in Nat \ {0}, s[2] \in Nat, L.dim \in Nat,
         L.heads \in Nat \ {0}, L.dim % L.heads = 0
  PROVE  LET p == AttentionPaths(L, s, call)
             t == <<s[1], s[2], L.dim>>
         IN  /\ Leads(L, p.edges, Placed(s[2], L.dim, 1), Placed(s[2], L.dim, 1))
             /\ \A e \in p.edges : e[1] \in Offsets(t)
             /\ \A u \in p.uses : u[1] \in Offsets(t)
             /\ \A o \in Offsets(t) : \E u \in p.uses : u[1] = o
<1> DEFINE N == s[1]  len == s[2]  E == L.dim  h == L.heads  d == HeadDim(L)  B == N * h
           x == <<"x", call>>
           split   == splitHeads(N, len, h, d)
           merge   == mergeHeads(B, N, len, E)
           product == matmul(<<N * len, E>>, <<E, E>>)
           KT      == transpose(<<B, len, d>>, 2, 3)
           scores  == Unmasked(L, len, matmul(<<B, len, d>>, <<B, d, len>>), 1)
           context == Unmasked(L, len, matmul(<<B, len, len>>, <<B, len, d>>), 2)
           soft    == softmaxLastDim(L, B, len, call)
           FromAttn == AlongSaved(<<"V", call>>, context)
           FromQ == {<<t[1], t[2], <<<<"K", call, KT[t[3]]>>>>>> : t \in scores}
           FromK == {<<t[1], KT[t[3]], <<<<"Q", call, t[2]>>>>>> : t \in scores}
           FromV == {<<t[1], t[3], <<<<"attn", call, t[2]>>>>>> : t \in context}
           C == Then(Linear("Wo", product), merge)
           S == Then(C, Then(FromAttn, soft))
           Q == Then(S, Then(FromQ, split))
           K == Then(S, Then(FromK, split))
           V == Then(C, Then(FromV, split))
           Part(W, b) == LinearUses(W, x, product) \union Bias(b, N * len, E)
           edges == Then(Q, Linear("Wq", product)) \union Then(K, Linear("Wk", product))
                      \union Then(V, Linear("Wv", product))
           own == LinearUses("Wo", <<"merged", call>>, product) \union Bias("bo", N * len, E)
           others == Then(Q, Part("Wq", "bq")) \union Then(K, Part("Wk", "bk")) \union Then(V, Part("Wv", "bv"))
           f == Placed(len, len, h)
           g == Placed(len, d, h)
           w == Placed(len, E, 1)
           O == Offsets(<<N, len, E>>)
<1>1. AttentionPaths(L, s, call) = [edges |-> edges, uses |-> own \union others]
  BY DEF AttentionPaths
<1>2. /\ N \in Nat \ {0} /\ len \in Nat /\ E \in Nat /\ h \in Nat \ {0} /\ d \in Nat /\ B \in Nat
      /\ N * len \in Nat /\ E = h * d
  <2>1. N \in Nat \ {0} /\ len \in Nat /\ E \in Nat /\ h \in Nat \ {0} /\ E % h = 0
    OBVIOUS
  <2>2. d = E \div h
    BY DEF HeadDim
  <2> HIDE DEF N, len, E, h, d
  <2>3. d \in Nat /\ E = h * d
    BY <2>1, <2>2
  <2>4. B \in Nat /\ N * len \in Nat
    BY <2>1, ProductNat
  <2> QED BY <2>1, <2>3, <2>4
<1> HIDE DEF N, len, E, h, d
<1>3. Leads(L, split, g, w) /\ Leads(L, merge, w, g)
  <2>1. merge = mergeHeads(N * h, N, len, h * d)
    BY <1>2
  <2>2. w = Placed(len, h * d, 1)
    BY <1>2
  <2> HIDE DEF merge, split, w, g
  <2>3. /\ Stay(splitHeads(N, len, h, d), Placed(len, d, h), Placed(len, h * d, 1))
        /\ Stay(mergeHeads(N * h, N, len, h * d), Placed(len, h * d, 1), Placed(len, d, h))
    BY <1>2, HeadsStay
  <2>4. Stay(split, g, w) /\ Stay(merge, w, g)
    BY <2>1, <2>2, <2>3 DEF split, g
  <2> QED BY <2>4, StayLeads
<1>4. Leads(L, soft, f, f)
  <2>1. Stay(soft, f, f)
    BY <1>2, SoftmaxStays
  <2> HIDE DEF soft, f
  <2> QED BY <2>1, StayLeads
<1>5. Leads(L, FromAttn, g, f) /\ Leads(L, FromV, g, g)
  BY <1>2, ContextLeads
<1>6. Leads(L, FromQ, f, g) /\ Leads(L, FromK, f, g)
  <2>1. FromQ = ToQueries(L, B, len, d, call) /\ FromK = ToKeys(L, B, len, d, call)
    BY DEF ToQueries, ToKeys
  <2> HIDE DEF FromQ, FromK
  <2> QED BY <1>2, <2>1, ScoresLead
<1>7. ASSUME NEW W PROVE Leads(L, Linear(W, product), w, w)
  <2>1. Stay(Linear(W, product), w, w)
    BY <1>2, ProjectionStays
  <2> DEFINE R == Linear(W, product)
  <2> HIDE DEF R, w
  <2>2. Stay(R, w, w)
    BY <2>1 DEF R
  <2> QED BY <2>2, StayLeads DEF R
<1>8. \A t \in product : t[1] \in O
  BY <1>2, ProductWrites
<1>9. /\ \A u \in Bias("bo", N * len, E) : u[1] \in O
      /\ \A o \in O : \E u \in Bias("bo", N * len, E) : u[1] = o
  <2> DEFINE M == N * len
  <2>1. M \in Nat /\ O = 0 .. M * E - 1
    BY <1>2, OffsetsThree
  <2> HIDE DEF M, O
  <2>2. /\ \A u \in Bias("bo", M, E) : u[1] \in 0 .. M * E - 1
        /\ \A o \in 0 .. M * E - 1 : \E u \in Bias("bo", M, E) : u[1] = o
    BY <1>2, <2>1, BiasCovers
  <2> QED BY <2>1, <2>2 DEF M
<1> HIDE DEF split, merge, product, soft, FromAttn, FromQ, FromK, FromV, Part, f, g, w, O
<1>10. Leads(L, C, w, g)
  <2>1. Leads(L, Linear("Wo", product), w, w)
    BY <1>7
  <2> QED BY <1>3, <2>1, ThenLeads
<1>11. \A e \in C : e[1] \in O
  <2>1. \A r \in Linear("Wo", product) : r[1] \in O
    <3> SUFFICES ASSUME NEW r \in Linear("Wo", product) PROVE r[1] \in O
      OBVIOUS
    <3>1. PICK t \in product : r = <<t[1], t[2], <<<<"Wo", t[3]>>>>>>
      BY DEF Linear
    <3>2. r[1] = t[1]
      BY <3>1
    <3> QED BY <1>8, <3>2
  <2> QED BY <2>1, ThenBegins
<1> HIDE DEF C
<1>12. Leads(L, S, w, f)
  <2>1. Leads(L, Then(FromAttn, soft), g, f)
    BY <1>4, <1>5, ThenLeads
  <2> QED BY <1>10, <2>1, ThenLeads
<1>13. \A e \in S : e[1] \in O
  BY <1>11, ThenBegins
<1> HIDE DEF S
<1>14. Leads(L, Q, w, w) /\ Leads(L, K, w, w) /\ Leads(L, V, w, w)
  <2>1. Leads(L, Then(FromQ, split), f, w) /\ Leads(L, Then(FromK, split), f, w)
    BY <1>3, <1>6, ThenLeads
  <2>2. Leads(L, Then(FromV, split), g, w)
    BY <1>3, <1>5, ThenLeads
  <2> QED BY <1>10, <1>12, <2>1, <2>2, ThenLeads
<1>15. (\A e \in Q : e[1] \in O) /\ (\A e \in K : e[1] \in O) /\ (\A e \in V : e[1] \in O)
  BY <1>11, <1>13, ThenBegins
<1> HIDE DEF Q, K, V
<1>16. Leads(L, edges, w, w)
  <2> DEFINE a == Then(Q, Linear("Wq", product))
             b == Then(K, Linear("Wk", product))
             c == Then(V, Linear("Wv", product))
  <2>1. Leads(L, Linear("Wq", product), w, w) /\ Leads(L, Linear("Wk", product), w, w)
        /\ Leads(L, Linear("Wv", product), w, w)
    BY <1>7
  <2>2. Leads(L, a, w, w) /\ Leads(L, b, w, w) /\ Leads(L, c, w, w)
    BY <1>14, <2>1, ThenLeads
  <2> HIDE DEF a, b, c
  <2>3. Leads(L, a \union b, w, w)
    BY <2>2, UnionLeads
  <2>4. Leads(L, (a \union b) \union c, w, w)
    BY <2>2, <2>3, UnionLeads
  <2> QED BY <2>4 DEF a, b, c
<1>17. \A e \in edges : e[1] \in O
  <2>1. /\ \A e \in Then(Q, Linear("Wq", product)) : e[1] \in O
        /\ \A e \in Then(K, Linear("Wk", product)) : e[1] \in O
        /\ \A e \in Then(V, Linear("Wv", product)) : e[1] \in O
    BY <1>15, ThenBegins
  <2> QED BY <2>1
<1>18. \A u \in others : u[1] \in O
  <2>1. /\ \A e \in Then(Q, Part("Wq", "bq")) : e[1] \in O
        /\ \A e \in Then(K, Part("Wk", "bk")) : e[1] \in O
        /\ \A e \in Then(V, Part("Wv", "bv")) : e[1] \in O
    BY <1>15, ThenBegins
  <2> QED BY <2>1
<1>19. \A u \in own : u[1] \in O
  <2>1. ASSUME NEW u \in LinearUses("Wo", <<"merged", call>>, product) PROVE u[1] \in O
    <3>1. PICK t \in product : u = <<t[1], <<"Wo", t[3]>>, <<Append(<<"merged", call>>, t[2])>>>>
      BY DEF LinearUses
    <3>2. u[1] = t[1]
      BY <3>1
    <3> QED BY <1>8, <3>2
  <2> QED BY <1>9, <2>1
<1>20. \A o \in O : \E u \in own : u[1] = o
  BY <1>9
<1> HIDE DEF edges, own, others
<1>21. AttentionPaths(L, s, call).edges = edges /\ AttentionPaths(L, s, call).uses = own \union others
  BY <1>1
<1>22. \A u \in own \union others : u[1] \in O
  BY <1>18, <1>19
<1>23. \A o \in O : \E u \in own \union others : u[1] = o
  BY <1>20
<1> QED BY <1>16, <1>17, <1>21, <1>22, <1>23 DEF N, len, E, O, w

LEMMA AttentionLocal ==
  ASSUME NEW L, NEW l, L.kind = "Attention", NEW call, NEW tokens, NEW keep,
         NEW N \in Nat \ {0}, NEW len \in Nat, L.dim \in Nat, L.heads \in Nat \ {0}, L.dim % L.heads = 0,
         LayerForward(L, l, call, <<N, len, L.dim>>, tokens, keep).ok
  PROVE  LET v == <<N, len, L.dim>>
             r == LayerForward(L, l, call, v, tokens, keep)
         IN  Writes(r, v) /\ UsesCover(r) /\ Apart(r, v) /\ (L.causal => PastOnly(r, v))
<1> DEFINE v == <<N, len, L.dim>>
           m == Saves(l, call, v, {})
           r == LayerForward(L, l, call, v, tokens, keep)
           p == AttentionPaths(L, v, call)
           E == L.dim
           w == Placed(len, E, 1)
<1>1. v[1] = N /\ v[2] = len /\ Len(v) = 3 /\ E \in Nat /\ N \in Nat
  OBVIOUS
<1>2. r = AttentionForward(L, l, call, v)
  BY DEF LayerForward
<1>3. r.ok
  OBVIOUS
<1> HIDE DEF r, m
<1>4. l.built
  <2> SUFFICES ASSUME ~l.built PROVE FALSE
    OBVIOUS
  <2>1. r = Failed(l)
    BY <1>2 DEF AttentionForward
  <2> QED BY <1>3, <2>1 DEF Failed
<1>5. r = Computed(m, v, p.edges, p.uses)
  <2> HIDE DEF v, p
  <2> QED BY <1>1, <1>2, <1>4, AttentionForwardIs DEF m, p
<1>6. r.shape = v /\ r.edges = p.edges /\ r.uses = p.uses
  <2> HIDE DEF v, p
  <2> QED BY <1>5, ComputedHas
<1>7. /\ Leads(L, p.edges, w, w)
      /\ \A e \in p.edges : e[1] \in Offsets(v) /\ e[2] \in Offsets(v)
      /\ \A u \in p.uses : u[1] \in Offsets(v)
      /\ \A o \in Offsets(v) : \E u \in p.uses : u[1] = o
  <2> DEFINE t == <<v[1], v[2], L.dim>>
  <2>1. t = v /\ Placed(v[2], L.dim, 1) = w
    BY <1>1
  <2> HIDE DEF v, p, t, w
  <2>2. v[1] \in Nat \ {0} /\ v[2] \in Nat /\ L.dim \in Nat /\ L.heads \in Nat \ {0} /\ L.dim % L.heads = 0
    BY <1>1
  <2>3. /\ Leads(L, p.edges, Placed(v[2], L.dim, 1), Placed(v[2], L.dim, 1))
        /\ \A e \in p.edges : e[1] \in Offsets(t)
        /\ \A u \in p.uses : u[1] \in Offsets(t)
        /\ \A o \in Offsets(t) : \E u \in p.uses : u[1] = o
    BY <2>2, AttentionPathsLead DEF p, t
  <2>4. \A e \in p.edges : e[2] \in Offsets(t)
    BY <2>2, AttentionPathsAre DEF p, t
  <2> QED BY <2>1, <2>3, <2>4
<1>8. ASSUME NEW o \in Offsets(v) PROVE w[o] = <<Sample(o, v), Position(o, v)>>
  <2>1. PlaceIs(w, o, Sample(o, v), Position(o, v))
    BY <1>1, WholePlace
  <2> HIDE DEF w, v
  <2> QED BY <2>1 DEF PlaceIs
<1> HIDE DEF v, p, w
<1>9. ASSUME NEW e \in p.edges
      PROVE  Sample(e[1], v) = Sample(e[2], v) /\ (L.causal => Position(e[2], v) <= Position(e[1], v))
  <2>1. e[1] \in Offsets(v) /\ e[2] \in Offsets(v)
    BY <1>7
  <2>2. w[e[1]] = <<Sample(e[1], v), Position(e[1], v)>> /\ w[e[2]] = <<Sample(e[2], v), Position(e[2], v)>>
    BY <1>8, <2>1
  <2>3. w[e[1]][1] = w[e[2]][1] /\ (L.causal => w[e[2]][2] <= w[e[1]][2])
    BY <1>7 DEF Leads
  <2> QED BY <2>2, <2>3
<1> QED BY <1>6, <1>7, <1>9 DEF Writes, UsesCover, Apart, PastOnly, r, v

\* The layers that leave a position in place, or look at none after it.
LooksBack(L) == L.kind \in {"Elementwise", "Dropout"} \/ (L.kind = "Attention" /\ L.causal)

\* What a result has to do with the input v.
Local(L, r, v) ==
  /\ Writes(r, v)
  /\ L.kind # "BatchNorm1d" => Apart(r, v)
  /\ L.kind \in Covering => UsesCover(r)
  /\ L.kind \in {"Softmax", "Elementwise"} => EdgesCover(r, v)
  /\ Len(v) = 3 /\ LooksBack(L) => PastOnly(r, v)

LEMMA InPlaceLooksBack ==
  ASSUME NEW r, NEW v, v \in Seq(Nat), Len(v) = 3, r.shape = v, \A e \in r.edges : e[1] = e[2]
  PROVE  PastOnly(r, v)
<1>1. PICK a \in Nat, b \in Nat, c \in Nat : v = <<a, b, c>>
  <2>1. v = <<v[1], v[2], v[3]>> /\ v[1] \in Nat /\ v[2] \in Nat /\ v[3] \in Nat
    BY TupleThree
  <2> QED BY <2>1
<1>2. ASSUME NEW o \in Offsets(v) PROVE Position(o, v) <= Position(o, v)
  <2>1. Position(o, <<a, b, c>>) \in Nat
    BY <1>1, PositionIsNat
  <2>2. Position(o, v) \in Nat
    BY <1>1, <2>1
  <2> QED BY <2>2
<1> QED BY <1>2 DEF PastOnly

\* Whatever the layer: on a batch of what it was built for, it writes inside its
\* output, from the same sample, and unless it drops elements it writes them all.
LEMMA LayerLocal ==
  ASSUME NEW L, L.kind \in Kinds, NEW l, IsLayer(l), NEW b \in BOOLEAN, NEW s, Suits(L, b, s), Sized(L, l, s),
         NEW N \in Nat \ {0}, NEW v, v = InBatch(b, N, s), NEW call, NEW tokens, NEW keep,
         LayerForward(L, l, call, v, tokens, keep).ok, v \in Seq(Nat)
  PROVE  Local(L, LayerForward(L, l, call, v, tokens, keep), v)
<1> DEFINE r == LayerForward(L, l, call, v, tokens, keep)
           Good == Local(L, r, v)
<1>0. r.ok /\ N \in Nat
  OBVIOUS
<1>1. s \in Seq(Nat)
  BY DEF Suits
<1>2. ASSUME Writes(r, v), L.kind # "BatchNorm1d" => Apart(r, v),
             L.kind \in Covering => UsesCover(r), L.kind \in {"Softmax", "Elementwise"} => EdgesCover(r, v),
             Len(v) = 3 /\ LooksBack(L) => PastOnly(r, v)
      PROVE  Good
  <2> HIDE DEF r
  <2> QED BY <1>2 DEF Local
<1> SUFFICES Good
  OBVIOUS
<1> HIDE DEF Good
<1>3. ASSUME Len(s) = IF b THEN 2 ELSE 1
      PROVE  v = <<N, Last(s)>> /\ Last(s) \in Nat
  <2> DEFINE t == [s EXCEPT ![Len(s)] = 0]
  <2>1. 0 \in Nat /\ IsVector(b, s) /\ Widened(s, 0, t)
    BY <1>1, <1>3 DEF IsVector, Widened
  <2> HIDE DEF t
  <2> QED BY <1>0, <2>1, RowOfSample
<1>4. CASE L.kind = "Dense"
  <2>1. Len(s) = (IF b THEN 2 ELSE 1) /\ L.out \in Nat
    BY <1>4 DEF Suits
  <2>2. v = <<N, Last(s)>> /\ Last(s) \in Nat /\ l.dims = <<Last(s)>>
    BY <1>3, <1>4, <2>1 DEF Sized, Wide, Widths
  <2>3. Writes(r, v) /\ UsesCover(r) /\ Apart(r, v)
    <3> DEFINE K == Last(s)
    <3>1. v = <<N, K>> /\ K \in Nat /\ l.dims = <<K>>
      BY <2>2
    <3> HIDE DEF K
    <3> QED BY <1>0, <1>4, <2>1, <3>1, DenseLocal
  <2> HIDE DEF r
  <2> QED BY <1>2, <1>4, <2>3 DEF LooksBack
<1>5. CASE L.kind = "Conv2D"
  <2>1. Len(s) = 3 /\ ~b /\ l.dims = s /\ L.filters \in Nat
        /\ {OutSize(L, s[2]), OutSize(L, s[3])} \subseteq Nat \ {0}
    BY <1>5 DEF Suits, Sized
  <2>2. s = <<s[1], s[2], s[3]>> /\ s[1] \in Nat /\ s[2] \in Nat /\ s[3] \in Nat
    BY <1>1, <2>1, TupleThree
  <2>3. PICK C \in Nat, H \in Nat, W \in Nat : s = <<C, H, W>> /\ H = s[2] /\ W = s[3]
    BY <2>2
  <2>4. v = <<N, C, H, W>> /\ OutSize(L, H) \in Nat /\ OutSize(L, W) \in Nat
    BY <2>1, <2>3, PrependOne DEF InBatch
  <2>5. Writes(r, v) /\ UsesCover(r) /\ Apart(r, v)
    <3> DEFINE u == <<N, C, H, W>>
    <3>1. LayerForward(L, l, call, u, tokens, keep).ok
      BY <1>0, <2>4
    <3> HIDE DEF r
    <3>2. LET q == LayerForward(L, l, call, u, tokens, keep)
          IN  Writes(q, u) /\ UsesCover(q) /\ Apart(q, u)
      BY <1>0, <1>5, <2>1, <2>4, <3>1, ConvLocal
    <3> QED BY <2>4, <3>2 DEF r
  <2> HIDE DEF r
  <2> QED BY <1>2, <1>5, <2>5 DEF LooksBack
<1>6. CASE L.kind = "Embedding"
  <2>1. Len(s) = 1 /\ ~b /\ L.dim \in Nat
    BY <1>6 DEF Suits
  <2>2. s = <<s[1]>> /\ s[1] \in Nat
    BY <1>1, <2>1, TupleOne
  <2>3. PICK P \in Nat : s = <<P>>
    BY <2>2
  <2>4. v = <<N, P>>
    <3>1. <<N>> \o <<P>> = <<N, P>>
      BY PrependToOne
    <3> QED BY <2>1, <2>3, <3>1 DEF InBatch
  <2>5. Writes(r, v) /\ UsesCover(r) /\ Apart(r, v)
    <3> DEFINE u == <<N, P>>
    <3>1. LayerForward(L, l, call, u, tokens, keep).ok
      BY <1>0, <2>4
    <3> HIDE DEF r
    <3>2. LET q == LayerForward(L, l, call, u, tokens, keep)
          IN  Writes(q, u) /\ UsesCover(q) /\ Apart(q, u)
      BY <1>0, <1>6, <2>1, <3>1, EmbeddingLocal
    <3> QED BY <2>4, <3>2 DEF r
  <2> HIDE DEF r
  <2> QED BY <1>2, <1>6, <2>5 DEF LooksBack
<1>7. CASE L.kind = "Attention"
  <2>1. Len(s) = 2 /\ ~b /\ s[2] = L.dim /\ L.heads \in Nat \ {0} /\ L.dim % L.heads = 0
    BY <1>7 DEF Suits
  <2>2. s = <<s[1], s[2]>> /\ s[1] \in Nat /\ s[2] \in Nat
    BY <1>1, <2>1, TupleTwo
  <2>3. PICK len \in Nat : s = <<len, L.dim>> /\ L.dim \in Nat
    BY <2>1, <2>2
  <2>4. v = <<N, len, L.dim>>
    BY <2>1, <2>3, PrependToTwo DEF InBatch
  <2>5. Writes(r, v) /\ UsesCover(r) /\ Apart(r, v) /\ (L.causal => PastOnly(r, v))
    <3> DEFINE u == <<N, len, L.dim>>
    <3>1. LayerForward(L, l, call, u, tokens, keep).ok
      BY <1>0, <2>4
    <3>2. L.dim \in Nat /\ L.heads \in Nat \ {0} /\ L.dim % L.heads = 0
      BY <2>1, <2>3
    <3> HIDE DEF r
    <3>3. LET q == LayerForward(L, l, call, u, tokens, keep)
          IN  Writes(q, u) /\ UsesCover(q) /\ Apart(q, u) /\ (L.causal => PastOnly(q, u))
      BY <1>7, <3>1, <3>2, AttentionLocal
    <3> QED BY <2>4, <3>3 DEF r
  <2> HIDE DEF r
  <2> QED BY <1>2, <1>7, <2>5 DEF LooksBack
<1>8. CASE L.kind \in {"BatchNorm1d", "LayerNorm", "Softmax"}
  <2>1. Len(s) = (IF b THEN 2 ELSE 1)
    BY <1>8 DEF Suits
  <2>2. v = <<N, Last(s)>> /\ Last(s) \in Nat
    BY <1>3, <2>1
  <2> DEFINE K == Last(s)
  <2>3. v = <<N, K>> /\ K \in Nat /\ (L.kind = "LayerNorm" => l.dims = <<K>>)
    BY <1>8, <2>2 DEF Sized, Wide, Widths
  <2> HIDE DEF K
  <2>4. /\ Writes(r, v) /\ (L.kind # "BatchNorm1d" => Apart(r, v))
        /\ L.kind # "Softmax" => UsesCover(r)
        /\ L.kind = "Softmax" => EdgesCover(r, v)
    <3>1. CASE L.kind = "BatchNorm1d"
      BY <1>0, <2>3, <3>1, BatchNormLocal
    <3>2. CASE L.kind = "LayerNorm"
      BY <1>0, <2>3, <3>2, LayerNormLocal
    <3>3. CASE L.kind = "Softmax"
      BY <1>0, <2>3, <3>3, SoftmaxLocal
    <3> QED BY <1>8, <3>1, <3>2, <3>3
  <2> HIDE DEF r
  <2> QED BY <1>2, <1>8, <2>4 DEF LooksBack, Covering
<1>9. CASE L.kind = "Elementwise"
  <2>1. Writes(r, v) /\ EdgesCover(r, v) /\ Apart(r, v) /\ \A e \in r.edges : e[1] = e[2]
    BY <1>9, ElementwiseLocal
  <2>2. r.shape = v
    BY <1>9, ElementwiseAdjoint
  <2> HIDE DEF r
  <2>3. Len(v) = 3 => PastOnly(r, v)
    BY <2>1, <2>2, InPlaceLooksBack
  <2> QED BY <1>2, <1>9, <2>1, <2>3 DEF Covering
<1>10. CASE L.kind = "Dropout"
  <2>1. Writes(r, v) /\ Apart(r, v) /\ \A e \in r.edges : e[1] = e[2]
    BY <1>10, DropoutLocal
  <2>2. r.shape = v
    BY <1>10, DropoutAdjoint
  <2> HIDE DEF r
  <2>3. Len(v) = 3 => PastOnly(r, v)
    BY <2>1, <2>2, InPlaceLooksBack
  <2> QED BY <1>2, <1>10, <2>1, <2>3 DEF Covering
<1> QED BY <1>4, <1>5, <1>6, <1>7, <1>8, <1>9, <1>10 DEF Kinds

-----------------------------------------------------------------------------
(***************************************************************************)
(* The layers in a row: by induction over them, the same of a whole        *)
(* forward pass.                                                           *)
(***************************************************************************)

\* What a pass has after some layers, from an input of shape t to a result of
\* shape s: where it lies, from which samples and positions, and whether every
\* element is computed.
Within(F, V, s, t) ==
  /\ \A e \in F : e[1] \in Offsets(s) /\ e[2] \in Offsets(t)
  /\ \A u \in V : u[1] \in Offsets(s)

FromOwn(F, s, t) == \A e \in F : Sample(e[1], s) = Sample(e[2], t)

FromPast(F, s) == \A e \in F : Position(e[2], s) <= Position(e[1], s)

Covers(F, V, s) == \A o \in Offsets(s) : (\E e \in F : e[1] = o) \/ (\E u \in V : u[1] = o)

\* The same after one more layer, with the result r.
NextEdges(r, F)   == Then(r.edges, F)
NextUses(k, r, V) == Then(r.edges, V) \union InLayer(k, r.uses)

LEMMA BegunWithin ==
  ASSUME NEW t
  PROVE  /\ Within(Identity(Offsets(t)), {}, t, t) /\ FromOwn(Identity(Offsets(t)), t, t)
         /\ Covers(Identity(Offsets(t)), {}, t)
         /\ \A e \in Identity(Offsets(t)) : e[1] = e[2]
<1>1. ASSUME NEW e \in Identity(Offsets(t)) PROVE e[1] \in Offsets(t) /\ e[1] = e[2]
  <2>1. PICK i \in Offsets(t) : e = <<i, i, <<>>>>
    BY DEF Identity
  <2> QED BY <2>1
<1>2. ASSUME NEW o \in Offsets(t) PROVE \E e \in Identity(Offsets(t)) : e[1] = o
  <2> DEFINE e == <<o, o, <<>>>>
  <2>1. e \in Identity(Offsets(t))
    BY DEF Identity
  <2> QED BY <2>1
<1> QED BY <1>1, <1>2 DEF Within, FromOwn, Covers

LEMMA NextWithin ==
  ASSUME NEW r, NEW v, Writes(r, v), NEW F, NEW V, NEW t, Within(F, V, v, t), NEW k
  PROVE  Within(NextEdges(r, F), NextUses(k, r, V), r.shape, t)
<1> USE DEF NextEdges, NextUses
<1>1. ASSUME NEW e \in Then(r.edges, F) PROVE e[1] \in Offsets(r.shape) /\ e[2] \in Offsets(t)
  <2>1. PICK p \in r.edges, q \in F : Joins(e, p, q)
    BY InThen
  <2>2. e[1] = p[1] /\ e[2] = q[2] /\ q[1] = p[2]
    BY <2>1 DEF Joins
  <2> QED BY <2>2 DEF Within, Writes
<1>2. ASSUME NEW u \in Then(r.edges, V) PROVE u[1] \in Offsets(r.shape)
  <2>1. PICK p \in r.edges, q \in V : Joins(u, p, q)
    BY InThen
  <2>2. u[1] = p[1] /\ q[1] = p[2]
    BY <2>1 DEF Joins
  <2> QED BY <2>2 DEF Within, Writes
<1>3. ASSUME NEW u \in InLayer(k, r.uses) PROVE u[1] \in Offsets(r.shape)
  <2>1. PICK q \in r.uses : u = <<q[1], <<k, q[2]>>, q[3]>>
    BY DEF InLayer
  <2>2. u[1] = q[1]
    BY <2>1
  <2> QED BY <2>2 DEF Writes
<1> QED BY <1>1, <1>2, <1>3 DEF Within

LEMMA NextOwn ==
  ASSUME NEW r, NEW v, Apart(r, v), NEW F, NEW t, FromOwn(F, v, t)
  PROVE  FromOwn(NextEdges(r, F), r.shape, t)
<1> SUFFICES ASSUME NEW e \in Then(r.edges, F) PROVE Sample(e[1], r.shape) = Sample(e[2], t)
  BY DEF FromOwn, NextEdges
<1>1. PICK p \in r.edges, q \in F : Joins(e, p, q)
  BY InThen
<1>2. e[1] = p[1] /\ e[2] = q[2] /\ q[1] = p[2]
  BY <1>1 DEF Joins
<1> QED BY <1>2 DEF FromOwn, Apart

LEMMA NextPast ==
  ASSUME NEW r, NEW a \in Nat, NEW b \in Nat, NEW c \in Nat, NEW v, v = <<a, b, c>>, r.shape = v,
         Writes(r, v), PastOnly(r, v), NEW F, NEW V, Within(F, V, v, v), FromPast(F, v)
  PROVE  FromPast(NextEdges(r, F), v)
<1> SUFFICES ASSUME NEW e \in Then(r.edges, F) PROVE Position(e[2], v) <= Position(e[1], v)
  BY DEF FromPast, NextEdges
<1>1. PICK p \in r.edges, q \in F : Joins(e, p, q)
  BY InThen
<1>2. e[1] = p[1] /\ e[2] = q[2] /\ q[1] = p[2]
  BY <1>1 DEF Joins
<1>3. p[2] \in Offsets(v) /\ p[1] \in Offsets(v) /\ q[2] \in Offsets(v)
  BY <1>2 DEF Within, Writes
<1>4. \A o \in Offsets(v) : Position(o, v) \in Nat
  BY PositionIsNat
<1>5. Position(p[2], v) <= Position(p[1], v) /\ Position(q[2], v) <= Position(q[1], v)
  BY <1>3 DEF PastOnly, FromPast
<1>6. Position(p[2], v) \in Nat /\ Position(p[1], v) \in Nat /\ Position(q[2], v) \in Nat
  BY <1>3, <1>4
<1> QED BY <1>2, <1>5, <1>6

LEMMA NextCovers ==
  ASSUME NEW r, NEW v, NEW F, NEW V, NEW k,
         UsesCover(r) \/ (EdgesCover(r, v) /\ Covers(F, V, v))
  PROVE  Covers(NextEdges(r, F), NextUses(k, r, V), r.shape)
<1> USE DEF NextEdges, NextUses
<1> SUFFICES ASSUME NEW o \in Offsets(r.shape)
             PROVE  (\E e \in NextEdges(r, F) : e[1] = o) \/ (\E u \in NextUses(k, r, V) : u[1] = o)
  BY DEF Covers
<1>1. CASE UsesCover(r)
  <2>1. PICK q \in r.uses : q[1] = o
    BY <1>1 DEF UsesCover
  <2> DEFINE u == <<q[1], <<k, q[2]>>, q[3]>>
  <2>2. u \in InLayer(k, r.uses) /\ u[1] = o
    BY <2>1 DEF InLayer
  <2> QED BY <2>2
<1>2. CASE EdgesCover(r, v) /\ Covers(F, V, v)
  <2>1. PICK p \in r.edges : p[1] = o /\ p[2] \in Offsets(v)
    BY <1>2 DEF EdgesCover
  <2>2. ASSUME NEW S, NEW q \in S, q[1] = p[2] PROVE \E e \in Then(r.edges, S) : e[1] = o
    <3> DEFINE e == <<p[1], q[2], p[3] \o q[3]>>
    <3>1. Joins(e, p, q) /\ e[1] = o
      BY <2>1, <2>2 DEF Joins
    <3> HIDE DEF e
    <3>2. e \in Then(r.edges, S)
      BY <3>1, InThen
    <3> QED BY <3>1, <3>2
  <2>3. (\E q \in F : q[1] = p[2]) \/ (\E q \in V : q[1] = p[2])
    BY <1>2, <2>1 DEF Covers
  <2>4. (\E e \in Then(r.edges, F) : e[1] = o) \/ (\E u \in Then(r.edges, V) : u[1] = o)
    BY <2>2, <2>3
  <2> QED BY <2>4
<1> QED BY <1>1, <1>2

\* The shape of a batch of N behind k of the layers.
BatchAfter(N, k) == InBatch(model.batched, N, ShapesOf(model, lastBuild.shape)[k])

LEMMA BatchIsShape ==
  ASSUME NEW b \in BOOLEAN, NEW N \in Nat, NEW s \in Seq(Nat)
  PROVE  InBatch(b, N, s) \in Seq(Nat)
<1>1. CASE b
  <2> DEFINE t == [i \in 1 .. Len(s) |-> IF i = 1 THEN N ELSE s[i]]
  <2>0. [s EXCEPT ![1] = N] = t
    OBVIOUS
  <2>1. [s EXCEPT ![1] = N] \in Seq(Nat)
    <3>1. Len(s) \in Nat /\ \A i \in 1 .. Len(s) : s[i] \in Nat
      OBVIOUS
    <3>2. \A i \in 1 .. Len(s) : t[i] \in Nat
      BY <3>1
    <3>3. t \in [1 .. Len(s) -> Nat]
      BY <3>2
    <3> HIDE DEF t
    <3> QED BY <2>0, <3>1, <3>3, SeqDef
  <2> QED BY <1>1, <2>1 DEF InBatch
<1>2. CASE ~b
  <2>1. <<N>> \in Seq(Nat)
    OBVIOUS
  <2>2. <<N>> \o s \in Seq(Nat)
    BY <2>1, ConcatProperties
  <2> QED BY <1>2, <2>2 DEF InBatch
<1> QED BY <1>1, <1>2

\* Each layer of a pass works on what it was built for.
LEMMA PassLocal ==
  ASSUME NetInv, lastBuild.ok, NEW N \in Nat \ {0}, NEW p, NEW call, NEW tokens, NEW keep,
         NEW R, NEW F, NEW V, Layered(p, N, call, tokens, keep, R, F, V), NEW k \in 1 .. Depth
  PROVE  Local(model.layers[k], R[k], BatchAfter(N, k - 1)) /\ R[k].shape = BatchAfter(N, k)
<1> DEFINE L == model.layers[k]
           l == net[k]
           b == model.batched
           s == ShapesOf(model, lastBuild.shape)[k - 1]
           v == BatchAfter(N, k - 1)
<1>0. LInv /\ model \in Models
  BY DEF NetInv, LInv
<1>1. lastBuild.shape \in model.shapes /\ NetFits(net, lastBuild.shape)
  BY DEF NetInv
<1>2. b \in BOOLEAN /\ L.kind \in Kinds /\ Suits(L, b, s)
  BY <1>0, <1>1, ModelShapes DEF Depth
<1>3. IsLayer(l) /\ Sized(L, l, s)
  BY <1>0, <1>1 DEF LInv, NetFits
<1>4. v = InBatch(b, N, s)
  BY DEF BatchAfter
<1>5. /\ R[k] = LayerForward(L, l, call, v, tokens, keep) /\ R[k].ok
      /\ R[k].shape = BatchAfter(N, k)
  BY DEF Layered, BatchAfter
<1> HIDE DEF L, l, b, s, v
<1>6. s \in Seq(Nat) /\ N \in Nat
  BY <1>2 DEF Suits
<1>7. v \in Seq(Nat)
  BY <1>2, <1>4, <1>6, BatchIsShape
<1>8. LayerForward(L, l, call, v, tokens, keep).ok
  BY <1>5
<1>9. Local(L, LayerForward(L, l, call, v, tokens, keep), v)
  BY <1>2, <1>3, <1>4, <1>7, <1>8, LayerLocal
<1> QED BY <1>5, <1>9 DEF L, v

\* One layer after the other.
LEMMA PassStarts ==
  ASSUME NEW N, NEW p, NEW call, NEW tokens, NEW keep, NEW R, NEW F, NEW V,
         Layered(p, N, call, tokens, keep, R, F, V)
  PROVE  F[0] = Identity(Offsets(BatchAfter(N, 0))) /\ V[0] = {}
BY DEF Layered, Forwards, BatchAfter

LEMMA PassGoesOn ==
  ASSUME Depth \in Nat, NEW N, NEW p, NEW call, NEW tokens, NEW keep, NEW R, NEW F, NEW V,
         Layered(p, N, call, tokens, keep, R, F, V), NEW k \in 0 .. Depth - 1
  PROVE  F[k+1] = NextEdges(R[k+1], F[k]) /\ V[k+1] = NextUses(k+1, R[k+1], V[k])
<1> DEFINE E == [j \in 1 .. Depth |-> R[j].edges]
           U == [j \in 1 .. Depth |-> InLayer(j, R[j].uses)]
<1>1. k + 1 \in 1 .. Depth
  OBVIOUS
<1>2. E[k+1] = R[k+1].edges /\ U[k+1] = InLayer(k+1, R[k+1].uses)
  BY <1>1
<1>3. F[k+1] = Then(E[k+1], F[k]) /\ V[k+1] = Then(E[k+1], V[k]) \union U[k+1]
  BY DEF Layered, Forwards
<1> HIDE DEF E, U
<1> QED BY <1>2, <1>3 DEF NextEdges, NextUses

LEMMA PassWithin ==
  ASSUME NetInv, lastBuild.ok, NEW N \in Nat \ {0}, NEW p, NEW call, NEW tokens, NEW keep,
         NEW R, NEW F, NEW V, Layered(p, N, call, tokens, keep, R, F, V)
  PROVE  \A k \in 0 .. Depth : Within(F[k], V[k], BatchAfter(N, k), BatchAfter(N, 0))
<1> DEFINE t == BatchAfter(N, 0)
           n == Depth
           T == {k \in 0 .. n : Within(F[k], V[k], BatchAfter(N, k), t)}
<1>0. n \in Nat
  BY ModelFacts DEF NetInv, LInv
<1>1. 0 \in T
  BY <1>0, PassStarts, BegunWithin
<1>2. ASSUME NEW k \in 0 .. n - 1, k \in T PROVE k + 1 \in T
  <2>1. k + 1 \in 1 .. n /\ k + 1 \in 0 .. n /\ (k + 1) - 1 = k
    BY <1>0
  <2>2. Writes(R[k+1], BatchAfter(N, k)) /\ R[k+1].shape = BatchAfter(N, k+1)
    BY <2>1, PassLocal DEF Local
  <2>3. F[k+1] = NextEdges(R[k+1], F[k]) /\ V[k+1] = NextUses(k+1, R[k+1], V[k])
    BY <1>0, PassGoesOn
  <2>4. Within(F[k], V[k], BatchAfter(N, k), t)
    BY <1>2
  <2> HIDE DEF t, T
  <2>5. Within(NextEdges(R[k+1], F[k]), NextUses(k+1, R[k+1], V[k]), R[k+1].shape, t)
    BY <2>2, <2>4, NextWithin
  <2> QED BY <2>1, <2>2, <2>3, <2>5 DEF T
<1> HIDE DEF T, n
<1>3. 0 .. n \subseteq T
  BY <1>0, <1>1, <1>2, IntervalInduction
<1> QED BY <1>3 DEF T, n, t

LEMMA PassApart ==
  ASSUME NetInv, lastBuild.ok, NEW N \in Nat \ {0}, NEW p, NEW call, NEW tokens, NEW keep,
         NEW R, NEW F, NEW V, Layered(p, N, call, tokens, keep, R, F, V), ~Has("BatchNorm1d")
  PROVE  FromOwn(p.edges, BatchAfter(N, Depth), BatchAfter(N, 0))
<1> DEFINE t == BatchAfter(N, 0)
           n == Depth
           T == {k \in 0 .. n : FromOwn(F[k], BatchAfter(N, k), t)}
<1>0. n \in Nat
  BY ModelFacts DEF NetInv, LInv
<1>1. 0 \in T
  BY <1>0, PassStarts, BegunWithin
<1>2. ASSUME NEW k \in 0 .. n - 1, k \in T PROVE k + 1 \in T
  <2>1. k + 1 \in 1 .. n /\ k + 1 \in 0 .. n /\ (k + 1) - 1 = k
    BY <1>0
  <2>2. Apart(R[k+1], BatchAfter(N, k)) /\ R[k+1].shape = BatchAfter(N, k+1)
    BY <2>1, PassLocal DEF Local, Has
  <2>3. F[k+1] = NextEdges(R[k+1], F[k])
    BY <1>0, PassGoesOn
  <2>4. FromOwn(F[k], BatchAfter(N, k), t)
    BY <1>2
  <2> HIDE DEF t, T
  <2>5. FromOwn(NextEdges(R[k+1], F[k]), R[k+1].shape, t)
    BY <2>2, <2>4, NextOwn
  <2> QED BY <2>1, <2>2, <2>3, <2>5 DEF T
<1> HIDE DEF T, n
<1>3. 0 .. n \subseteq T
  BY <1>0, <1>1, <1>2, IntervalInduction
<1>4. n \in T
  BY <1>0, <1>3
<1>5. p.edges = F[Depth]
  BY DEF Layered
<1> QED BY <1>4, <1>5 DEF T, n, t

\* Behind a causal attention there is room only for layers that look back, and
\* the shape stays what it was.
LEMMA CausalModel ==
  ASSUME NEW m \in Models, StaysCausal(m), m.layers[1].kind = "Attention", m.layers[1].causal,
         NEW s \in m.shapes
  PROVE  /\ ~m.batched /\ s \in Seq(Nat) /\ Len(s) = 2
         /\ \A k \in 0 .. Len(m.layers) : ShapesOf(m, s)[k] = s
         /\ \A k \in 1 .. Len(m.layers) : LooksBack(m.layers[k])
<1> DEFINE n == Len(m.layers)
           sh == ShapesOf(m, s)
           T == {k \in 0 .. n : sh[k] = s}
<1>0. n \in Nat /\ n > 0 /\ 1 \in 1 .. n /\ 1 - 1 = 0
  BY LayersAssumption DEF LayersAssumption, StaysCausal
<1>1. sh[0] = s
  BY <1>0, ShapesOfAre
<1>2. ASSUME NEW k \in 1 .. n
      PROVE  /\ m.layers[k].kind \in Kinds /\ Suits(m.layers[k], m.batched, sh[k - 1])
             /\ sh[k] = AnnouncedShape(m.layers[k], sh[k - 1])
             /\ m.layers[k].kind = "Attention" => m.layers[k].causal
  BY ModelShapes DEF StaysCausal
<1> HIDE DEF sh, n
<1>3. ~m.batched /\ s \in Seq(Nat) /\ Len(s) = 2
  <2>1. Suits(m.layers[1], m.batched, sh[0])
    BY <1>0, <1>2
  <2> QED BY <1>1, <2>1 DEF Suits
<1>4. ASSUME NEW k \in 1 .. n, sh[k - 1] = s
      PROVE  sh[k] = s /\ LooksBack(m.layers[k])
  <2> DEFINE L == m.layers[k]
  <2>1. /\ L.kind \in Kinds /\ Suits(L, m.batched, s) /\ sh[k] = AnnouncedShape(L, s)
        /\ L.kind = "Attention" => L.causal
    BY <1>2, <1>4
  <2> HIDE DEF L
  <2>2. L.kind \in {"Attention", "Elementwise", "Dropout"}
    BY <1>3, <2>1 DEF Suits, Kinds
  <2>3. AnnouncedShape(L, s) = s
    <3>1. CASE L.kind = "Attention"
      <4>1. s = <<s[1], s[2]>>
        BY <1>3, TupleTwo
      <4>2. s[2] = L.dim
        BY <2>1, <3>1 DEF Suits
      <4> QED BY <3>1, <4>1, <4>2 DEF AnnouncedShape
    <3>2. CASE L.kind # "Attention"
      BY <2>2, <3>2 DEF AnnouncedShape
    <3> QED BY <3>1, <3>2
  <2>4. LooksBack(L)
    BY <2>1, <2>2 DEF LooksBack
  <2> QED BY <2>1, <2>3, <2>4 DEF L
<1>5. 0 \in T
  BY <1>0, <1>1
<1>6. ASSUME NEW k \in 0 .. n - 1, k \in T PROVE k + 1 \in T
  <2>1. k + 1 \in 1 .. n /\ k + 1 \in 0 .. n /\ (k + 1) - 1 = k
    BY <1>0
  <2>2. sh[k] = s
    BY <1>6
  <2> QED BY <1>4, <2>1, <2>2
<1> HIDE DEF T
<1>7. 0 .. n \subseteq T
  BY <1>0, <1>5, <1>6, IntervalInduction
<1>8. \A k \in 0 .. n : sh[k] = s
  BY <1>7 DEF T
<1>9. \A k \in 1 .. n : LooksBack(m.layers[k])
  <2>1. \A k \in 1 .. n : k - 1 \in 0 .. n
    BY <1>0
  <2> QED BY <1>4, <1>8, <2>1
<1> QED BY <1>3, <1>8, <1>9 DEF n, sh

LEMMA PassPast ==
  ASSUME NetInv, lastBuild.ok, NEW N \in Nat \ {0}, NEW p, NEW call, NEW tokens, NEW keep,
         NEW R, NEW F, NEW V, Layered(p, N, call, tokens, keep, R, F, V),
         StaysCausal(model), model.layers[1].kind = "Attention", model.layers[1].causal
  PROVE  FromPast(p.edges, BatchAfter(N, 0)) /\ BatchAfter(N, Depth) = BatchAfter(N, 0)
<1> DEFINE s == lastBuild.shape
           t == BatchAfter(N, 0)
           n == Depth
           T == {k \in 0 .. n : FromPast(F[k], t)}
<1>0. n \in Nat /\ model \in Models /\ s \in model.shapes /\ n = Len(model.layers)
  BY ModelFacts DEF NetInv, LInv, Depth
<1>1. /\ ~model.batched /\ s \in Seq(Nat) /\ Len(s) = 2
      /\ \A k \in 0 .. n : ShapesOf(model, s)[k] = s
      /\ \A k \in 1 .. n : LooksBack(model.layers[k])
  BY <1>0, CausalModel
<1>2. \A k \in 0 .. n : BatchAfter(N, k) = t
  BY <1>0, <1>1 DEF BatchAfter
<1>3. PICK a \in Nat, b \in Nat, c \in Nat : t = <<a, b, c>>
  <2>1. s = <<s[1], s[2]>> /\ s[1] \in Nat /\ s[2] \in Nat
    BY <1>1, TupleTwo
  <2>2. t = <<N>> \o s
    <3>1. 0 \in 0 .. n
      BY <1>0
    <3>2. ShapesOf(model, s)[0] = s /\ ~model.batched
      BY <1>1, <3>1
    <3>3. t = InBatch(model.batched, N, ShapesOf(model, s)[0])
      BY DEF BatchAfter
    <3> HIDE DEF t, s
    <3> QED BY <3>2, <3>3 DEF InBatch
  <2>3. <<N>> \o <<s[1], s[2]>> = <<N, s[1], s[2]>>
    BY PrependToTwo
  <2>4. t = <<N, s[1], s[2]>>
    <3> HIDE DEF s, t
    <3> QED BY <2>1, <2>2, <2>3
  <2> QED BY <2>1, <2>4
<1>4. \A k \in 0 .. n : Within(F[k], V[k], t, t)
  BY <1>2, PassWithin
<1>5. 0 \in T
  <2>1. \A e \in F[0] : e[1] = e[2] /\ e[1] \in Offsets(t)
    BY PassStarts, BegunWithin DEF Within
  <2>2. \A o \in Offsets(t) : Position(o, t) \in Nat
    BY <1>3, PositionIsNat
  <2> HIDE DEF t, n
  <2>3. FromPast(F[0], t)
    <3> SUFFICES ASSUME NEW e \in F[0] PROVE Position(e[2], t) <= Position(e[1], t)
      BY DEF FromPast
    <3>1. Position(e[1], t) \in Nat /\ e[1] = e[2]
      BY <2>1, <2>2
    <3> QED BY <3>1
  <2> QED BY <1>0, <2>3
<1>6. ASSUME NEW k \in 0 .. n - 1, k \in T PROVE k + 1 \in T
  <2>1. k + 1 \in 1 .. n /\ k + 1 \in 0 .. n /\ (k + 1) - 1 = k /\ k \in 0 .. n
    BY <1>0
  <2>2. /\ Local(model.layers[k+1], R[k+1], BatchAfter(N, k)) /\ R[k+1].shape = BatchAfter(N, k+1)
        /\ LooksBack(model.layers[k+1])
    BY <1>1, <2>1, PassLocal
  <2>3. BatchAfter(N, k) = t /\ BatchAfter(N, k+1) = t
    BY <1>2, <2>1
  <2>4. F[k+1] = NextEdges(R[k+1], F[k])
    BY <1>0, PassGoesOn
  <2>5. FromPast(F[k], t)
    BY <1>6
  <2>6. Within(F[k], V[k], t, t)
    BY <1>4, <2>1
  <2> HIDE DEF t, T, s, n
  <2>7. Len(t) = 3
    BY <1>3
  <2>8. Writes(R[k+1], t) /\ PastOnly(R[k+1], t) /\ R[k+1].shape = t
    BY <2>2, <2>3, <2>7 DEF Local
  <2>9. FromPast(NextEdges(R[k+1], F[k]), t)
    BY <1>3, <2>5, <2>6, <2>8, NextPast
  <2> QED BY <2>1, <2>4, <2>9 DEF T
<1> HIDE DEF T, n
<1>7. 0 .. n \subseteq T
  BY <1>0, <1>5, <1>6, IntervalInduction
<1>8. n \in T /\ n \in 0 .. n
  BY <1>0, <1>7
<1>9. p.edges = F[Depth]
  BY DEF Layered
<1> QED BY <1>2, <1>8, <1>9 DEF T, n, t

\* A pass computes what no Dropout behind the last covering layer took away.
LEMMA PassCovers ==
  ASSUME NetInv, lastBuild.ok, NEW N \in Nat \ {0}, NEW p, NEW call, NEW tokens, NEW keep,
         NEW R, NEW F, NEW V, Layered(p, N, call, tokens, keep, R, F, V), ComputesAll(model)
  PROVE  Covers(p.edges, p.uses, BatchAfter(N, Depth))
<1> DEFINE t == BatchAfter(N, 0)
           n == Depth
           Lost(k) == \E j \in 1 .. k : /\ model.layers[j].kind = "Dropout"
                                        /\ \A i \in j + 1 .. k : model.layers[i].kind \notin Covering
           T == {k \in 0 .. n : Covers(F[k], V[k], BatchAfter(N, k)) \/ Lost(k)}
<1>0. n \in Nat /\ n = Len(model.layers)
  BY ModelFacts DEF NetInv, LInv, Depth
<1>1. 0 \in T
  <2>1. F[0] = Identity(Offsets(t)) /\ V[0] = {}
    BY PassStarts
  <2> HIDE DEF t, Lost, n
  <2>2. Covers(F[0], V[0], t)
    BY <2>1, BegunWithin
  <2> QED BY <1>0, <2>2 DEF t
<1>2. ASSUME NEW k \in 0 .. n - 1, k \in T PROVE k + 1 \in T
  <2>1. k + 1 \in 1 .. n /\ k + 1 \in 0 .. n /\ (k + 1) - 1 = k /\ k \in Nat
    BY <1>0
  <2> DEFINE L == model.layers[k+1]
             r == R[k+1]
             v == BatchAfter(N, k)
  <2>2. Local(L, r, v) /\ r.shape = BatchAfter(N, k+1)
    BY <2>1, PassLocal
  <2>3. L.kind \in Covering \/ L.kind \in {"Softmax", "Elementwise"} \/ L.kind = "Dropout"
    <3>1. L.kind \in Kinds
      BY <1>0, <2>1, LayersAssumption DEF LayersAssumption, NetInv, LInv
    <3> QED BY <3>1 DEF Kinds, Covering
  <2>4. F[k+1] = NextEdges(r, F[k]) /\ V[k+1] = NextUses(k+1, r, V[k])
    BY <1>0, PassGoesOn
  <2>5. Covers(F[k], V[k], v) \/ Lost(k)
    BY <1>2
  <2>6. CASE UsesCover(r) \/ (EdgesCover(r, v) /\ Covers(F[k], V[k], v))
    <3> HIDE DEF r, v, T, Lost
    <3>1. Covers(NextEdges(r, F[k]), NextUses(k+1, r, V[k]), r.shape)
      BY <2>6, NextCovers
    <3> QED BY <2>1, <2>2, <2>4, <3>1 DEF T
  <2>7. CASE L.kind = "Dropout"
    <3>1. k + 1 \in 1 .. k + 1 /\ (k + 1) + 1 .. k + 1 = {}
      BY <2>1
    <3>2. Lost(k + 1)
      BY <2>7, <3>1
    <3> QED BY <2>1, <3>2
  <2>8. CASE Lost(k) /\ L.kind \notin Covering
    <3>1. PICK j \in 1 .. k : /\ model.layers[j].kind = "Dropout"
                              /\ \A i \in j + 1 .. k : model.layers[i].kind \notin Covering
      BY <2>8
    <3>2. j \in 1 .. k + 1 /\ \A i \in j + 1 .. k + 1 : i \in j + 1 .. k \/ i = k + 1
      BY <2>1
    <3>3. Lost(k + 1)
      BY <2>8, <3>1, <3>2
    <3> QED BY <2>1, <3>3
  <2> HIDE DEF T, Lost, r, v, L
  <2> QED BY <2>2, <2>3, <2>5, <2>6, <2>7, <2>8 DEF Local
<1> HIDE DEF T, n
<1>3. 0 .. n \subseteq T
  BY <1>0, <1>1, <1>2, IntervalInduction
<1>4. n \in T
  BY <1>0, <1>3
<1>5. ~Lost(n)
  <2> SUFFICES ASSUME NEW j \in 1 .. n, model.layers[j].kind = "Dropout"
               PROVE  \E i \in j + 1 .. n : model.layers[i].kind \in Covering
    OBVIOUS
  <2> QED BY <1>0 DEF ComputesAll
<1>6. p.edges = F[Depth] /\ p.uses = V[Depth]
  BY DEF Layered
<1> HIDE DEF Lost
<1> QED BY <1>4, <1>5, <1>6 DEF T, n

-----------------------------------------------------------------------------
(***************************************************************************)
(* The forward pass of a model that is built, and the two invariants.      *)
(***************************************************************************)

\* What is announced is what ShapesOf says.
AnnouncedInv == lastBuild.ok => announced = ShapesOf(model, lastBuild.shape)[Depth]

\* A forward pass that succeeds, layer by layer.
LEMMA PassIs ==
  ASSUME NetInv, NEW N \in Batches, NEW tokens \in Tokens(N), NEW keep \in Masks(N),
         ForwardPass(N, tokens, keep), fwd'.ok
  PROVE  /\ N \in Nat \ {0} /\ lastBuild.ok
         /\ model' = model /\ announced' = announced /\ lastBuild' = lastBuild
         /\ fwd'.input = InBatch(model.batched, N, lastBuild.shape)
         /\ fwd'.input = BatchAfter(N, 0) /\ fwd'.shape = BatchAfter(N, Depth)
         /\ \E p, call, R, F, V : /\ Layered(p, N, call, tokens, keep, R, F, V)
                                  /\ fwd'.edges = p.edges /\ fwd'.uses = p.uses
<1> DEFINE input == InputShape(N)
           c == calls'
           r == SequentialForward(c, input, tokens, keep)
<1>1. /\ lastBuild.ok
      /\ fwd' = [ok |-> r.ok, training |-> training, input |-> input, shape |-> r.shape,
                 inputs |-> r.inputs, edges |-> r.edges, uses |-> r.uses]
      /\ model' = model /\ announced' = announced /\ lastBuild' = lastBuild
  BY DEF ForwardPass
<1>2. N \in Nat \ {0} /\ keep \subseteq Offsets(input) /\ input = InBatch(model.batched, N, lastBuild.shape)
  BY LayersAssumption DEF LayersAssumption, Masks, InputShape, InBatch
<1>3. ShapesOf(model, lastBuild.shape)[0] = lastBuild.shape
  BY ShapesOfAre, ModelFacts DEF NetInv, LInv
<1>4. input = BatchAfter(N, 0)
  BY <1>2, <1>3 DEF BatchAfter
<1> HIDE DEF input, c
<1>5. SequentialForward(c, input, tokens, keep).ok
  BY <1>1
<1>6. LET q == SequentialForward(c, input, tokens, keep)
      IN  /\ \E R, F, V : Layered(q, N, c, tokens, keep, R, F, V)
          /\ q.shape = InBatch(model.batched, N, ShapesOf(model, lastBuild.shape)[Depth])
  BY <1>1, <1>2, <1>5, ForwardTraced
<1>7. (\E R, F, V : Layered(r, N, c, tokens, keep, R, F, V)) /\ r.shape = BatchAfter(N, Depth)
  BY <1>6 DEF BatchAfter
<1> HIDE DEF r
<1>8. fwd'.input = input /\ fwd'.shape = r.shape /\ fwd'.edges = r.edges /\ fwd'.uses = r.uses
  BY <1>1
<1> QED BY <1>1, <1>2, <1>4, <1>7, <1>8

LEMMA PassKeepsApart ==
  ASSUME NetInv, \A m \in Models : StaysCausal(m),
         NEW N \in Batches, NEW tokens \in Tokens(N), NEW keep \in Masks(N), ForwardPass(N, tokens, keep)
  PROVE  OnlyOwnSampleAndPast'
<1>0. model' = model /\ Depth' = Depth
  BY DEF ForwardPass, Depth
<1> SUFFICES ASSUME fwd'.ok PROVE OnlyOwnSampleAndPast'
  BY DEF OnlyOwnSampleAndPast, SamplesApart
<1>1. /\ N \in Nat \ {0} /\ lastBuild.ok
      /\ fwd'.input = BatchAfter(N, 0) /\ fwd'.shape = BatchAfter(N, Depth)
      /\ \E p, call, R, F, V : /\ Layered(p, N, call, tokens, keep, R, F, V)
                               /\ fwd'.edges = p.edges /\ fwd'.uses = p.uses
  BY PassIs
<1>2. PICK p, call, R, F, V : Layered(p, N, call, tokens, keep, R, F, V) /\ fwd'.edges = p.edges
  BY <1>1
<1>3. StaysCausal(model)
  BY DEF NetInv, LInv
<1>4. ASSUME ~Has("BatchNorm1d")
      PROVE  \A e \in fwd'.edges : Sample(e[1], fwd'.shape) = Sample(e[2], fwd'.input)
  <2>1. FromOwn(p.edges, BatchAfter(N, Depth), BatchAfter(N, 0))
    BY <1>1, <1>2, <1>4, PassApart
  <2> QED BY <1>1, <1>2, <2>1 DEF FromOwn
<1>5. ASSUME model.layers[1].kind = "Attention", model.layers[1].causal
      PROVE  \A e \in fwd'.edges : Position(e[2], fwd'.input) <= Position(e[1], fwd'.shape)
  <2>1. FromPast(p.edges, BatchAfter(N, 0)) /\ BatchAfter(N, Depth) = BatchAfter(N, 0)
    BY <1>1, <1>2, <1>3, <1>5, PassPast
  <2> QED BY <1>1, <1>2, <2>1 DEF FromPast
<1>6. Has("BatchNorm1d")' = Has("BatchNorm1d")
  BY <1>0 DEF Has
<1>7. Has("BatchNorm1d")' \/ SamplesApart'
  BY <1>4, <1>6 DEF SamplesApart
<1> QED BY <1>0, <1>5, <1>7 DEF OnlyOwnSampleAndPast

LEMMA PassComputesAll ==
  ASSUME NetInv, AnnouncedInv, \A m \in Models : ComputesAll(m),
         NEW N \in Batches, NEW tokens \in Tokens(N), NEW keep \in Masks(N), ForwardPass(N, tokens, keep)
  PROVE  EveryOutputComputed'
<1> SUFFICES ASSUME fwd'.ok PROVE EveryOutputComputed'
  BY DEF EveryOutputComputed
<1>1. /\ N \in Nat \ {0} /\ lastBuild.ok
      /\ model' = model /\ announced' = announced
      /\ fwd'.input = InBatch(model.batched, N, lastBuild.shape)
      /\ fwd'.input = BatchAfter(N, 0) /\ fwd'.shape = BatchAfter(N, Depth)
      /\ \E p, call, R, F, V : /\ Layered(p, N, call, tokens, keep, R, F, V)
                               /\ fwd'.edges = p.edges /\ fwd'.uses = p.uses
  BY PassIs
<1>2. PICK p, call, R, F, V : /\ Layered(p, N, call, tokens, keep, R, F, V)
                              /\ fwd'.edges = p.edges /\ fwd'.uses = p.uses
  BY <1>1
<1>3. ComputesAll(model) /\ model \in Models /\ lastBuild.shape \in model.shapes
  BY <1>1 DEF NetInv, LInv
<1>4. fwd'.shape = InBatch(model.batched, N, announced)
  BY <1>1 DEF AnnouncedInv, BatchAfter
<1>5. fwd'.input[1] = N
  <2> DEFINE s == lastBuild.shape
             n == Len(model.layers)
  <2>1. n \in Nat /\ n > 0 /\ 1 \in 1 .. n
    BY <1>3, LayersAssumption DEF LayersAssumption, ComputesAll
  <2>2. model.batched \in BOOLEAN /\ ShapesOf(model, s)[0] = s
    BY <1>3, <2>1, ModelShapes, ShapesOfAre
  <2>3. s \in Seq(Nat)
    <3>1. Suits(model.layers[1], model.batched, ShapesOf(model, s)[1 - 1])
      BY <1>3, <2>1, ModelShapes
    <3>2. 1 - 1 = 0
      OBVIOUS
    <3> QED BY <2>2, <3>1, <3>2 DEF Suits
  <2>4. CASE model.batched
    <3>1. s # <<>>
      BY <1>3, <2>4 DEF ComputesAll
    <3> HIDE DEF s
    <3>2. 1 \in DOMAIN s
      BY <2>3, <3>1
    <3>3. fwd'.input = [s EXCEPT ![1] = N]
      BY <1>1, <2>4 DEF InBatch, s
    <3> QED BY <3>2, <3>3
  <2>5. CASE ~model.batched
    <3> HIDE DEF s
    <3>1. fwd'.input = <<N>> \o s
      BY <1>1, <2>5 DEF InBatch, s
    <3>2. (<<N>> \o s)[1] = N
      BY <1>1, <2>3
    <3> QED BY <3>1, <3>2
  <2> QED BY <2>2, <2>4, <2>5
<1>6. Covers(p.edges, p.uses, BatchAfter(N, Depth))
  BY <1>1, <1>2, <1>3, PassCovers
<1>7. Within(p.edges, p.uses, BatchAfter(N, Depth), BatchAfter(N, 0))
  <2>1. Depth \in 0 .. Depth
    <3>1. LInv
      BY DEF NetInv
    <3>2. Depth \in Nat
      BY <3>1, ModelFacts
    <3> QED BY <3>2
  <2>2. p.edges = F[Depth] /\ p.uses = V[Depth]
    BY <1>2 DEF Layered
  <2> QED BY <1>1, <1>2, <2>1, <2>2, PassWithin
<1> DEFINE A == fwd'.edges
           B == fwd'.uses
           s == fwd'.shape
           t == fwd'.input
<1>8. Covers(A, B, s) /\ Within(A, B, s, t)
  BY <1>1, <1>2, <1>6, <1>7
<1>9. {e[1] : e \in A} \union {u[1] : u \in B} = Offsets(s) /\ {e[2] : e \in A} \subseteq Offsets(t)
  <2> HIDE DEF A, B, s, t
  <2>1. /\ \A e \in A : e[1] \in Offsets(s) /\ e[2] \in Offsets(t)
        /\ \A u \in B : u[1] \in Offsets(s)
        /\ \A o \in Offsets(s) : (\E e \in A : e[1] = o) \/ (\E u \in B : u[1] = o)
    BY <1>8 DEF Covers, Within
  <2> QED BY <2>1
<1>10. s = IF model.batched THEN [announced EXCEPT ![1] = t[1]] ELSE <<t[1]>> \o announced
  BY <1>4, <1>5 DEF InBatch
<1> QED BY <1>1, <1>9, <1>10 DEF EveryOutputComputed

LEMMA BuildAnnounces ==
  ASSUME NetInv, AnnouncedInv, \A m \in Models : ComputesAll(m), NEW s \in model.shapes, BuildModel(s)
  PROVE  AnnouncedInv'
<1> DEFINE r == SequentialBuild(s)
<1>1. /\ lastBuild' = [shape |-> s, ok |-> r.ok] /\ model' = model
      /\ announced' = IF lastBuild.ok /\ lastBuild.shape = s THEN announced ELSE r.shape
  BY DEF BuildModel
<1>2. ~model.batched \/ (\A j \in 1 .. Depth : ~net[j].built) => r.shape = ShapesOf(model, s)[Depth]
  BY ModelBuilds
<1> HIDE DEF r
<1>3. Depth' = Depth /\ lastBuild'.shape = s
  BY <1>1 DEF Depth
<1>4. CASE lastBuild.ok /\ lastBuild.shape = s
  BY <1>1, <1>3, <1>4 DEF AnnouncedInv
<1>5. CASE ~(lastBuild.ok /\ lastBuild.shape = s)
  <2>1. ~model.batched \/ \A j \in 1 .. Depth : ~net[j].built
    BY <1>5 DEF NetInv, LInv, ComputesAll
  <2> QED BY <1>1, <1>2, <1>3, <1>5, <2>1 DEF AnnouncedInv
<1> QED BY <1>4, <1>5

\* In a model whose attentions are causal once the first is, however deep it is
\* and whatever a program calls: the result of a sample comes from that sample
\* alone, and that of a position from none after it.
THEOREM ResultsComeFromOwnSampleAndPast ==
  ASSUME \A m \in Models : StaysCausal(m)
  PROVE  LayersSpec => []OnlyOwnSampleAndPast
<1> DEFINE I == GradInv /\ OnlyOwnSampleAndPast
<1>1. LayersInit => I
  <2> SUFFICES ASSUME LayersInit PROVE I
    OBVIOUS
  <2>1. fwd = <<>>
    BY DEF LayersInit
  <2> QED BY <2>1, GradStart DEF OnlyOwnSampleAndPast, SamplesApart
<1>2. I /\ [LayersNext]_layerVars => I'
  <2> SUFFICES ASSUME I, [LayersNext]_layerVars PROVE I'
    OBVIOUS
  <2>0. NetInv /\ GradInv'
    BY GradStep DEF GradInv
  <2>1. ASSUME model' = model, fwd' = fwd \/ fwd' = <<>> PROVE OnlyOwnSampleAndPast'
    BY <2>1 DEF OnlyOwnSampleAndPast, SamplesApart, Has, Depth
  <2>2. ASSUME NEW s \in model.shapes, BuildModel(s) PROVE OnlyOwnSampleAndPast'
    BY <2>1, <2>2 DEF BuildModel
  <2>3. ASSUME NEW t \in BOOLEAN, SetTraining(t) PROVE OnlyOwnSampleAndPast'
    BY <2>1, <2>3 DEF SetTraining
  <2>4. ASSUME NEW N \in Batches, NEW tokens \in Tokens(N), NEW keep \in Masks(N), ForwardPass(N, tokens, keep)
        PROVE  OnlyOwnSampleAndPast'
    BY <2>0, <2>4, PassKeepsApart
  <2>5. ASSUME NEW loss \in Losses, BackwardPass(loss) PROVE OnlyOwnSampleAndPast'
    BY <2>1, <2>5 DEF BackwardPass
  <2>6. ASSUME ZeroGrad PROVE OnlyOwnSampleAndPast'
    BY <2>1, <2>6 DEF ZeroGrad
  <2>7. ASSUME UNCHANGED layerVars PROVE OnlyOwnSampleAndPast'
    BY <2>1, <2>7 DEF layerVars
  <2>8. OnlyOwnSampleAndPast'
    BY <2>2, <2>3, <2>4, <2>5, <2>6, <2>7 DEF LayersNext
  <2> QED BY <2>0, <2>8
<1>3. I => OnlyOwnSampleAndPast
  OBVIOUS
<1> QED BY <1>1, <1>2, <1>3, PTL DEF LayersSpec

\* In a model with a layer that computes behind every Dropout: a forward pass
\* has the shape the first build announced, computes every element of it, and
\* reads no element the input does not have.
THEOREM PassComputesWhatBuildAnnounced ==
  ASSUME \A m \in Models : ComputesAll(m)
  PROVE  LayersSpec => []EveryOutputComputed
<1> DEFINE I == GradInv /\ AnnouncedInv /\ EveryOutputComputed
<1>1. LayersInit => I
  <2> SUFFICES ASSUME LayersInit PROVE I
    OBVIOUS
  <2>1. fwd = <<>> /\ lastBuild.ok = FALSE
    BY DEF LayersInit
  <2> QED BY <2>1, GradStart DEF EveryOutputComputed, AnnouncedInv
<1>2. I /\ [LayersNext]_layerVars => I'
  <2> SUFFICES ASSUME I, [LayersNext]_layerVars PROVE I'
    OBVIOUS
  <2>0. NetInv /\ AnnouncedInv /\ GradInv'
    BY GradStep DEF GradInv
  <2>1. ASSUME model' = model, announced' = announced, lastBuild' = lastBuild, fwd' = fwd
        PROVE  AnnouncedInv' /\ EveryOutputComputed'
    BY <2>1 DEF EveryOutputComputed, AnnouncedInv, Depth
  <2>2. ASSUME NEW s \in model.shapes, BuildModel(s) PROVE AnnouncedInv' /\ EveryOutputComputed'
    <3>1. fwd' = <<>>
      BY <2>2 DEF BuildModel
    <3> QED BY <2>0, <2>2, <3>1, BuildAnnounces DEF EveryOutputComputed
  <2>3. ASSUME NEW t \in BOOLEAN, SetTraining(t) PROVE AnnouncedInv' /\ EveryOutputComputed'
    BY <2>1, <2>3 DEF SetTraining
  <2>4. ASSUME NEW N \in Batches, NEW tokens \in Tokens(N), NEW keep \in Masks(N), ForwardPass(N, tokens, keep)
        PROVE  AnnouncedInv' /\ EveryOutputComputed'
    <3>1. model' = model /\ announced' = announced /\ lastBuild' = lastBuild
      BY <2>4 DEF ForwardPass
    <3>2. AnnouncedInv'
      BY <2>0, <3>1 DEF AnnouncedInv, Depth
    <3> QED BY <2>0, <2>4, <3>2, PassComputesAll
  <2>5. ASSUME NEW loss \in Losses, BackwardPass(loss) PROVE AnnouncedInv' /\ EveryOutputComputed'
    BY <2>1, <2>5 DEF BackwardPass
  <2>6. ASSUME ZeroGrad PROVE AnnouncedInv' /\ EveryOutputComputed'
    BY <2>1, <2>6 DEF ZeroGrad
  <2>7. ASSUME UNCHANGED layerVars PROVE AnnouncedInv' /\ EveryOutputComputed'
    BY <2>1, <2>7 DEF layerVars
  <2>8. AnnouncedInv' /\ EveryOutputComputed'
    BY <2>2, <2>3, <2>4, <2>5, <2>6, <2>7 DEF LayersNext
  <2> QED BY <2>0, <2>8
<1>3. I => EveryOutputComputed
  OBVIOUS
<1> QED BY <1>1, <1>2, <1>3, PTL DEF LayersSpec
=============================================================================
