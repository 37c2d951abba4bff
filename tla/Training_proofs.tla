--------------------------- MODULE Training_proofs ----------------------------
(***************************************************************************)
(* Proofs about what trains, resumes and serves a model: the training      *)
(* loop, the checkpoints, the Keras-style model of the Python package, the *)
(* connectors of its inference runners, and the tensors all of it is       *)
(* computed on.  They share no state; each section is about one of them.   *)
(***************************************************************************)
EXTENDS Trainer, Checkpoint, Keras, Runners, Tensors, DataInduction,
        FiniteSetTheorems, FunctionTheorems, SequenceTheorems, TLAPS

-----------------------------------------------------------------------------
(***************************************************************************)
(* The training loop, for all bounds, losses and patience.                 *)
(***************************************************************************)
\* A mean: a sum and a positive count.
Mean == Nat \X (Nat \ {0})

TypeInv ==
  /\ batch \in Nat /\ totalLoss \in Nat /\ calls \in Nat
  /\ bestLoss \in Mean \union {Null}
  /\ shown \subseteq Mean
  /\ applied \in Seq(SUBSET Nat)

-----------------------------------------------------------------------------
(***************************************************************************)
(* Comparing means, as products of their parts.                            *)
(***************************************************************************)

\* A common positive factor may be cancelled from a strict inequality.
LEMMA Cancel ==
  ASSUME NEW x \in Nat, NEW y \in Nat, NEW k \in Nat \ {0}, x * k < y * k
  PROVE  x < y
<1>1. SUFFICES ASSUME ~(x < y) PROVE FALSE
  OBVIOUS
<1>2. PICK z \in Nat : x = y + z
  <2>1. x - y \in Nat /\ x = y + (x - y)
    BY <1>1
  <2> QED BY <2>1
<1>3. x * k = y * k + z * k
  BY <1>2
<1>4. z * k \in Nat /\ y * k \in Nat
  OBVIOUS
<1> QED BY <1>3, <1>4

\* What the lemma below needs, without pairs: m >= b - d and a < b - d give
\* m > a, where m, a and b are the fractions m1/m2, a1/a2 and b1/b2.
LEMMA FractionsBelow ==
  ASSUME NEW m1 \in Nat, NEW a1 \in Nat, NEW b1 \in Nat, NEW d \in Nat,
         NEW m2 \in Nat \ {0}, NEW a2 \in Nat \ {0}, NEW b2 \in Nat \ {0},
         ~(m1 * b2 + d * m2 * b2 < b1 * m2),
         a1 * b2 + d * a2 * b2 < b1 * a2
  PROVE  a1 * m2 < m1 * a2
<1> DEFINE D == d * m2 * b2 * a2
           P == b1 * m2
           Q == m1 * b2 + d * m2 * b2
           R == a1 * b2 + d * a2 * b2
           S == b1 * a2
<1>1. P \in Nat /\ Q \in Nat /\ R \in Nat /\ S \in Nat /\ D \in Nat
  OBVIOUS
<1>2. P * a2 <= Q * a2
  <2>1. P <= Q
    BY <1>1
  <2>2. PICK z \in Nat : Q = P + z
    <3>1. Q - P \in Nat /\ Q = P + (Q - P)
      BY <1>1, <2>1
    <3> QED BY <3>1
  <2> HIDE DEF P, Q
  <2>3. Q * a2 = P * a2 + z * a2
    BY <2>2, <1>1
  <2>4. z * a2 \in Nat /\ P * a2 \in Nat
    BY <1>1
  <2> QED BY <2>3, <2>4
<1>3. R * m2 < S * m2
  <2>1. PICK z \in Nat \ {0} : S = R + z
    <3>1. S - R \in Nat \ {0} /\ S = R + (S - R)
      BY <1>1
    <3> QED BY <3>1
  <2> HIDE DEF R, S
  <2>2. S * m2 = R * m2 + z * m2
    BY <2>1, <1>1
  <2>3. z * m2 \in Nat \ {0} /\ R * m2 \in Nat
    BY <1>1
  <2> QED BY <2>2, <2>3
<1>4. /\ Q * a2 = (m1 * a2) * b2 + D
      /\ R * m2 = (a1 * m2) * b2 + D
      /\ P * a2 = S * m2
  OBVIOUS
<1>5. (a1 * m2) * b2 < (m1 * a2) * b2
  <2>1. (a1 * m2) * b2 \in Nat /\ (m1 * a2) * b2 \in Nat
    OBVIOUS
  <2>2. Q * a2 \in Nat /\ R * m2 \in Nat /\ P * a2 \in Nat /\ S * m2 \in Nat
    BY <1>1
  <2> HIDE DEF P, Q, R, S, D
  <2> QED BY <1>1, <1>2, <1>3, <1>4, <2>1, <2>2
<1>6. a1 * m2 \in Nat /\ m1 * a2 \in Nat
  OBVIOUS
<1> QED BY <1>5, <1>6, Cancel

\* A mean that was not below the best so far is not below the mean that
\* replaces it.
LEMMA BestMovesDown ==
  ASSUME NEW m \in Mean, NEW a \in Mean, NEW b \in Mean \union {Null}, NEW d \in Nat,
         ~Below(m, b, d), Below(a, b, d)
  PROVE  ~Below(m, a, d)
<1>1. b # Null /\ b \in Mean
  BY DEF Below
<1>2. a[2] * m[1] = m[1] * a[2] /\ a # Null
  BY TrainerAssumption DEF Mean, TrainerAssumption
<1>3. a[1] * m[2] < m[1] * a[2]
  <2>1. /\ m[1] \in Nat /\ a[1] \in Nat /\ b[1] \in Nat
        /\ m[2] \in Nat \ {0} /\ a[2] \in Nat \ {0} /\ b[2] \in Nat \ {0}
    BY <1>1 DEF Mean
  <2>2. ~(m[1] * b[2] + d * m[2] * b[2] < b[1] * m[2]) /\ a[1] * b[2] + d * a[2] * b[2] < b[1] * a[2]
    BY <1>1 DEF Below
  <2> QED BY <2>1, <2>2, FractionsBelow
<1>4. m[1] * a[2] \in Nat /\ a[1] * m[2] \in Nat /\ d * m[2] * a[2] \in Nat
  BY DEF Mean
<1> QED BY <1>2, <1>3, <1>4 DEF Below

\* No mean is below itself.
LEMMA NotBelowItself ==
  ASSUME NEW m \in Mean, NEW d \in Nat
  PROVE  ~Below(m, m, d)
<1>1. m # Null
  BY TrainerAssumption DEF Mean, TrainerAssumption
<1>2. m[1] * m[2] \in Nat /\ d * m[2] * m[2] \in Nat
  BY DEF Mean
<1> QED BY <1>1, <1>2 DEF Below

-----------------------------------------------------------------------------
(***************************************************************************)
(* The type, on which both theorems rest.                                  *)
(***************************************************************************)

LEMMA TypeHolds == TrainerSpec => []TypeInv
<1> USE TrainerAssumption DEF TrainerAssumption
<1>1. TrainerInit => TypeInv
  BY DEF TrainerInit, TypeInv
<1>2. TypeInv /\ [TrainerNext]_trainerVars => TypeInv'
  <2> SUFFICES ASSUME TypeInv, [TrainerNext]_trainerVars PROVE TypeInv'
    OBVIOUS
  <2> USE DEF TypeInv
  <2>1. CASE Batch
    <3>1. PICK loss \in Losses :
            LET mean == <<totalLoss + loss, batch + 1>> IN
            /\ Predicate(mean)
            /\ shown' = shown \union {mean}
            /\ IF counter' >= Patience \/ batch + 1 = Batches
               THEN EndEpoch
               ELSE batch' = batch + 1 /\ totalLoss' = mean[1] /\ UNCHANGED <<epoch, training>>
      BY <2>1 DEF Batch
    <3>2. <<totalLoss + loss, batch + 1>> \in Mean
      BY DEF Mean
    <3>3. batch' \in Nat /\ totalLoss' \in Nat
      BY <3>1 DEF EndEpoch
    <3>4. bestLoss' \in Mean \union {Null} /\ shown' \subseteq Mean
      BY <3>1, <3>2 DEF Predicate
    <3>5. calls' \in Nat /\ applied' \in Seq(SUBSET Nat)
      BY <2>1 DEF Batch, TrainStep, Zeroed
    <3> QED BY <3>3, <3>4, <3>5
  <2>2. CASE BatchFails
    BY <2>2 DEF BatchFails, TrainStepFails, stopper
  <2>3. CASE Train
    BY <2>3 DEF Train, stopper
  <2>4. CASE Reset
    BY <2>4 DEF Reset, loop
  <2>5. CASE UNCHANGED trainerVars
    BY <2>5 DEF trainerVars, loop, stopper
  <2> QED BY <2>1, <2>2, <2>3, <2>4, <2>5 DEF TrainerNext
<1> QED BY <1>1, <1>2, PTL DEF TrainerSpec

-----------------------------------------------------------------------------
(***************************************************************************)
(* Whatever batches fail and wherever, optimizer.step uses the gradient of *)
(* its own batch alone: trainStep zeroes the gradients before anything     *)
(* that may fail.                                                          *)
(***************************************************************************)
THEOREM UpdatesUseOwnGradients == TrainerSpec => []OwnGradientsOnly
<1>1. TrainerInit => OwnGradientsOnly
  BY DEF TrainerInit, OwnGradientsOnly
<1>2. TypeInv /\ OwnGradientsOnly /\ [TrainerNext]_trainerVars => OwnGradientsOnly'
  <2> SUFFICES ASSUME TypeInv, OwnGradientsOnly, [TrainerNext]_trainerVars
               PROVE  OwnGradientsOnly'
    OBVIOUS
  <2>1. CASE Batch
    <3>1. applied' = Append(applied, {calls'})
      BY <2>1 DEF Batch, TrainStep, Zeroed
    <3>2. applied \in Seq(SUBSET Nat) /\ calls' \in Nat
      BY <2>1 DEF TypeInv, Batch, TrainStep
    <3>3. SUFFICES ASSUME NEW i \in DOMAIN applied' PROVE \A j, k \in applied'[i] : j = k
      BY DEF OwnGradientsOnly
    <3>4. applied'[i] = {calls'} \/ (i \in DOMAIN applied /\ applied'[i] = applied[i])
      BY <3>1, <3>2
    <3> QED BY <3>4 DEF OwnGradientsOnly
  <2>2. CASE BatchFails \/ Train \/ Reset \/ UNCHANGED trainerVars
    <3>1. applied' = applied
      BY <2>2 DEF BatchFails, TrainStepFails, Train, Reset, trainerVars
    <3> QED BY <3>1 DEF OwnGradientsOnly
  <2> QED BY <2>1, <2>2 DEF TrainerNext
<1> QED BY <1>1, <1>2, TypeHolds, PTL DEF TrainerSpec

(***************************************************************************)
(* For any losses, patience and threshold, no mean that the early stopping *)
(* callback was shown since reset() undercuts bestLoss by more than        *)
(* minDelta.                                                               *)
(***************************************************************************)
THEOREM BestUndercutByNone == TrainerSpec => []BestIsBest
<1> USE TrainerAssumption DEF TrainerAssumption
<1>1. TrainerInit => BestIsBest
  BY DEF TrainerInit, BestIsBest
<1>2. TypeInv /\ BestIsBest /\ [TrainerNext]_trainerVars => BestIsBest'
  <2> SUFFICES ASSUME TypeInv, BestIsBest, [TrainerNext]_trainerVars PROVE BestIsBest'
    OBVIOUS
  <2>1. CASE Batch
    <3>1. PICK loss \in Losses : /\ Predicate(<<totalLoss + loss, batch + 1>>)
                                 /\ shown' = shown \union {<<totalLoss + loss, batch + 1>>}
      BY <2>1 DEF Batch
    <3> DEFINE mean == <<totalLoss + loss, batch + 1>>
    <3>2. mean \in Mean
      BY DEF Mean, TypeInv
    <3> HIDE DEF mean
    <3>3. SUFFICES ASSUME NEW m \in shown' PROVE ~Below(m, bestLoss', MinDelta)
      BY DEF BestIsBest
    <3>4. m \in Mean /\ (m = mean \/ m \in shown)
      BY <3>1, <3>2 DEF TypeInv, mean
    <3>5. CASE Below(mean, bestLoss, MinDelta)
      <4>1. bestLoss' = mean
        BY <3>1, <3>5 DEF Predicate, mean
      <4>2. CASE m = mean
        BY <4>1, <4>2, <3>2, NotBelowItself
      <4>3. CASE m \in shown
        <5>1. ~Below(m, bestLoss, MinDelta)
          BY <4>3 DEF BestIsBest
        <5> QED BY <5>1, <4>1, <3>2, <3>4, <3>5, BestMovesDown DEF TypeInv
      <4> QED BY <3>4, <4>2, <4>3
    <3>6. CASE ~Below(mean, bestLoss, MinDelta)
      <4>1. bestLoss' = bestLoss
        BY <3>1, <3>6 DEF Predicate, mean
      <4> QED BY <4>1, <3>4, <3>6 DEF BestIsBest
    <3> QED BY <3>5, <3>6
  <2>2. CASE Reset
    BY <2>2 DEF Reset, BestIsBest
  <2>3. CASE BatchFails \/ Train \/ UNCHANGED trainerVars
    <3>1. shown' = shown /\ bestLoss' = bestLoss
      BY <2>3 DEF BatchFails, Train, trainerVars, stopper
    <3> QED BY <3>1 DEF BestIsBest, Below
  <2> QED BY <2>1, <2>2, <2>3 DEF TrainerNext
<1> QED BY <1>1, <1>2, TypeHolds, PTL DEF TrainerSpec

-----------------------------------------------------------------------------
(***************************************************************************)
(* Checkpoints, for any number of parameters and steps, any place a file   *)
(* is cut off at and any addresses the allocator hands out.                *)
(***************************************************************************)
-----------------------------------------------------------------------------
(***************************************************************************)
(* The inductive invariant.                                                *)
(***************************************************************************)

IsFunction(w) == w = [i \in Params |-> w[i]]

ShapeInv ==
  /\ IsFunction(weights)
  /\ disk # NoValue =>
       /\ IsFunction(disk.c.weights)
       /\ disk.c.sections \in {"none", Kind}
       /\ disk.cut \in Nat

\* What a file says of a run that did not start again at step 0: the state of
\* an optimizer that saves all of it.
FileOfRun(c) ==
  /\ c.run \in (0..MaxSteps) \union {NoValue}
  /\ c.run # NoValue /\ ~c.fromZero =>
       /\ c.step = c.run
       /\ \A i \in Frozen : c.weights[i] = 0
       /\ \A i \in Params \ Frozen :
            c.weights[i] = c.run /\ c.moments[i] \in (IF c.run = 0 THEN {0, NoValue} ELSE {c.run})

RunInv ==
  /\ ResumesTheRun
  /\ run \in (0..MaxSteps) \union {NoValue}
  /\ disk # NoValue => FileOfRun(disk.c)

LEMMA Numbers ==
  /\ N \in Nat \ {0} /\ MaxSteps \in Nat /\ Kind \in {"Adam", "SGD"}
  /\ Frozen \subseteq Params /\ Frozen # Params
BY CheckpointAssumption DEF CheckpointAssumption

LEMMA Sentinels == NoValue \notin 0..MaxSteps /\ Off \notin 0..MaxSteps
BY CheckpointAssumption DEF CheckpointAssumption

-----------------------------------------------------------------------------
(***************************************************************************)
(* The shape of the state, and the weights after a load.                   *)
(***************************************************************************)

LEMMA SizeIsNat ==
  ASSUME NEW c, c.sections \in {"none", Kind} PROVE Size(c) \in Nat \ {0}
BY Numbers DEF Size, LastState, LastWeight

\* Whatever part of the file of a save is on the disk.
LEMMA SavedShape ==
  ASSUME ShapeInv, NEW optimizer \in BOOLEAN, NEW cut, NEW torn, cut \in 0..Size(Contents(optimizer)),
         disk' = [c |-> Contents(optimizer), cut |-> cut, torn |-> torn], weights' = weights
  PROVE  ShapeInv'
<1>1. Contents(optimizer).weights = weights /\ Contents(optimizer).sections \in {"none", Kind}
  BY DEF Contents
<1>2. cut \in Nat
  BY <1>1, SizeIsNat
<1>3. disk'.c = Contents(optimizer) /\ disk'.cut = cut
  OBVIOUS
<1> QED BY <1>1, <1>2, <1>3 DEF ShapeInv, IsFunction

LEMMA ShapeKept == ASSUME ShapeInv, [CheckpointNext]_checkpointVars PROVE ShapeInv'
<1>1. CASE TrainOneStep
  BY <1>1 DEF TrainOneStep, ShapeInv, IsFunction
<1>2. CASE Save
  <2>1. PICK optimizer \in BOOLEAN :
          disk' = [c |-> Contents(optimizer), cut |-> Size(Contents(optimizer)), torn |-> FALSE]
    BY <1>2 DEF Save
  <2>2. weights' = weights
    BY <1>2 DEF Save, process
  <2>3. Size(Contents(optimizer)) \in 0..Size(Contents(optimizer))
    BY SizeIsNat DEF Contents
  <2> QED BY <2>1, <2>2, <2>3, SavedShape
<1>3. CASE SaveCut
  <2>1. PICK optimizer \in BOOLEAN, torn \in BOOLEAN :
          \E cut \in 0..(Size(Contents(optimizer)) - 1) :
            disk' = [c |-> Contents(optimizer), cut |-> cut, torn |-> torn]
    BY <1>3 DEF SaveCut
  <2>4. PICK cut \in 0..(Size(Contents(optimizer)) - 1) :
          disk' = [c |-> Contents(optimizer), cut |-> cut, torn |-> torn]
    BY <2>1
  <2>2. weights' = weights
    BY <1>3 DEF SaveCut, process
  <2>3. cut \in 0..Size(Contents(optimizer))
    BY SizeIsNat DEF Contents
  <2> QED BY <2>2, <2>3, <2>4, SavedShape
<1>4. CASE Load
  BY <1>4 DEF Load, ShapeInv, IsFunction
<1>5. CASE Restart
  BY <1>5 DEF Restart, ShapeInv, IsFunction
<1>6. CASE UNCHANGED checkpointVars
  BY <1>6 DEF checkpointVars, process, ShapeInv, IsFunction
<1> QED BY <1>1, <1>2, <1>3, <1>4, <1>5, <1>6 DEF CheckpointNext

LEMMA ShapeHolds == CheckpointSpec => []ShapeInv
<1>1. CheckpointInit => ShapeInv
  BY DEF CheckpointInit, ShapeInv, IsFunction
<1> QED BY <1>1, ShapeKept, PTL DEF CheckpointSpec

(***************************************************************************)
(* Wherever a file was cut off, a load that succeeds replaces all weights  *)
(* or none.                                                                *)
(***************************************************************************)
THEOREM NoMixedWeights == CheckpointSpec => WeightsAllOrNothing
<1>1. ASSUME ShapeInv, [CheckpointNext]_checkpointVars
      PROVE  [result' = "ok" => weights' = disk.c.weights \/ weights' = weights]_checkpointVars
  <2>1. CASE Load
    <3> SUFFICES ASSUME result' = "ok" PROVE weights' = disk.c.weights \/ weights' = weights
      OBVIOUS
    <3>1. /\ disk # NoValue /\ "ok" \in Outcomes
          /\ weights' = [i \in Params |-> IF i \in Replaced THEN disk.c.weights[i] ELSE weights[i]]
      BY <2>1 DEF Load
    <3>2. /\ disk.cut \in Nat /\ N \in Nat \ {0}
          /\ IsFunction(disk.c.weights) /\ IsFunction(weights)
      BY <1>1, <3>1, Numbers DEF ShapeInv
    <3>3. disk.cut = 1 \/ disk.cut >= LastWeight
      BY <3>1, <3>2 DEF Outcomes, LastWeight
    <3>4. CASE disk.cut = 1
      <4>1. Replaced = {}
        BY <3>2, <3>4 DEF Replaced, Params
      <4>2. weights' = [i \in Params |-> weights[i]]
        BY <3>1, <4>1
      <4> QED BY <3>2, <4>2 DEF IsFunction
    <3>5. CASE disk.cut >= LastWeight
      <4>1. Replaced = Params
        BY <3>2, <3>5 DEF Replaced, Params, LastWeight
      <4>2. weights' = [i \in Params |-> disk.c.weights[i]]
        BY <3>1, <4>1
      <4> QED BY <3>2, <4>2 DEF IsFunction
    <3> QED BY <3>3, <3>4, <3>5
  <2>2. CASE TrainOneStep \/ Save \/ SaveCut \/ Restart
    <3>1. result' = "none"
      BY <2>2 DEF TrainOneStep, Save, SaveCut, Restart
    <3> QED BY <3>1
  <2> QED BY <1>1, <2>1, <2>2 DEF CheckpointNext
<1> QED BY <1>1, ShapeHolds, PTL DEF CheckpointSpec, WeightsAllOrNothing

-----------------------------------------------------------------------------
(***************************************************************************)
(* Resuming.                                                               *)
(***************************************************************************)

\* A step from a state of the run leads to the next state of the run.
LEMMA TrainingStaysInRun ==
  ASSUME ShapeInv, RunInv, TrainOneStep
  PROVE  RunInv'
<1>1. run \in 0..(MaxSteps - 1) /\ run' = run + 1 /\ run' \in 0..MaxSteps
  BY Numbers DEF TrainOneStep
<1>2. UNCHANGED <<addr, disk, fromZero>>
  BY DEF TrainOneStep
<1>3. ASSUME ~fromZero PROVE InRun(run)'
  <2>1. InRun(run) /\ run \in 0..MaxSteps
    BY <1>1, <1>3, Numbers, Sentinels DEF RunInv, ResumesTheRun
  <2> DEFINE next == run + 1
             keys == {addr[i] : i \in Params \ Frozen}
  <2>2. weights[CHOOSE i \in Params \ Frozen : TRUE] + 1 = next
    <3>1. (CHOOSE i \in Params \ Frozen : TRUE) \in Params \ Frozen
      BY Numbers
    <3> QED BY <2>1, <3>1 DEF InRun
  <2>3. /\ weights' = [i \in Params |-> IF i \in Frozen THEN weights[i] ELSE next]
        /\ moments' = [a \in DOMAIN moments \union keys |-> IF a \in keys THEN next ELSE moments[a]]
    BY <2>1, <2>2 DEF TrainOneStep
  <2>4. \A i \in Frozen : weights'[i] = 0
    BY <2>1, <2>3, Numbers DEF InRun
  <2>5. \A i \in Params \ Frozen : weights'[i] = next /\ Moment(i)' = next
    BY <1>2, <2>3 DEF Moment
  <2>6. Kind = "Adam" => step' = next
    <3>1. Kind = "Adam" => step = run
      BY <2>1 DEF InRun
    <3>2. run # Off
      BY <2>1, Sentinels
    <3> QED BY <3>1, <3>2 DEF TrainOneStep
  <2>7. next # 0 /\ run' = next
    BY <1>1, Numbers
  <2> HIDE DEF next, keys
  <2> QED BY <2>4, <2>5, <2>6, <2>7 DEF InRun
<1> QED BY <1>1, <1>2, <1>3 DEF RunInv, ResumesTheRun, FileOfRun

\* A save of a state of the run is a file of the run.
LEMMA SavedRun ==
  ASSUME Kind = "Adam", RunInv, NEW optimizer \in BOOLEAN, NEW cut, NEW torn,
         disk' = [c |-> Contents(optimizer), cut |-> cut, torn |-> torn],
         UNCHANGED <<process, history>>
  PROVE  RunInv'
<1>1. disk'.c = Contents(optimizer)
  OBVIOUS
<1>2. /\ Contents(optimizer).weights = weights /\ Contents(optimizer).step = step
      /\ Contents(optimizer).run = run /\ Contents(optimizer).fromZero = fromZero
      /\ \A i \in Params : Contents(optimizer).moments[i] = Moment(i)
  BY DEF Contents
<1>3. FileOfRun(Contents(optimizer))
  BY <1>2, Numbers DEF RunInv, ResumesTheRun, InRun, FileOfRun
<1>4. InRun(run)' = InRun(run) /\ run' = run /\ fromZero' = fromZero
  BY DEF process, history, InRun, Moment
<1>5. FileOfRun(disk'.c)
  BY <1>1, <1>3
<1> HIDE DEF FileOfRun, InRun
<1>6. ResumesTheRun'
  BY <1>4 DEF RunInv, ResumesTheRun
<1> QED BY <1>4, <1>5, <1>6 DEF RunInv, FileOfRun

\* All buffers are new ones, no two at the same address.
LEMMA PlacedApart ==
  ASSUME NEW a \in Placements, Replaced = Params, NEW i \in Params, NEW j \in Params, a[i] = a[j]
  PROVE  i = j
<1>1. \A m \in Params, n \in Params : n < m => a[m] # a[n]
  BY DEF Placements, Params
<1> QED BY <1>1, Numbers DEF Params

\* A file that reaches to the end of the optimizer's state brings back the
\* weights, the moments, filed under the new addresses, and the step.
LEMMA LoadedRun ==
  ASSUME Kind = "Adam", ShapeInv, RunInv, Load
  PROVE  RunInv'
<1>1. PICK optimizer \in BOOLEAN :
        /\ disk # NoValue /\ addr' \in Placements
        /\ weights' = [i \in Params |-> IF i \in Replaced THEN disk.c.weights[i] ELSE weights[i]]
        /\ IF optimizer /\ disk.c.sections = "Adam" THEN LoadState(addr')
           ELSE UNCHANGED <<step, moments>>
        /\ run' = IF optimizer /\ disk.c.sections # "none" /\ disk.cut >= LastState(disk.c)
                  THEN disk.c.run ELSE NoValue
        /\ fromZero' = (run' # NoValue /\ (run' = 0 \/ disk.c.fromZero))
        /\ UNCHANGED disk
  BY DEF Load
<1>2. FileOfRun(disk.c)
  BY <1>1 DEF RunInv
<1>3. ASSUME run' # NoValue, ~fromZero' PROVE run' \in 0..MaxSteps /\ InRun(run)'
  <2>1. /\ optimizer /\ disk.c.sections = "Adam" /\ disk.cut >= LastState(disk.c)
        /\ run' = disk.c.run
    BY <1>1, <1>3 DEF ShapeInv
  <2>2. run' # 0 /\ ~disk.c.fromZero
    BY <1>1, <1>3
  <2>3. /\ disk.c.run \in 0..MaxSteps /\ disk.c.step = run'
        /\ \A i \in Frozen : disk.c.weights[i] = 0
        /\ \A i \in Params \ Frozen : disk.c.weights[i] = run' /\ disk.c.moments[i] = run'
    BY <1>2, <1>3, <2>1, <2>2 DEF FileOfRun
  <2>4. disk.cut \in Nat /\ N \in Nat \ {0} /\ disk.cut >= LastWeight + 2 + N
    BY <1>1, <2>1, Numbers DEF ShapeInv, LastState, LastWeight
  <2>5. Replaced = Params
    BY <2>4 DEF Replaced, Params, LastWeight
  <2>6. \A i \in Params : weights'[i] = disk.c.weights[i]
    BY <1>1, <2>5
  <2>7. \A i \in Params : disk.cut >= StatePlace(i)
    BY <2>4 DEF Params, LastWeight, StatePlace
  <2>8. /\ step' = Field(LastWeight + 2, disk.c.step, step)
        /\ moments' = [k \in DOMAIN moments \union {addr'[i] : i \in InFile} |->
                         IF k \in {addr'[i] : i \in InFile} THEN StateFor(addr', k) ELSE moments[k]]
    BY <1>1, <2>1 DEF LoadState
  <2>9. step' = run'
    BY <2>3, <2>4, <2>8 DEF Field, LastWeight
  <2>10. \A i \in Params \ Frozen : Moment(i)' = run'
    <3> SUFFICES ASSUME NEW i \in Params \ Frozen PROVE Moment(i)' = run'
      OBVIOUS
    <3>1. i \in InFile
      BY <1>3, <2>3, <2>7 DEF InFile
    <3> DEFINE j == CHOOSE n \in InFile : addr'[n] = addr'[i]
    <3>2. j \in InFile /\ addr'[j] = addr'[i]
      BY <3>1
    <3>3. j = i
      <4>1. j \in Params
        BY <3>2 DEF InFile
      <4> QED BY <1>1, <2>5, <3>2, <4>1, PlacedApart
    <3>4. StateFor(addr', addr'[i]) = Field(StatePlace(i), disk.c.moments[i], Off)
      BY <3>3 DEF StateFor
    <3>5. Field(StatePlace(i), disk.c.moments[i], Off) = run'
      BY <2>3, <2>7 DEF Field
    <3>6. addr'[i] \in DOMAIN moments' /\ moments'[addr'[i]] = StateFor(addr', addr'[i])
      BY <2>8, <3>1
    <3> HIDE DEF j
    <3> QED BY <3>4, <3>5, <3>6 DEF Moment
  <2> QED BY <2>1, <2>2, <2>3, <2>6, <2>9, <2>10, Numbers DEF InRun
<1>4. run' \in (0..MaxSteps) \union {NoValue}
  <2>1. CASE run' # NoValue /\ fromZero'
    BY <1>1, <1>2, <2>1, Numbers DEF FileOfRun
  <2> QED BY <1>3, <2>1
<1> QED BY <1>1, <1>2, <1>3, <1>4 DEF RunInv, ResumesTheRun, FileOfRun

(***************************************************************************)
(* With Adam, a process that resumed a checkpoint of a run is where that   *)
(* run would be, and stays there, wherever its buffers come to lie.        *)
(***************************************************************************)
THEOREM AdamResumes == Kind = "Adam" => (CheckpointSpec => []ResumesTheRun)
<1> SUFFICES ASSUME Kind = "Adam" PROVE CheckpointSpec => []ResumesTheRun
  OBVIOUS
<1>1. CheckpointInit => RunInv
  <2> SUFFICES ASSUME CheckpointInit PROVE RunInv
    OBVIOUS
  <2>1. \A i \in Params : Moment(i) = NoValue
    BY DEF CheckpointInit, Moment
  <2>2. InRun(0)
    BY <2>1, Numbers DEF CheckpointInit, InRun
  <2> QED BY <2>2, Numbers DEF CheckpointInit, RunInv, ResumesTheRun
<1>2. ASSUME ShapeInv, RunInv, [CheckpointNext]_checkpointVars PROVE RunInv'
  <2>1. CASE TrainOneStep
    BY <1>2, <2>1, TrainingStaysInRun
  <2>2. CASE Save \/ SaveCut
    BY <1>2, <2>2, SavedRun DEF Save, SaveCut
  <2>3. CASE Load
    BY <1>2, <2>3, LoadedRun
  <2>4. CASE Restart
    BY <1>2, <2>4 DEF Restart, RunInv, ResumesTheRun, FileOfRun
  <2>5. CASE UNCHANGED checkpointVars
    BY <1>2, <2>5 DEF checkpointVars, process, history, RunInv, ResumesTheRun, FileOfRun, InRun, Moment
  <2> QED BY <1>2, <2>1, <2>2, <2>3, <2>4, <2>5 DEF CheckpointNext
<1>3. RunInv => ResumesTheRun
  BY DEF RunInv
<1> QED BY <1>1, <1>2, <1>3, ShapeHolds, PTL DEF CheckpointSpec

-----------------------------------------------------------------------------
(***************************************************************************)
(* The Keras-style model, for any losses, patience, min_delta and any      *)
(* number of epochs and fits.                                              *)
(***************************************************************************)

KerasSpec == KerasInit /\ [][KerasNext]_kerasVars

\* What a callback may be shown.
Metric == LossValues \union {NaN, Inf}

\* m is the least of the first n values of h that are not nan, Inf if none is.
LeastOf(h, n, m) ==
  /\ m = Inf \/ \E i \in 1 .. n : h[i] # NaN /\ m = h[i]
  /\ m <= Inf
  /\ \A i \in 1 .. n : h[i] # NaN => m <= h[i]

\* h[k] is below all that came before it.
Improves(h, k) ==
  h[k] # NaN /\ h[k] < Inf /\ \A i \in 1 .. k-1 : h[i] # NaN => h[k] < h[i]

\* None of the values after the first p improved on b by more than min_delta.
Stalls(h, p, b) == \A k \in p+1 .. Len(h) : ~LessThan(h[k], Lowered(b))

\* Any patience of the first n values in a row have one that improves.
KeepsImproving(h, n) == \A i \in 1 .. n - patience + 1 : \E k \in i .. i + patience - 1 : Improves(h, k)

KerasType ==
  /\ fit \in [state : {"none", "running", "done", "stopped", "raised"}, epochs : Int,
              validates : BOOLEAN, watched : Seq(Metric), fresh : BOOLEAN, freshBest : BOOLEAN]
  /\ early \in [best : Metric \ {NaN}, counter : Nat, stop : BOOLEAN]
  /\ best \in Metric /\ saved \in Metric

\* In a fit that runs, counter counts back to the last epoch that improved by
\* more than min_delta; its value is best, and no value before was lower.
EarlyFollows ==
  LET h == fit.watched
      p == Len(h) - early.counter
  IN /\ p >= 0 /\ early.counter < patience /\ ~early.stop
     /\ LeastOf(h, p, early.best)
     /\ Stalls(h, p, early.best)
     /\ p > 0 => Improves(h, p)

\* A fit that was stopped has stalled for patience epochs, one that was not
\* kept improving.
FitFollows ==
  LET h == fit.watched IN
  IF fit.state = "stopped"
  THEN /\ Len(h) >= patience /\ KeepsImproving(h, Len(h) - 1)
       /\ \E b \in Metric \ {NaN} : LeastOf(h, Len(h) - patience, b) /\ Stalls(h, Len(h) - patience, b)
  ELSE KeepsImproving(h, Len(h))

\* ModelCheckpoint's best value, and that of the last epoch saved.
SavedFollows ==
  (\A i \in DOMAIN fit.watched : fit.watched[i] # NaN)
    => saved = best /\ LeastOf(fit.watched, Len(fit.watched), best)

KerasInv ==
  /\ KerasType
  /\ fit.fresh /\ fit.state = "running" => EarlyFollows
  /\ fit.fresh => FitFollows
  /\ fit.freshBest => SavedFollows

LEMMA MetricOrder ==
  /\ Metric \subseteq Int /\ NaN \in Int /\ Inf \in Int /\ NaN # Inf
  /\ \A v \in Metric : v = NaN \/ v <= Inf
  /\ patience \in Nat \ {0} /\ min_delta \in Nat
  /\ \A v \in LossValues : v < NaN /\ v < Inf
  /\ \A b \in Metric \ {NaN} : Lowered(b) \in Int /\ Lowered(b) <= b /\ Lowered(b) # NaN
<1>1. /\ LossValues \subseteq Int /\ NaN \in Int /\ Inf \in Int /\ NaN # Inf
      /\ \A v \in LossValues : v < NaN /\ v < Inf
      /\ patience \in Nat \ {0} /\ min_delta \in Nat
  BY KerasAssumption DEF KerasAssumption
<1>2. Metric \subseteq Int
  BY <1>1 DEF Metric
<1>3. ASSUME NEW v \in LossValues PROVE v \in Int /\ v <= Inf /\ v # NaN
  BY <1>1
<1>4. \A v \in Metric : v = NaN \/ v <= Inf
  BY <1>1, <1>3 DEF Metric
<1>5. ASSUME NEW b \in Metric \ {NaN} PROVE Lowered(b) \in Int /\ Lowered(b) <= b /\ Lowered(b) # NaN
  <2>1. CASE b = Inf
    BY <1>1, <2>1 DEF Lowered
  <2>2. CASE b \in LossValues
    BY <1>1, <1>3, <2>2 DEF Lowered
  <2> QED BY <2>1, <2>2 DEF Metric
<1> QED BY <1>1, <1>2, <1>4, <1>5

\* The Least of the module is that of the invariant.
LEMMA LeastIs ==
  ASSUME NEW h \in Seq(Metric), NEW n \in 0 .. Len(h), NEW m, LeastOf(h, n, m)
  PROVE  Least(SubSeq(h, 1, n)) = m
<1> DEFINE S == {Inf} \union {v \in ToSet(SubSeq(h, 1, n)) : v # NaN}
<1>1. /\ DOMAIN SubSeq(h, 1, n) = 1 .. n /\ \A i \in 1 .. n : SubSeq(h, 1, n)[i] = h[i]
      /\ \A i \in 1 .. n : h[i] \in Metric
  OBVIOUS
<1>2. S = {Inf} \union {v \in {h[i] : i \in 1 .. n} : v # NaN}
  BY <1>1 DEF ToSet
<1> HIDE DEF S
<1>3. S \subseteq Int /\ m \in S /\ \A v \in S : m <= v
  BY <1>1, <1>2, MetricOrder DEF LeastOf
<1>4. Min(S) \in S /\ \A v \in S : Min(S) <= v
  BY <1>3 DEF Min
<1>5. Min(S) \in Int /\ m \in Int /\ Min(S) <= m /\ m <= Min(S)
  BY <1>3, <1>4
<1> QED BY <1>5 DEF Least, S

\* One value more.
LEMMA LeastOfOneMore ==
  ASSUME NEW h \in Seq(Metric), NEW n \in 0 .. Len(h) - 1, NEW m \in Metric, LeastOf(h, n, m)
  PROVE  LeastOf(h, n + 1, IF h[n+1] # NaN /\ h[n+1] < m THEN h[n+1] ELSE m)
<1>1. /\ 1 .. n+1 = (1 .. n) \union {n+1} /\ n + 1 \in 1 .. Len(h)
      /\ h[n+1] \in Metric /\ \A i \in 1 .. n : h[i] \in Metric
  OBVIOUS
<1>2. Metric \subseteq Int
  BY MetricOrder
<1>3. \A i \in 1 .. n+1 : h[i] \in Int
  BY <1>1, <1>2
<1> QED BY <1>1, <1>3, MetricOrder DEF LeastOf

\* Any number of values have a least one.
LEMMA LeastExists ==
  ASSUME NEW h \in Seq(Metric), NEW n \in 0 .. Len(h)
  PROVE  \E m \in Metric \ {NaN} : LeastOf(h, n, m)
<1> DEFINE T == {k \in 0 .. Len(h) : \E m \in Metric \ {NaN} : LeastOf(h, k, m)}
<1>0. Len(h) \in Nat
  OBVIOUS
<1>1. 0 \in T
  <2>1. Inf \in Metric \ {NaN} /\ Inf <= Inf
    BY MetricOrder DEF Metric
  <2>2. LeastOf(h, 0, Inf)
    BY <2>1 DEF LeastOf
  <2> QED BY <1>0, <2>1, <2>2
<1>2. ASSUME NEW k \in 0 .. Len(h) - 1, k \in T PROVE k + 1 \in T
  <2>1. PICK m \in Metric \ {NaN} : LeastOf(h, k, m)
    BY <1>2
  <2>2. LeastOf(h, k + 1, IF h[k+1] # NaN /\ h[k+1] < m THEN h[k+1] ELSE m)
    BY <2>1, LeastOfOneMore
  <2>3. h[k+1] \in Metric /\ k + 1 \in 0 .. Len(h)
    OBVIOUS
  <2> QED BY <2>2, <2>3
<1> HIDE DEF T
<1>3. 0 .. Len(h) \subseteq T
  BY <1>0, <1>1, <1>2, IntervalInduction
<1>4. n \in T
  BY <1>3
<1> QED BY <1>4 DEF T

\* A value that improves is below the Least of those before.
LEMMA ImprovesOnLeast ==
  ASSUME NEW h \in Seq(Metric), NEW k \in 1 .. Len(h), Improves(h, k)
  PROVE  LessThan(h[k], Least(SubSeq(h, 1, k - 1)))
<1>1. k - 1 \in 0 .. Len(h)
  OBVIOUS
<1>2. PICK m \in Metric \ {NaN} : LeastOf(h, k - 1, m)
  BY <1>1, LeastExists
<1>3. Least(SubSeq(h, 1, k - 1)) = m
  BY <1>1, <1>2, LeastIs
<1> QED BY <1>2, <1>3 DEF LeastOf, Improves, LessThan

\* An epoch that ends in value: the values before keep their places.
LEMMA Appended ==
  ASSUME NEW h \in Seq(Metric), NEW value \in Metric, NEW h1, h1 = Append(h, value)
  PROVE  /\ h1 \in Seq(Metric) /\ Len(h1) = Len(h) + 1 /\ Len(h) \in Nat /\ h1[Len(h) + 1] = value
         /\ \A i \in 1 .. Len(h) : h1[i] = h[i]
         /\ \A n \in 0 .. Len(h) : \A m : LeastOf(h, n, m) => LeastOf(h1, n, m)
         /\ \A k \in 1 .. Len(h) : Improves(h, k) => Improves(h1, k)
         /\ \A n \in Int : n <= Len(h) /\ KeepsImproving(h, n) => KeepsImproving(h1, n)
<1>1. /\ h1 \in Seq(Metric) /\ Len(h1) = Len(h) + 1 /\ Len(h) \in Nat /\ h1[Len(h) + 1] = value
      /\ \A i \in 1 .. Len(h) : h1[i] = h[i]
  OBVIOUS
<1>2. ASSUME NEW n \in 0 .. Len(h), NEW m, LeastOf(h, n, m) PROVE LeastOf(h1, n, m)
  BY <1>1, <1>2 DEF LeastOf
<1>3. ASSUME NEW k \in 1 .. Len(h), Improves(h, k) PROVE Improves(h1, k)
  BY <1>1, <1>3 DEF Improves
<1>4. ASSUME NEW n \in Int, n <= Len(h), KeepsImproving(h, n) PROVE KeepsImproving(h1, n)
  <2> SUFFICES ASSUME NEW i \in 1 .. n - patience + 1
               PROVE  \E k \in i .. i + patience - 1 : Improves(h1, k)
    BY DEF KeepsImproving
  <2>1. PICK k \in i .. i + patience - 1 : Improves(h, k)
    BY <1>4 DEF KeepsImproving
  <2>2. k \in 1 .. Len(h)
    BY <1>1, <1>4, MetricOrder
  <2> QED BY <1>3, <2>1, <2>2
<1> QED BY <1>1, <1>2, <1>3, <1>4

\* An epoch that improves on best by more than min_delta.
LEMMA EarlyImproved ==
  ASSUME NEW h \in Seq(Metric), NEW value \in Metric, NEW h1, h1 = Append(h, value),
         NEW b \in Metric \ {NaN}, NEW p \in 0 .. Len(h), LeastOf(h, p, b), Stalls(h, p, b),
         LessThan(value, Lowered(b))
  PROVE  LeastOf(h1, Len(h1), value) /\ Improves(h1, Len(h1)) /\ Stalls(h1, Len(h1), value)
<1>1. /\ Len(h1) = Len(h) + 1 /\ Len(h) \in Nat /\ h1[Len(h) + 1] = value
      /\ \A i \in 1 .. Len(h) : h1[i] = h[i] /\ h[i] \in Int
  <2>1. \A i \in 1 .. Len(h) : h[i] \in Metric
    OBVIOUS
  <2>2. Metric \subseteq Int
    BY MetricOrder
  <2>3. /\ Len(h1) = Len(h) + 1 /\ Len(h) \in Nat /\ h1[Len(h) + 1] = value
        /\ \A i \in 1 .. Len(h) : h1[i] = h[i]
    BY Appended
  <2> QED BY <2>1, <2>2, <2>3
<1>2. /\ value \in Int /\ b \in Int /\ b <= Inf /\ Inf \in Int /\ Lowered(b) \in Int
      /\ Lowered(b) <= b /\ value < Lowered(b) /\ value # NaN
  BY MetricOrder DEF LessThan
<1>3. ASSUME NEW i \in 1 .. Len(h), h[i] # NaN PROVE value < h[i]
  <2>1. CASE i \in 1 .. p
    BY <1>1, <1>2, <1>3, <2>1 DEF LeastOf
  <2>2. CASE i \in p+1 .. Len(h)
    <3>1. ~LessThan(h[i], Lowered(b)) /\ Lowered(b) # NaN
      BY <2>2, MetricOrder DEF Stalls
    <3> QED BY <1>1, <1>2, <1>3, <3>1 DEF LessThan
  <2> QED BY <1>1, <2>1, <2>2
<1>4. Improves(h1, Len(h1))
  BY <1>1, <1>2, <1>3 DEF Improves
<1>5. LeastOf(h1, Len(h1), value)
  BY <1>1, <1>2, <1>3 DEF LeastOf
<1>6. Stalls(h1, Len(h1), value)
  BY <1>1 DEF Stalls
<1> QED BY <1>4, <1>5, <1>6

\* Any patience epochs in a row have one that improves, also with the newest,
\* if the last that did is near enough.
LEMMA StillImproving ==
  ASSUME NEW h \in Seq(Metric), NEW value \in Metric, NEW h1, h1 = Append(h, value),
         KeepsImproving(h, Len(h)),
         NEW p \in 0 .. Len(h1), Len(h1) - p < patience, p > 0 => Improves(h1, p)
  PROVE  KeepsImproving(h1, Len(h1))
<1>1. Len(h1) = Len(h) + 1 /\ Len(h) \in Nat /\ KeepsImproving(h1, Len(h))
  <2>1. Len(h) \in Int /\ Len(h) <= Len(h)
    OBVIOUS
  <2> QED BY <2>1, Appended
<1>2. patience \in Nat \ {0}
  BY MetricOrder
<1> SUFFICES ASSUME NEW i \in 1 .. Len(h1) - patience + 1
             PROVE  \E k \in i .. i + patience - 1 : Improves(h1, k)
  BY DEF KeepsImproving
<1>3. CASE i \in 1 .. Len(h) - patience + 1
  BY <1>1, <1>3 DEF KeepsImproving
<1>4. CASE i = Len(h1) - patience + 1
  <2>1. p \in i .. i + patience - 1 /\ p > 0
    BY <1>1, <1>2, <1>4
  <2> QED BY <2>1
<1> QED BY <1>1, <1>2, <1>3, <1>4

\* One epoch of a fit with a fresh EarlyStopping.
LEMMA EarlySteps ==
  ASSUME KerasInv, fit.fresh, fit.state = "running", NEW value \in Metric,
         early' = EarlyOnEpochEnd(early, value),
         fit'.watched = Append(fit.watched, value),
         early'.stop => fit'.state = "stopped",
         ~early'.stop => fit'.state # "stopped"
  PROVE  /\ fit'.state = "running" => EarlyFollows'
         /\ FitFollows'
<1> DEFINE h == fit.watched
           h1 == fit'.watched
           b == early.best
           p == Len(h) - early.counter
<1>1. /\ h \in Seq(Metric) /\ Len(h) \in Nat /\ h1 = Append(h, value)
      /\ Len(h1) = Len(h) + 1 /\ h1 \in Seq(Metric) /\ h1[Len(h) + 1] = value
      /\ \A i \in 1 .. Len(h) : h1[i] = h[i]
  BY DEF KerasInv, KerasType
<1>2. /\ b \in Metric \ {NaN} /\ early.counter \in Nat /\ patience \in Nat \ {0}
      /\ early = [best |-> early.best, counter |-> early.counter, stop |-> early.stop]
      /\ early.stop \in BOOLEAN
  BY MetricOrder DEF KerasInv, KerasType
<1>3. /\ p \in 0 .. Len(h) /\ early.counter < patience /\ ~early.stop
      /\ LeastOf(h, p, b) /\ Stalls(h, p, b) /\ (p > 0 => Improves(h, p))
      /\ KeepsImproving(h, Len(h))
  BY <1>1, <1>2 DEF KerasInv, EarlyFollows, FitFollows
<1> HIDE DEF p
<1>4. CASE LessThan(value, Lowered(b))
  <2>1. early' = [best |-> value, counter |-> 0, stop |-> FALSE]
    BY <1>2, <1>3, <1>4 DEF EarlyOnEpochEnd
  <2> HIDE DEF h, h1, b
  <2>2. LeastOf(h1, Len(h1), value) /\ Improves(h1, Len(h1)) /\ Stalls(h1, Len(h1), value)
    BY <1>1, <1>2, <1>3, <1>4, EarlyImproved
  <2>3. KeepsImproving(h1, Len(h1))
    <3>1. Len(h1) \in 0 .. Len(h1) /\ Len(h1) - Len(h1) < patience
      BY <1>1, <1>2
    <3> QED BY <1>1, <1>3, <2>2, <3>1, StillImproving
  <2> USE DEF h1
  <2>4. Len(h1) - 0 = Len(h1)
    BY <1>1
  <2>5. EarlyFollows'
    BY <1>1, <1>2, <2>1, <2>2, <2>4 DEF EarlyFollows
  <2>6. FitFollows'
    BY <2>1, <2>3 DEF FitFollows
  <2> QED BY <2>5, <2>6
<1>5. CASE ~LessThan(value, Lowered(b))
  <2>1. /\ early'.best = b /\ early'.counter = early.counter + 1
        /\ early'.stop <=> early.counter + 1 >= patience
    BY <1>2, <1>3, <1>5 DEF EarlyOnEpochEnd
  <2> HIDE DEF h, h1, b
  <2>2. p = Len(h1) - early'.counter /\ p \in 0 .. Len(h1)
    BY <1>1, <1>2, <1>3, <2>1 DEF p
  <2>3. LeastOf(h1, p, b) /\ (p > 0 => Improves(h1, p))
    <3>1. LeastOf(h1, p, b)
      BY <1>1, <1>3, Appended
    <3>2. ASSUME p > 0 PROVE Improves(h1, p)
      <4>1. p \in 1 .. Len(h) /\ Improves(h, p)
        BY <1>1, <1>3, <3>2
      <4> QED BY <1>1, <4>1, Appended
    <3> QED BY <3>1, <3>2
  <2>4. Stalls(h1, p, b)
    BY <1>1, <1>3, <1>5 DEF Stalls
  <2>5. CASE ~early'.stop
    <3>1. early'.counter < patience
      BY <1>2, <2>1, <2>5
    <3>2. KeepsImproving(h1, Len(h1))
      <4>1. Len(h1) - p < patience
        BY <1>1, <1>2, <2>1, <2>2, <3>1
      <4> QED BY <1>1, <1>3, <2>2, <2>3, <4>1, StillImproving
    <3> USE DEF h1, b
    <3>3. EarlyFollows'
      BY <2>1, <2>2, <2>3, <2>4, <2>5, <3>1 DEF EarlyFollows
    <3>4. FitFollows'
      BY <2>5, <3>2 DEF FitFollows
    <3> QED BY <3>3, <3>4
  <2>6. CASE early'.stop
    <3>1. early'.counter = patience
      BY <1>2, <1>3, <2>1, <2>6
    <3>2. Len(h1) - patience = p /\ Len(h1) >= patience /\ Len(h1) - 1 = Len(h)
      BY <1>1, <1>2, <2>2, <3>1
    <3>3. KeepsImproving(h1, Len(h))
      <4>1. Len(h) \in Int /\ Len(h) <= Len(h)
        BY <1>1
      <4> QED BY <1>1, <1>3, <4>1, Appended
    <3> USE DEF h1, b
    <3>4. FitFollows'
      BY <1>2, <2>3, <2>4, <2>6, <3>2, <3>3 DEF FitFollows
    <3> QED BY <2>6, <3>4
  <2> QED BY <2>5, <2>6
<1> QED BY <1>4, <1>5

\* One epoch of a fit with a new ModelCheckpoint.
LEMMA SavedSteps ==
  ASSUME KerasInv, fit.freshBest, NEW value \in Metric,
         fit'.watched = Append(fit.watched, value),
         IF Saves(value) THEN best' = value /\ saved' = value ELSE UNCHANGED <<best, saved>>
  PROVE  SavedFollows'
<1> DEFINE h == fit.watched
           h1 == fit'.watched
<1>1. /\ h \in Seq(Metric) /\ Len(h) \in Nat /\ h1 = Append(h, value)
      /\ Len(h1) = Len(h) + 1 /\ h1 \in Seq(Metric) /\ h1[Len(h) + 1] = value
      /\ DOMAIN h = 1 .. Len(h) /\ DOMAIN h1 = 1 .. Len(h1)
      /\ \A i \in 1 .. Len(h) : h1[i] = h[i]
  BY DEF KerasInv, KerasType
<1> SUFFICES ASSUME \A i \in DOMAIN h1 : h1[i] # NaN
             PROVE  saved' = best' /\ LeastOf(h1, Len(h1), best')
  BY DEF SavedFollows
<1>2. saved = best /\ LeastOf(h, Len(h), best) /\ best \in Metric /\ value # NaN
  BY <1>1 DEF KerasInv, KerasType, SavedFollows
<1> HIDE DEF h, h1
<1>3. best # NaN /\ best \in Int /\ value \in Int
  <2>1. Metric \subseteq Int
    BY MetricOrder
  <2> QED BY <1>1, <1>2, <2>1, MetricOrder DEF LeastOf
<1>4. Saves(value) <=> value < best
  BY <1>2, <1>3 DEF Saves, AtLeast
<1>5. LeastOf(h1, Len(h), best)
  <2>1. Len(h) \in 0 .. Len(h)
    BY <1>1
  <2> QED BY <1>1, <1>2, <2>1, Appended
<1>6. LeastOf(h1, Len(h1), IF value # NaN /\ value < best THEN value ELSE best)
  <2>1. Len(h) \in 0 .. Len(h1) - 1
    BY <1>1
  <2> QED BY <1>1, <1>2, <1>5, <2>1, LeastOfOneMore
<1> QED BY <1>2, <1>4, <1>6

LEMMA FitKept ==
  ASSUME KerasInv, NEW n \in 0 .. MaxEpochs, NEW v \in BOOLEAN, Fit(n, v)
  PROVE  KerasInv'
<1> DEFINE started == [state |-> IF n = 0 THEN "done" ELSE "running", epochs |-> n,
                       validates |-> v, watched |-> <<>>,
                       fresh |-> early = FreshEarly, freshBest |-> best = Inf]
<1>1. fit' = started /\ saved' = Inf /\ UNCHANGED <<early, best>>
  BY DEF Fit
<1>2. /\ fit'.watched = <<>> /\ fit'.state \in {"done", "running"}
      /\ fit'.fresh = (early = FreshEarly) /\ fit'.freshBest = (best = Inf)
      /\ fit' \in [state : {"none", "running", "done", "stopped", "raised"}, epochs : Int,
                   validates : BOOLEAN, watched : Seq(Metric), fresh : BOOLEAN, freshBest : BOOLEAN]
  BY <1>1
<1> HIDE DEF started
<1>3. patience \in Nat \ {0} /\ Inf \in Metric \ {NaN} /\ Inf <= Inf /\ Len(<<>>) = 0 /\ 0 - 0 = 0
  BY MetricOrder DEF Metric
<1>4. LeastOf(<<>>, 0, Inf) /\ Stalls(<<>>, 0, Inf)
  BY <1>3 DEF LeastOf, Stalls
<1>5. KeepsImproving(<<>>, 0)
  BY <1>3 DEF KeepsImproving
<1>6. KerasType'
  BY <1>1, <1>2, <1>3 DEF KerasInv, KerasType
<1>7. fit'.fresh => EarlyFollows' /\ FitFollows'
  <2> SUFFICES ASSUME fit'.fresh PROVE EarlyFollows' /\ FitFollows'
    OBVIOUS
  <2>1. early'.best = Inf /\ early'.counter = 0 /\ ~early'.stop
    BY <1>1, <1>2 DEF FreshEarly
  <2>2. EarlyFollows'
    BY <1>2, <1>3, <1>4, <2>1 DEF EarlyFollows
  <2>3. FitFollows'
    BY <1>2, <1>3, <1>5 DEF FitFollows
  <2> QED BY <2>2, <2>3
<1>8. fit'.freshBest => SavedFollows'
  BY <1>1, <1>2, <1>3, <1>4 DEF SavedFollows
<1> QED BY <1>6, <1>7, <1>8 DEF KerasInv

LEMMA EpochKept ==
  ASSUME KerasInv, NEW loss \in Values, NEW valLoss \in Values, Epoch(loss, valLoss)
  PROVE  KerasInv'
<1> DEFINE value == IF monitor = "loss" THEN loss ELSE IF fit.validates THEN valLoss ELSE Inf
           watched == Append(fit.watched, value)
           state == CASE early'.stop -> "stopped"
                      [] ~early'.stop /\ Len(watched) = fit.epochs -> "done"
                      [] OTHER -> "running"
<1>1. /\ fit.state = "running"
      /\ early' = EarlyOnEpochEnd(early, value)
      /\ IF Saves(value) THEN best' = value /\ saved' = value ELSE UNCHANGED <<best, saved>>
      /\ fit' = [fit EXCEPT !.watched = watched, !.state = state]
  BY DEF Epoch
<1>2. value \in Metric
  BY DEF Values, Metric
<1> HIDE DEF value
<1>3. early' \in [best : Metric \ {NaN}, counter : Nat, stop : BOOLEAN]
  <2>1. early \in [best : Metric \ {NaN}, counter : Nat, stop : BOOLEAN]
    BY DEF KerasInv, KerasType
  <2>2. LessThan(value, Lowered(early.best)) => value \in Metric \ {NaN}
    BY <1>2 DEF LessThan
  <2> DEFINE stop == early.stop \/ early.counter + 1 >= patience
  <2>3. stop \in BOOLEAN /\ early.counter + 1 \in Nat
    BY <2>1
  <2>4. early' = IF LessThan(value, Lowered(early.best))
                 THEN [early EXCEPT !.best = value, !.counter = 0]
                 ELSE [early EXCEPT !.counter = early.counter + 1, !.stop = stop]
    BY <1>1 DEF EarlyOnEpochEnd
  <2> HIDE DEF stop
  <2> QED BY <2>1, <2>2, <2>3, <2>4
<1>4. /\ state \in {"stopped", "done", "running"}
      /\ early'.stop => state = "stopped"
      /\ ~early'.stop => state # "stopped"
  BY <1>3
<1>5. watched \in Seq(Metric)
  BY <1>2 DEF KerasInv, KerasType
<1> HIDE DEF state, watched
<1>6. /\ fit' \in [state : {"none", "running", "done", "stopped", "raised"}, epochs : Int,
                   validates : BOOLEAN, watched : Seq(Metric), fresh : BOOLEAN, freshBest : BOOLEAN]
      /\ fit'.watched = watched /\ fit'.state = state
      /\ fit'.fresh = fit.fresh /\ fit'.freshBest = fit.freshBest
  BY <1>1, <1>4, <1>5 DEF KerasInv, KerasType
<1>7. KerasType'
  BY <1>1, <1>2, <1>3, <1>6 DEF KerasInv, KerasType
<1>8. fit.fresh => (fit'.state = "running" => EarlyFollows') /\ FitFollows'
  BY <1>1, <1>2, <1>4, <1>6, EarlySteps DEF watched
<1>9. fit.freshBest => SavedFollows'
  BY <1>1, <1>2, <1>6, SavedSteps DEF watched
<1> QED BY <1>6, <1>7, <1>8, <1>9 DEF KerasInv

LEMMA KerasKept == ASSUME KerasInv, [KerasNext]_kerasVars PROVE KerasInv'
<1>1. CASE UNCHANGED <<early, best, saved, fit>>
  BY <1>1 DEF KerasInv, KerasType, EarlyFollows, FitFollows, SavedFollows
<1>2. CASE EpochRaises
  <2>1. /\ fit' \in [state : {"none", "running", "done", "stopped", "raised"}, epochs : Int,
                     validates : BOOLEAN, watched : Seq(Metric), fresh : BOOLEAN, freshBest : BOOLEAN]
        /\ fit.state = "running" /\ fit'.state = "raised" /\ fit'.watched = fit.watched
        /\ fit'.fresh = fit.fresh /\ fit'.freshBest = fit.freshBest
        /\ UNCHANGED <<early, best, saved>>
    BY <1>2 DEF EpochRaises, KerasInv, KerasType
  <2> QED BY <2>1 DEF KerasInv, KerasType, FitFollows, SavedFollows
<1>3. CASE ResetEarly
  <2>1. FreshEarly \in [best : Metric \ {NaN}, counter : Nat, stop : BOOLEAN]
    BY MetricOrder DEF FreshEarly, Metric
  <2>2. fit.state # "running" /\ early' = FreshEarly /\ UNCHANGED <<best, saved, fit>>
    BY <1>3 DEF ResetEarly, Idle
  <2> QED BY <2>1, <2>2 DEF KerasInv, KerasType, FitFollows, SavedFollows
<1>4. CASE \E n \in 0..MaxEpochs, v \in BOOLEAN : Fit(n, v)
  BY <1>4, FitKept
<1>5. CASE \E l, v \in Values : Epoch(l, v)
  BY <1>5, EpochKept
<1>6. CASE Compile \/ (\E r \in BOOLEAN : Predict(r)) \/ UNCHANGED kerasVars
  <2>1. UNCHANGED <<early, best, saved, fit>>
    BY <1>6 DEF Compile, Predict, kerasVars
  <2> QED BY <1>1, <2>1
<1> QED BY <1>2, <1>3, <1>4, <1>5, <1>6 DEF KerasNext

LEMMA KerasHolds == KerasSpec => []KerasInv
<1>1. KerasInit => KerasInv
  <2> SUFFICES ASSUME KerasInit PROVE KerasInv
    OBVIOUS
  <2>1. Inf \in Metric \ {NaN} /\ fit.fresh = FALSE /\ fit.freshBest = FALSE
    BY MetricOrder DEF KerasInit, Metric
  <2>2. KerasType
    BY <2>1 DEF KerasInit, KerasType, FreshEarly
  <2> QED BY <2>1, <2>2 DEF KerasInv
<1> QED BY <1>1, KerasKept, PTL DEF KerasSpec

(***************************************************************************)
(* Whatever the losses, nan included, a fit with a new or reset            *)
(* EarlyStopping is stopped exactly when it has stalled.                   *)
(***************************************************************************)
THEOREM StopsExactlyWhenStalled == KerasSpec => []StopsWhenStalled
<1>1. ASSUME KerasInv PROVE StopsWhenStalled
  <2> DEFINE h == fit.watched
             earlier == IF fit.state = "stopped" THEN Len(h) - 1 ELSE Len(h)
             start == Len(h) - patience
  <2> SUFFICES ASSUME fit.fresh
               PROVE  /\ fit.state = "stopped" =>
                           /\ start >= 0
                           /\ \A v \in ToSet(Window(h, start + 1)) :
                                ~LessThan(v, Lowered(Least(SubSeq(h, 1, start))))
                      /\ \A i \in 1 .. earlier - patience + 1 :
                           \E k \in i .. i + patience - 1 : LessThan(h[k], Least(SubSeq(h, 1, k - 1)))
    BY DEF StopsWhenStalled
  <2>1. h \in Seq(Metric) /\ Len(h) \in Nat /\ patience \in Nat \ {0} /\ FitFollows
    BY <1>1, MetricOrder DEF KerasInv, KerasType
  <2> HIDE DEF h
  <2>2. ASSUME fit.state = "stopped"
        PROVE  start >= 0 /\ \A v \in ToSet(Window(h, start + 1)) :
                                ~LessThan(v, Lowered(Least(SubSeq(h, 1, start))))
    <3>1. PICK b \in Metric \ {NaN} : LeastOf(h, start, b) /\ Stalls(h, start, b)
      BY <2>1, <2>2 DEF FitFollows, h
    <3>2. start \in 0 .. Len(h)
      BY <2>1, <2>2 DEF FitFollows, h
    <3>3. Least(SubSeq(h, 1, start)) = b
      BY <2>1, <3>1, <3>2, LeastIs
    <3>4. ASSUME NEW v \in ToSet(Window(h, start + 1)) PROVE ~LessThan(v, Lowered(b))
      <4>1. start + 1 + patience - 1 = Len(h) /\ start + 1 \in Int
        BY <2>1
      <4>2. PICK i \in DOMAIN SubSeq(h, start + 1, Len(h)) : v = SubSeq(h, start + 1, Len(h))[i]
        BY <4>1 DEF Window, ToSet
      <4>3. i + start \in start + 1 .. Len(h) /\ v = h[i + start]
        BY <2>1, <3>2, <4>2
      <4> QED BY <3>1, <4>3 DEF Stalls
    <3> QED BY <2>1, <3>2, <3>3, <3>4
  <2>3. KeepsImproving(h, earlier) /\ earlier <= Len(h) /\ earlier \in Int
    BY <2>1 DEF FitFollows, h
  <2>4. ASSUME NEW i \in 1 .. earlier - patience + 1
        PROVE  \E k \in i .. i + patience - 1 : LessThan(h[k], Least(SubSeq(h, 1, k - 1)))
    <3>1. PICK k \in i .. i + patience - 1 : Improves(h, k)
      BY <2>3 DEF KeepsImproving
    <3>2. k \in 1 .. Len(h)
      BY <2>1, <2>3
    <3> QED BY <2>1, <3>1, <3>2, ImprovesOnLeast
  <2> QED BY <2>2, <2>4
<1> QED BY <1>1, KerasHolds, PTL

(***************************************************************************)
(* The epoch that a new ModelCheckpoint saved last is the best of the fit, *)
(* as long as none ended with nan.                                         *)
(***************************************************************************)
THEOREM SavedEpochIsBest == KerasSpec => []SavedIsBest
<1>1. ASSUME KerasInv PROVE SavedIsBest
  <2> DEFINE h == fit.watched
  <2> SUFFICES ASSUME fit.freshBest, NaN \notin ToSet(h) PROVE saved = Least(h)
    BY DEF SavedIsBest
  <2>1. h \in Seq(Metric) /\ Len(h) \in 0 .. Len(h) /\ SubSeq(h, 1, Len(h)) = h
    BY <1>1 DEF KerasInv, KerasType
  <2>2. saved = best /\ LeastOf(h, Len(h), best)
    BY <1>1 DEF KerasInv, SavedFollows, ToSet
  <2> HIDE DEF h
  <2> QED BY <2>1, <2>2, LeastIs
<1> QED BY <1>1, KerasHolds, PTL

-----------------------------------------------------------------------------
(***************************************************************************)
(* The runner connectors, for any models, versions and endpoints, and      *)
(* servers that change as often as they like.                              *)
(***************************************************************************)

RunnersSpec == RunnersInit /\ [][RunnersNext]_runnerVars

RunnersType ==
  /\ kind \in Kinds
  /\ client \in [url : Endpoints \union Malformed, http : Endpoints \union {None},
                 connected : BOOLEAN, sessions : [Models -> UNION {Endpoints \X Nat, {None}}]]
  /\ server \in [Endpoints -> ServerStates] /\ DOMAIN shelf = Endpoints

\* The open client, or every open session, is of an endpoint the caller is
\* connected to.
ClientAtTarget ==
  /\ kind # "onnx" /\ client.http # None => targets = {client.http}
  /\ kind = "onnx" =>
       /\ client.url \in targets
       /\ \A m \in Models : client.sessions[m] # None => client.sessions[m][1] \in targets

\* Of what was reported as loaded by a server that was up there is a session
\* or a version.
LoadedAnswers ==
  \A m \in Models :
    <<m, "up">> \in loaded =>
      IF kind = "onnx" THEN client.sessions[m] # None
      ELSE client.http # None /\ VersionsOf(client.http, m) # {}

RunnersInv ==
  /\ RunnersType
  /\ ClientAtTarget
  /\ LoadedAnswers
  /\ AnswersFromTheEndpoint
  /\ LoadedIsServed

-----------------------------------------------------------------------------
(***************************************************************************)
(* The tables of the classes.                                              *)
(***************************************************************************)

LEMMA KindIs == ASSUME RunnersType PROVE kind \in {"kserve", "tf_serving", "openai", "triton", "onnx"}
BY RunnersAssumption DEF RunnersAssumption, RunnersType

LEMMA V2InferIs ==
  \A r \in Replies : V2Infer[r] = IF r = "404" THEN "NotFound" ELSE IF r = "200" THEN "Answer"
                                  ELSE "InferenceError"
BY DEF V2Infer, Only, Replies

LEMMA StubIs == Stub["infer"] = "RunnerError" /\ \A op \in DOMAIN Stub : Stub[op] # "Answer"
BY DEF Stub

LEMMA ReplyIsKnown == ASSUME NEW e, NEW op, NEW m, NEW v PROVE Reply(e, op, m, v) \in Replies
BY DEF Reply, Replies

\* Only infer of a KServe or TF Serving model answers, and on a 200 alone.
LEMMA AnswerMeans200 ==
  ASSUME kind \in {"kserve", "tf_serving"}, NEW op \in DOMAIN Class[kind], NEW r \in Replies,
         Class[kind][op][r] = "Answer"
  PROVE  op = "infer" /\ r = "200"
<1>1. Class[kind] = IF kind = "kserve" THEN KServe ELSE TfServing
  BY DEF Class
<1>2. op \in {"health", "load_model", "infer", "model_info"}
  BY <1>1 DEF KServe, TfServing
<1>3. op # "infer" => Class[kind][op][r] # "Answer"
  BY <1>1, <1>2 DEF KServe, TfServing, Only
<1>4. Class[kind]["infer"][r] = V2Infer[r]
  BY <1>1 DEF KServe, TfServing
<1> QED BY <1>3, <1>4, V2InferIs

\* infer finds no model on a 404 only, and with Triton never.
LEMMA NotFoundMeans404 ==
  ASSUME kind \in {"kserve", "tf_serving", "openai", "triton"}, NEW r \in Replies,
         Class[kind]["infer"][r] = "NotFound"
  PROVE  kind # "triton" /\ r = "404"
<1>1. kind = "triton" => Class[kind]["infer"][r] \in {"Answer", "InferenceError"}
  BY DEF Class, Triton, Only
<1>2. kind # "triton" => Class[kind]["infer"][r] = V2Infer[r]
  BY DEF Class, KServe, TfServing, OpenAI
<1> QED BY <1>1, <1>2, V2InferIs

\* A server that is up, and has a list, reports what it has and no more.
LEMMA LoadedIsThere ==
  ASSUME kind \in {"kserve", "tf_serving", "openai", "triton"}, NEW e \in Endpoints, NEW m, NEW v,
         AnsweredBy(e) = "up", Class[kind].load_model[Reply(e, "load_model", m, v)] = "Ok"
  PROVE  VersionsOf(e, m) # {}
<1> SUFFICES ASSUME VersionsOf(e, m) = {} PROVE FALSE
  OBVIOUS
<1>1. server[e] = "up" /\ ~(kind = "openai" /\ shelf[e] = {})
  BY DEF AnsweredBy
<1>2. Reply(e, "load_model", m, v) = IF kind = "openai" THEN "200-unlisted" ELSE "404"
  BY <1>1 DEF Reply
<1>3. CASE kind = "openai"
  <2>1. Class[kind].load_model["200-unlisted"] = "NotFound"
    BY <1>3 DEF Class, OpenAI, Only, Replies
  <2> QED BY <1>2, <1>3, <2>1
<1>4. CASE kind # "openai"
  <2>1. Class[kind].load_model["404"] = "NotFound"
    BY <1>4 DEF Class, KServe, TfServing, Triton, Only, Replies
  <2> QED BY <1>2, <1>4, <2>1
<1> QED BY <1>3, <1>4

\* It answers infer with a 404 only for a version it does not have.
LEMMA ThereIsFound ==
  ASSUME NEW e, NEW m, NEW v, VersionsOf(e, m) # {}, server[e] \in ServerStates, Reply(e, "infer", m, v) = "404"
  PROVE  kind \in {"kserve", "tf_serving"} /\ v > 0
<1>1. server[e] = "up" /\ VersionsOf(e, m) \intersect Wanted("infer", m, v) = {}
  BY DEF Reply, ServerStates
<1>2. VersionsOf(e, m) \subseteq Versions
  BY DEF VersionsOf
<1> QED BY <1>1, <1>2 DEF Wanted

-----------------------------------------------------------------------------
(***************************************************************************)
(* The steps.                                                              *)
(***************************************************************************)

LEMMA CallSteps ==
  ASSUME RunnersInv, NEW op \in DOMAIN Stub, NEW m \in Models, NEW v \in Versions, Call(op, m, v)
  PROVE  RunnersInv'
<1> DEFINE e == client.http
           r == Reply(e, op, m, v)
           got == IF Reaches(op) THEN Class[kind][op][r] ELSE Stub[op]
           answers == VersionsOf(e, m) \intersect Wanted(op, m, v)
           from == IF got = "Answer" THEN <<e, Max(answers)>> ELSE None
<1>1. /\ kind # "onnx" /\ op \in DOMAIN Class[kind]
      /\ last' = [op |-> op, model |-> m, version |-> v, result |-> got, from |-> from]
      /\ loaded' = IF op = "load_model" /\ got = "Ok" /\ Reaches(op)
                   THEN loaded \union {<<m, AnsweredBy(e)>>} ELSE loaded
      /\ UNCHANGED <<kind, libs, preferGrpc, client, server, shelf, changes, targets>>
  BY DEF Call, Returned
<1>2. RunnersType /\ RunnersType' /\ ClientAtTarget /\ ClientAtTarget'
  BY <1>1 DEF RunnersInv, RunnersType, ClientAtTarget
<1>3. kind \in {"kserve", "tf_serving", "openai", "triton"}
  BY <1>1, <1>2, KindIs
<1>4. r \in Replies
  BY ReplyIsKnown
<1>5. Reaches(op) => e \in Endpoints /\ targets = {e}
  BY <1>1, <1>2 DEF Reaches, RunnersType, ClientAtTarget
<1>6. LoadedAnswers'
  <2>1. \A n : VersionsOf(e, n)' = VersionsOf(e, n)
    BY <1>1 DEF VersionsOf
  <2>2. SUFFICES ASSUME NEW n \in Models, <<n, "up">> \in loaded'
                 PROVE  e # None /\ VersionsOf(e, n) # {}
    BY <1>1, <2>1 DEF LoadedAnswers
  <2>3. CASE <<n, "up">> \in loaded
    BY <1>1, <2>3 DEF RunnersInv, LoadedAnswers
  <2>4. CASE <<n, "up">> \notin loaded
    <3>1. n = m /\ AnsweredBy(e) = "up" /\ op = "load_model" /\ got = "Ok" /\ Reaches(op)
      BY <1>1, <2>2, <2>4
    <3>2. Class[kind].load_model[Reply(e, "load_model", m, v)] = "Ok"
      BY <3>1
    <3> QED BY <1>3, <1>5, <3>1, <3>2, LoadedIsThere DEF Reaches
  <2> QED BY <2>3, <2>4
<1> HIDE DEF r
<1>7. AnswersFromTheEndpoint'
  <2> SUFFICES ASSUME got = "Answer"
               PROVE  /\ from[1] \in targets
                      /\ kind \in {"kserve", "tf_serving"} /\ v > 0 => from[2] = v
    BY <1>1 DEF AnswersFromTheEndpoint
  <2>1. Reaches(op) /\ Class[kind][op][r] = "Answer" /\ from = <<e, Max(answers)>>
    BY StubIs
  <2>2. from[1] \in targets
    BY <1>5, <2>1
  <2>3. ASSUME kind \in {"kserve", "tf_serving"}, v > 0 PROVE from[2] = v
    <3>1. op = "infer" /\ r = "200"
      BY <1>1, <1>4, <2>1, <2>3, AnswerMeans200
    <3>2. Wanted(op, m, v) = {v}
      BY <2>3, <3>1 DEF Wanted
    <3>3. answers # {}
      BY <3>1, <2>3 DEF Reply, r
    <3>4. answers = {v} /\ v \in Nat
      BY <3>2, <3>3, RunnersAssumption DEF RunnersAssumption
    <3>5. Max(answers) = v
      BY <3>4, MaxIs
    <3> QED BY <2>1, <3>5
  <2> QED BY <2>2, <2>3
<1>8. LoadedIsServed'
  <2> SUFFICES ASSUME op = "infer", got = "NotFound", <<m, "up">> \in loaded'
               PROVE  kind \in {"kserve", "tf_serving"} /\ v > 0
    BY <1>1 DEF LoadedIsServed
  <2>1. <<m, "up">> \in loaded
    BY <1>1
  <2>2. Reaches(op) /\ Class[kind]["infer"][r] = "NotFound"
    BY StubIs
  <2>3. Reply(e, "infer", m, v) = "404"
    BY <1>3, <1>4, <2>2, NotFoundMeans404 DEF r
  <2>4. VersionsOf(e, m) # {} /\ server[e] \in ServerStates
    BY <1>1, <1>2, <1>5, <2>1, <2>2 DEF RunnersInv, LoadedAnswers, RunnersType
  <2> HIDE DEF e
  <2> QED BY <2>3, <2>4, ThereIsFound
<1> QED BY <1>2, <1>6, <1>7, <1>8 DEF RunnersInv

LEMMA ChangeSteps ==
  ASSUME RunnersInv, NEW e \in Endpoints, Change(e)
  PROVE  RunnersInv'
<1>1. loaded' \subseteq loaded /\ UNCHANGED <<kind, libs, preferGrpc, client, last, targets>>
  BY DEF Change
<1>2. server' \in [Endpoints -> ServerStates]
  <2>1. server \in [Endpoints -> ServerStates]
    BY DEF RunnersInv, RunnersType
  <2>2. server' = server \/ \E s \in ServerStates : server' = [server EXCEPT ![e] = s]
    BY DEF Change
  <2> QED BY <2>1, <2>2
<1>3. RunnersType' /\ ClientAtTarget' /\ AnswersFromTheEndpoint' /\ LoadedIsServed'
  <2>1. DOMAIN shelf' = Endpoints
    BY DEF Change, RunnersInv, RunnersType
  <2> QED BY <1>1, <1>2, <2>1 DEF RunnersInv, RunnersType, ClientAtTarget, AnswersFromTheEndpoint, LoadedIsServed
<1>4. LoadedAnswers'
  <2>1. SUFFICES ASSUME NEW n \in Models, <<n, "up">> \in loaded', kind # "onnx"
                 PROVE  client.http # None /\ VersionsOf(client.http, n)' # {}
    <3>1. ASSUME kind = "onnx" PROVE LoadedAnswers'
      BY <1>1, <3>1 DEF RunnersInv, LoadedAnswers
    <3> QED BY <1>1, <2>1, <3>1 DEF LoadedAnswers
  <2>2. client.http # None /\ VersionsOf(client.http, n) # {}
    BY <1>1, <2>1 DEF RunnersInv, LoadedAnswers
  <2>3. CASE UNCHANGED shelf
    BY <1>1, <2>2, <2>3 DEF VersionsOf
  <2>4. ASSUME NEW m \in Models, NEW v \in Versions, shelf' = [shelf EXCEPT ![e] = SymDiff(@, {<<m, v>>})],
               loaded' = {l \in loaded : ~(/\ kind # "onnx" /\ client.http = e
                                          /\ l[1] = m /\ VersionsOf(e, m) = {v})}
        PROVE  VersionsOf(client.http, n)' # {}
    <3>1. CASE client.http # e
      <4>1. client.http' = client.http /\ shelf'[client.http] = shelf[client.http]
        BY <1>1, <2>4, <3>1
      <4> QED BY <2>2, <4>1 DEF VersionsOf
    <3>2. CASE client.http = e
      <4>1. ~(n = m /\ VersionsOf(e, m) = {v})
        BY <2>1, <2>4, <3>2
      <4>2. PICK w \in VersionsOf(e, n) : <<n, w>> # <<m, v>>
        BY <2>2, <3>2, <4>1
      <4>3. w \in Versions /\ <<n, w>> \in shelf[e]
        BY <4>2 DEF VersionsOf
      <4>4. shelf'[e] = SymDiff(shelf[e], {<<m, v>>})
        BY <2>4 DEF RunnersInv, RunnersType
      <4>5. <<n, w>> \in shelf'[e]
        BY <4>2, <4>3, <4>4 DEF SymDiff
      <4> QED BY <1>1, <3>2, <4>3, <4>5 DEF VersionsOf
    <3> QED BY <3>1, <3>2
  <2> QED BY <2>2, <2>3, <2>4 DEF Change
<1> QED BY <1>3, <1>4 DEF RunnersInv

LEMMA ConnectSteps ==
  ASSUME RunnersInv, NEW given \in Endpoints \union Malformed \union {None}, Connect(given)
  PROVE  RunnersInv'
<1> DEFINE e == IF given = None THEN client.url ELSE given
           fails == e \in Malformed /\ Installed
           http == CASE fails -> client.http [] ~Installed -> None [] OTHER -> e
           connected == client.connected \/ (~fails /\ kind \in {"kserve", "tf_serving"})
<1>1. /\ kind # "onnx"
      /\ client' = [client EXCEPT !.url = e, !.http = http, !.connected = connected]
      /\ targets' = CASE fails -> targets [] ~Installed -> {} [] OTHER -> {e}
      /\ loaded' = IF fails THEN loaded ELSE {}
      /\ last'.op = "connect" /\ last'.result # "Answer"
      /\ UNCHANGED <<kind, libs, preferGrpc, server, shelf, changes>>
  BY DEF Connect, Returned
<1>2. /\ client \in [url : Endpoints \union Malformed, http : Endpoints \union {None},
                     connected : BOOLEAN, sessions : [Models -> UNION {Endpoints \X Nat, {None}}]]
      /\ kind \in Kinds /\ server \in [Endpoints -> ServerStates] /\ DOMAIN shelf = Endpoints
      /\ client.http # None => targets = {client.http}
  BY <1>1 DEF RunnersInv, RunnersType, ClientAtTarget
<1>3. e \in Endpoints \union Malformed /\ http \in Endpoints \union {None}
  BY <1>2
<1>4. connected \in BOOLEAN
  BY <1>2
<1>5. /\ http # None => targets' = {http}
      /\ fails => http = client.http
  BY <1>1, <1>2
<1> HIDE DEF e, http, connected, fails
<1>6. RunnersType' /\ client'.http = http
  BY <1>1, <1>2, <1>3, <1>4 DEF RunnersType
<1>7. ClientAtTarget'
  BY <1>1, <1>5, <1>6 DEF ClientAtTarget
<1>8. LoadedAnswers'
  <2>1. CASE ~fails
    BY <1>1, <2>1 DEF LoadedAnswers
  <2>2. CASE fails
    <3>1. loaded' = loaded /\ client'.http = client.http
      BY <1>1, <1>5, <1>6, <2>2
    <3>2. \A m : VersionsOf(client.http, m)' = VersionsOf(client.http, m)
      BY <1>1, <3>1 DEF VersionsOf
    <3> QED BY <1>1, <3>1, <3>2 DEF RunnersInv, LoadedAnswers
  <2> QED BY <2>1, <2>2
<1>9. AnswersFromTheEndpoint' /\ LoadedIsServed'
  BY <1>1 DEF AnswersFromTheEndpoint, LoadedIsServed
<1> QED BY <1>6, <1>7, <1>8, <1>9 DEF RunnersInv

LEMMA DisconnectSteps ==
  ASSUME RunnersInv, Disconnect \/ OnnxDisconnect
  PROVE  RunnersInv'
<1>1. /\ client' = IF kind # "onnx" THEN [client EXCEPT !.http = None, !.connected = FALSE]
                   ELSE [client EXCEPT !.connected = FALSE, !.sessions = Nothing]
      /\ kind # "onnx" \/ targets' = {client.url}
      /\ loaded' = {}
      /\ last'.op = "disconnect" /\ last'.result # "Answer"
      /\ UNCHANGED <<kind, libs, preferGrpc, server, shelf, changes>>
  BY DEF Disconnect, OnnxDisconnect, Disconnected, OnnxDisconnected, Returned
<1>2. Nothing \in [Models -> UNION {Endpoints \X Nat, {None}}] /\ \A m \in Models : Nothing[m] = None
  BY DEF Nothing
<1>3. RunnersType'
  BY <1>1, <1>2 DEF RunnersInv, RunnersType
<1>4. ClientAtTarget'
  BY <1>1, <1>2 DEF RunnersInv, RunnersType, ClientAtTarget
<1>5. LoadedAnswers' /\ AnswersFromTheEndpoint' /\ LoadedIsServed'
  BY <1>1 DEF LoadedAnswers, AnswersFromTheEndpoint, LoadedIsServed
<1> QED BY <1>3, <1>4, <1>5 DEF RunnersInv

LEMMA OnnxConnectSteps ==
  ASSUME RunnersInv, NEW given \in Endpoints \union Malformed \union {None}, OnnxConnect(given)
  PROVE  RunnersInv'
<1> DEFINE e == IF given = None THEN client.url ELSE given
<1>1. /\ kind = "onnx"
      /\ client' = [client EXCEPT !.url = e, !.connected = TRUE]
      /\ targets' = targets \union {e}
      /\ last'.op = "connect" /\ last'.result # "Answer"
      /\ UNCHANGED <<kind, libs, preferGrpc, server, shelf, changes, loaded>>
  BY DEF OnnxConnect, Returned
<1>2. e \in Endpoints \union Malformed
  BY DEF RunnersInv, RunnersType
<1> HIDE DEF e
<1>3. RunnersType' /\ client'.url = e /\ client'.sessions = client.sessions
  BY <1>1, <1>2 DEF RunnersInv, RunnersType
<1>4. ClientAtTarget'
  BY <1>1, <1>3 DEF RunnersInv, ClientAtTarget
<1>5. LoadedAnswers'
  BY <1>1, <1>3 DEF RunnersInv, LoadedAnswers
<1>6. AnswersFromTheEndpoint' /\ LoadedIsServed'
  BY <1>1 DEF AnswersFromTheEndpoint, LoadedIsServed
<1> QED BY <1>3, <1>4, <1>5, <1>6 DEF RunnersInv

\* A model that is found is a file of the directory the client is at.
LEMMA ResolvedIsThere ==
  ASSUME RunnersType, NEW m, NEW v, Resolved(m, v) # None
  PROVE  Resolved(m, v) \in Endpoints \X Nat /\ Resolved(m, v)[1] = client.url
<1> DEFINE found == VersionsOf(client.url, m) \intersect {v, 0}
<1>1. client.url \in Endpoints /\ found # {} /\ Resolved(m, v) = <<client.url, Max(found)>>
  BY DEF Resolved
<1>2. Max(found) \in Nat
  <2>1. found \subseteq Nat
    BY RunnersAssumption DEF RunnersAssumption, VersionsOf
  <2>2. found \subseteq {v, 0}
    OBVIOUS
  <2> HIDE DEF found
  <2>3. \E x \in found : \A y \in found : y <= x
    <3>1. CASE v \in found
      <4>1. \A y \in found : y <= v
        BY <2>1, <2>2, <3>1
      <4> QED BY <3>1, <4>1
    <3>2. CASE v \notin found
      <4>1. found = {0}
        BY <1>1, <2>2, <3>2
      <4> QED BY <4>1
    <3> QED BY <3>1, <3>2
  <2> QED BY <2>1, <2>3 DEF Max
<1> QED BY <1>1, <1>2

\* A session is opened for m with a file of that directory, or is kept.
LEMMA Opened ==
  ASSUME RunnersInv, kind = "onnx", NEW m \in Models, NEW file, file # None,
         (file \in Endpoints \X Nat /\ file[1] = client.url) \/ file = client.sessions[m],
         client' = [client EXCEPT !.sessions[m] = file],
         UNCHANGED <<kind, server, shelf, targets>>
  PROVE  /\ RunnersType' /\ ClientAtTarget' /\ file[1] \in targets
         /\ client'.sessions[m] # None
         /\ \A n \in Models : client.sessions[n] # None => client'.sessions[n] # None
<1>1. /\ client.sessions \in [Models -> UNION {Endpoints \X Nat, {None}}]
      /\ client \in [url : Endpoints \union Malformed, http : Endpoints \union {None},
                     connected : BOOLEAN, sessions : [Models -> UNION {Endpoints \X Nat, {None}}]]
      /\ client.url \in targets
      /\ \A n \in Models : client.sessions[n] # None => client.sessions[n][1] \in targets
  BY DEF RunnersInv, RunnersType, ClientAtTarget
<1>2. file \in UNION {Endpoints \X Nat, {None}} /\ file[1] \in targets
  BY <1>1
<1>3. /\ client' = [client EXCEPT !.sessions = [client.sessions EXCEPT ![m] = file]]
      /\ [client.sessions EXCEPT ![m] = file] \in [Models -> UNION {Endpoints \X Nat, {None}}]
  BY <1>1, <1>2
<1>4. /\ client'.sessions = [client.sessions EXCEPT ![m] = file] /\ client'.url = client.url
      /\ client' \in [url : Endpoints \union Malformed, http : Endpoints \union {None},
                     connected : BOOLEAN, sessions : [Models -> UNION {Endpoints \X Nat, {None}}]]
  BY <1>1, <1>3
<1>5. RunnersType'
  BY <1>4 DEF RunnersInv, RunnersType
<1>6. \A n \in Models : client'.sessions[n] = IF n = m THEN file ELSE client.sessions[n]
  BY <1>1, <1>4
<1>7. ClientAtTarget'
  BY <1>1, <1>2, <1>4, <1>6 DEF ClientAtTarget
<1> QED BY <1>2, <1>5, <1>6, <1>7

LEMMA OnnxLoadSteps ==
  ASSUME RunnersInv, NEW m \in Models, NEW v \in Versions, OnnxLoad(m, v)
  PROVE  RunnersInv'
<1>1. PICK got : /\ Installed => got \in Loads(m, v)
                 /\ LET opened == Installed /\ got = "Ok"
                    IN /\ client' = IF opened THEN [client EXCEPT !.sessions[m] = Resolved(m, v)] ELSE client
                       /\ loaded' = IF opened THEN loaded \union {<<m, "up">>} ELSE loaded
                 /\ last' = [op |-> "load_model", model |-> m, version |-> v, result |-> got, from |-> None]
                 /\ got # "Answer"
  BY DEF OnnxLoad, Returned, Loads
<1>2. kind = "onnx" /\ UNCHANGED <<kind, libs, preferGrpc, server, shelf, changes, targets>>
  BY DEF OnnxLoad
<1>3. AnswersFromTheEndpoint' /\ LoadedIsServed'
  BY <1>1 DEF AnswersFromTheEndpoint, LoadedIsServed
<1>4. CASE Installed /\ got = "Ok"
  <2>1. Resolved(m, v) # None
    BY <1>1, <1>4 DEF Loads
  <2>2. Resolved(m, v) \in Endpoints \X Nat /\ Resolved(m, v)[1] = client.url
    BY <2>1, ResolvedIsThere DEF RunnersInv
  <2>3. /\ RunnersType' /\ ClientAtTarget' /\ client'.sessions[m] # None
        /\ \A n \in Models : client.sessions[n] # None => client'.sessions[n] # None
    BY <1>1, <1>2, <1>4, <2>1, <2>2, Opened
  <2>4. LoadedAnswers'
    BY <1>1, <1>2, <1>4, <2>3 DEF RunnersInv, LoadedAnswers
  <2> QED BY <1>3, <2>3, <2>4 DEF RunnersInv
<1>5. CASE ~(Installed /\ got = "Ok")
  <2>1. client' = client /\ loaded' = loaded
    BY <1>1, <1>5
  <2> QED BY <1>2, <1>3, <2>1 DEF RunnersInv, RunnersType, ClientAtTarget, LoadedAnswers
<1> QED BY <1>4, <1>5

LEMMA OnnxInferSteps ==
  ASSUME RunnersInv, NEW m \in Models, NEW v \in Versions, OnnxInfer(m, v)
  PROVE  RunnersInv'
<1>1. kind = "onnx" /\ UNCHANGED <<kind, libs, preferGrpc, server, shelf, changes, targets, loaded>>
  BY DEF OnnxInfer
<1>2. \/ /\ client' = client /\ last'.result # "Answer" /\ last'.model = m
         /\ last'.result = "NotFound" => client.sessions[m] = None
      \/ LET file == IF client.sessions[m] = None THEN Resolved(m, v) ELSE client.sessions[m]
         IN /\ file # None
            /\ client' = [client EXCEPT !.sessions[m] = file]
            /\ last'.result # "NotFound"
            /\ last'.result = "Answer" => last'.from = file
  <2>1. CASE ~Installed /\ Returned("infer", m, v, "RunnerError", None) /\ UNCHANGED client
    BY <2>1 DEF Returned
  <2>2. CASE /\ Session(m) = None /\ UNCHANGED client
             /\ \E got \in Loads(m, v) \ {"Ok"} : Returned("infer", m, v, got, None)
    <3>1. PICK got \in {"NotFound", "RunnerError"} : Returned("infer", m, v, got, None)
      BY <2>2 DEF Loads
    <3>2. last'.result = got /\ last'.model = m
      BY <3>1 DEF Returned
    <3> QED BY <2>2, <3>1, <3>2 DEF Session
  <2>3. CASE LET file == IF Session(m) = None THEN Resolved(m, v) ELSE Session(m)
             IN /\ file # None
                /\ client' = [client EXCEPT !.sessions[m] = file]
                /\ \/ Returned("infer", m, v, "Answer", file)
                   \/ Returned("infer", m, v, "InferenceError", None)
    BY <2>3 DEF Returned, Session
  <2> QED BY <2>1, <2>2, <2>3 DEF OnnxInfer
<1>3. CASE /\ client' = client /\ last'.result # "Answer" /\ last'.model = m
           /\ last'.result = "NotFound" => client.sessions[m] = None
  <2>1. LoadedAnswers /\ (<<m, "up">> \in loaded => client.sessions[m] # None)
    BY <1>1 DEF RunnersInv, LoadedAnswers
  <2>2. AnswersFromTheEndpoint' /\ LoadedIsServed'
    BY <1>1, <1>3, <2>1 DEF AnswersFromTheEndpoint, LoadedIsServed
  <2> QED BY <1>1, <1>3, <2>2 DEF RunnersInv, RunnersType, ClientAtTarget, LoadedAnswers
<1>4. ASSUME NEW file, file = IF client.sessions[m] = None THEN Resolved(m, v) ELSE client.sessions[m],
             file # None, client' = [client EXCEPT !.sessions[m] = file],
             last'.result # "NotFound", last'.result = "Answer" => last'.from = file
      PROVE  RunnersInv'
  <2>1. (file \in Endpoints \X Nat /\ file[1] = client.url) \/ file = client.sessions[m]
    BY <1>4, ResolvedIsThere DEF RunnersInv
  <2>2. /\ RunnersType' /\ ClientAtTarget' /\ file[1] \in targets
        /\ \A n \in Models : client.sessions[n] # None => client'.sessions[n] # None
    BY <1>1, <1>4, <2>1, Opened
  <2>3. LoadedAnswers'
    BY <1>1, <2>2 DEF RunnersInv, LoadedAnswers
  <2>4. AnswersFromTheEndpoint' /\ LoadedIsServed'
    BY <1>1, <1>4, <2>2 DEF AnswersFromTheEndpoint, LoadedIsServed
  <2> QED BY <2>2, <2>3, <2>4 DEF RunnersInv
<1> QED BY <1>2, <1>3, <1>4

LEMMA RunnersKept == ASSUME RunnersInv, [RunnersNext]_runnerVars PROVE RunnersInv'
<1>1. CASE \E op \in DOMAIN Stub, m \in Models, v \in Versions : OnnxReport(op, m, v)
  <2>1. PICK op \in DOMAIN Stub, m \in Models, v \in Versions : OnnxReport(op, m, v)
    BY <1>1
  <2>2. /\ kind = "onnx" /\ last'.op # "infer" /\ last'.result # "Answer"
        /\ UNCHANGED <<kind, libs, preferGrpc, client, server, shelf, changes, targets, loaded>>
    BY <2>1 DEF OnnxReport, Returned
  <2>3. AnswersFromTheEndpoint' /\ LoadedIsServed'
    BY <2>2 DEF AnswersFromTheEndpoint, LoadedIsServed
  <2> QED BY <2>2, <2>3 DEF RunnersInv, RunnersType, ClientAtTarget, LoadedAnswers
<1>2. CASE UNCHANGED runnerVars
  <2>1. \A m : VersionsOf(client.http, m)' = VersionsOf(client.http, m)
    BY <1>2 DEF runnerVars, VersionsOf
  <2> QED BY <1>2, <2>1 DEF runnerVars, RunnersInv, RunnersType, ClientAtTarget, LoadedAnswers,
                            AnswersFromTheEndpoint, LoadedIsServed
<1> QED BY <1>1, <1>2, ChangeSteps, ConnectSteps, DisconnectSteps, OnnxConnectSteps, CallSteps,
           OnnxLoadSteps, OnnxInferSteps DEF RunnersNext

LEMMA RunnersHold == RunnersSpec => []RunnersInv
<1>1. RunnersInit => RunnersInv
  <2> SUFFICES ASSUME RunnersInit PROVE RunnersInv
    OBVIOUS
  <2>1. Nothing \in [Models -> UNION {Endpoints \X Nat, {None}}] /\ \A m \in Models : Nothing[m] = None
    BY DEF Nothing
  <2>2. PICK e \in Endpoints :
          /\ client = [url |-> e, http |-> None, connected |-> FALSE, sessions |-> Nothing]
          /\ targets = IF kind = "onnx" THEN {e} ELSE {}
    BY DEF RunnersInit
  <2>3. /\ kind \in Kinds /\ server \in [Endpoints -> ServerStates] /\ DOMAIN shelf = Endpoints /\ loaded = {}
        /\ last.result # "Answer" /\ last.op # "infer"
    BY DEF RunnersInit, ServerStates, None
  <2>4. RunnersType
    BY <2>1, <2>2, <2>3 DEF RunnersType
  <2>5. ClientAtTarget
    BY <2>1, <2>2 DEF ClientAtTarget
  <2> QED BY <2>3, <2>4, <2>5 DEF RunnersInv, LoadedAnswers, AnswersFromTheEndpoint, LoadedIsServed
<1> QED BY <1>1, RunnersKept, PTL DEF RunnersSpec

(***************************************************************************)
(* Whatever the servers do, nobody gets an answer from an endpoint it is   *)
(* not connected to, nor from another version than the one asked for where *)
(* the class passes it on.                                                 *)
(***************************************************************************)
THEOREM AnswersComeFromTargets == RunnersSpec => []AnswersFromTheEndpoint
<1>1. RunnersInv => AnswersFromTheEndpoint
  BY DEF RunnersInv
<1> QED BY <1>1, RunnersHold, PTL

(***************************************************************************)
(* What load_model reported as loaded, answered by a server that was up    *)
(* and had a list, is there for infer until it is taken away, through any  *)
(* failures of the server and changes of its other models in between.      *)
(***************************************************************************)
THEOREM LoadedModelsAnswer == RunnersSpec => []LoadedIsServed
<1>1. RunnersInv => LoadedIsServed
  BY DEF RunnersInv
<1> QED BY <1>1, RunnersHold, PTL

-----------------------------------------------------------------------------
(***************************************************************************)
(* Tensors, for every shape, every number of dimensions and every sequence *)
(* of operations.  The elements that the first d coordinates of an index   *)
(* leave open are a block of consecutive offsets; from the size of the     *)
(* blocks it follows that an offset and its coordinates determine each     *)
(* other, and that offsets are ordered as the indices are.  Then each      *)
(* operation turns a buffer that holds an array into one that holds the    *)
(* array the operation is defined by.                                      *)
(***************************************************************************)

\* The elements of a block of the first d dimensions' rest: all of them for
\* d = 0, one for the last, and s[d] blocks of d make a block of d - 1.
Block(s) == [d \in 0 .. Len(s) |-> IF d = 0 THEN Product(s) ELSE rowMajorStrides(s)[d]]

\* A product of sizes is a size.
LEMMA ProductInNat ==
  ASSUME NEW s \in Seq(Nat)
  PROVE  Product(s) \in Nat
<1>1. PICK f : f[0] = 1 /\ f[Len(s)] = Product(s) /\ \A k \in 0 .. Len(s)-1 : f[k+1] = f[k] * s[k+1]
  BY ProductSteps
<1> DEFINE T == {k \in 0 .. Len(s) : f[k] \in Nat}
<1>2. 0 \in T /\ Len(s) \in Nat
  BY <1>1
<1>3. ASSUME NEW k \in 0 .. Len(s)-1, k \in T PROVE k + 1 \in T
  <2>1. f[k+1] = f[k] * s[k+1] /\ s[k+1] \in Nat /\ f[k] \in Nat
    BY <1>1, <1>3
  <2>2. f[k] * s[k+1] \in Nat
    BY <2>1, ProductNat
  <2> QED BY <2>1, <2>2
<1> HIDE DEF T
<1>4. 0 .. Len(s) \subseteq T
  BY <1>2, <1>3, IntervalInduction
<1>5. Len(s) \in T
  BY <1>2, <1>4
<1> QED BY <1>1, <1>5 DEF T

\* The first factor of a product can be taken out.
LEMMA ProductFrom ==
  ASSUME NEW u \in Seq(Nat), NEW v \in Seq(Nat), Len(u) = Len(v) + 1,
         \A i \in 1 .. Len(v) : u[i+1] = v[i]
  PROVE  Product(u) = u[1] * Product(v)
<1>1. PICK f : f[0] = 1 /\ f[Len(u)] = Product(u) /\ \A k \in 0 .. Len(u)-1 : f[k+1] = f[k] * u[k+1]
  BY ProductSteps
<1>2. PICK g : g[0] = 1 /\ g[Len(v)] = Product(v) /\ \A k \in 0 .. Len(v)-1 : g[k+1] = g[k] * v[k+1]
  BY ProductSteps
<1> DEFINE n == Len(v)
           T == {k \in 0 .. n : f[k+1] = u[1] * g[k] /\ g[k] \in Nat}
<1>3. n \in Nat /\ Len(u) = n + 1 /\ u[1] \in Nat /\ \A k \in 1 .. n : v[k] \in Nat
  OBVIOUS
<1>4. 0 \in T
  <2>1. f[0+1] = f[0] * u[0+1]
    BY <1>1, <1>3
  <2> QED BY <1>1, <1>2, <1>3, <2>1
<1>5. ASSUME NEW k \in 0 .. n-1, k \in T PROVE k + 1 \in T
  <2>1. f[k+1] = u[1] * g[k] /\ g[k] \in Nat
    BY <1>5
  <2>2. /\ f[(k+1)+1] = f[k+1] * u[(k+1)+1] /\ g[k+1] = g[k] * v[k+1]
        /\ u[(k+1)+1] = v[k+1] /\ v[k+1] \in Nat
    BY <1>1, <1>2, <1>3
  <2>3. f[(k+1)+1] = (u[1] * g[k]) * v[k+1] /\ g[k] * v[k+1] \in Nat
    BY <2>1, <2>2, ProductNat
  <2>4. (u[1] * g[k]) * v[k+1] = u[1] * (g[k] * v[k+1])
    BY <1>3, <2>1, <2>2
  <2> QED BY <2>2, <2>3, <2>4
<1> HIDE DEF T
<1>6. 0 .. n \subseteq T
  <2> HIDE DEF n
  <2> QED BY <1>3, <1>4, <1>5, IntervalInduction
<1>7. n \in T
  BY <1>3, <1>6
<1> QED BY <1>1, <1>2, <1>3, <1>7 DEF T

\* The strides are the sizes of the blocks.
LEMMA Blocks ==
  ASSUME NEW s \in Seq(Nat), s # <<>>
  PROVE  /\ Block(s) \in [0 .. Len(s) -> Nat]
         /\ Block(s)[0] = Product(s) /\ Block(s)[Len(s)] = 1
         /\ \A d \in 1 .. Len(s) : Block(s)[d] = rowMajorStrides(s)[d]
         /\ \A d \in 1 .. Len(s) : Block(s)[d-1] = s[d] * Block(s)[d]
         /\ rowMajorStrides(s) \in [1 .. Len(s) -> Nat]
<1> DEFINE n == Len(s)
           Rest(d) == SubSeq(s, d + 1, n)
           st == rowMajorStrides(s)
<1>1. n \in Nat /\ n > 0 /\ DOMAIN s = 1 .. n /\ \A d \in 1 .. n : s[d] \in Nat
  <2>1. Len(s) # 0
    BY EmptySeq
  <2> QED BY <2>1
<1>2. ASSUME NEW d \in 1 .. n
      PROVE  Rest(d) \in Seq(Nat) /\ Len(Rest(d)) = n - d /\ \A i \in 1 .. n - d : Rest(d)[i] = s[d+i]
  <2>1. d + 1 \in Int /\ n \in Int /\ \A i \in d + 1 .. n : s[i] \in Nat
    BY <1>1
  <2>2. /\ Rest(d) \in Seq(Nat) /\ Len(Rest(d)) = IF d + 1 <= n THEN n - (d + 1) + 1 ELSE 0
        /\ \A i \in 1 .. n - (d + 1) + 1 : Rest(d)[i] = s[(d + 1) + i - 1]
    <3> HIDE DEF n
    <3> QED BY <2>1, SubSeqProperties
  <2> HIDE DEF n
  <2>3. n - (d + 1) + 1 = n - d /\ \A i \in 1 .. n - d : (d + 1) + i - 1 = d + i
    BY <1>1
  <2> HIDE DEF Rest
  <2> QED BY <1>1, <2>2, <2>3
<1>3. \A d \in 1 .. n : st[d] = Product(Rest(d)) /\ st[d] \in Nat
  BY <1>1, <1>2, ProductInNat DEF rowMajorStrides
<1>4. st = [d \in 1 .. n |-> st[d]] /\ st \in [1 .. n -> Nat]
  <2>1. st = [d \in 1 .. n |-> st[d]]
    BY <1>1 DEF rowMajorStrides
  <2> HIDE DEF st
  <2> QED BY <1>3, <2>1
<1>5. st[n] = 1
  <2>1. Rest(n) \in Seq(Nat) /\ Len(Rest(n)) = 0
    <3>1. n \in 1 .. n /\ n - n = 0
      BY <1>1
    <3> HIDE DEF Rest, n
    <3> QED BY <1>2, <3>1
  <2> DEFINE r == Rest(n)
  <2>2. r \in Seq(Nat) /\ Len(r) = 0
    BY <2>1
  <2> HIDE DEF r
  <2>3. Product(r) = 1
    <3>1. PICK f : f[0] = 1 /\ f[Len(r)] = Product(r) /\ \A k \in 0 .. Len(r)-1 : f[k+1] = f[k] * r[k+1]
      BY <2>2, ProductSteps
    <3> QED BY <2>2, <3>1
  <2> QED BY <1>1, <1>3, <2>3 DEF r
<1>6. ASSUME NEW d \in 1 .. n-1 PROVE st[d] = s[d+1] * st[d+1]
  <2> DEFINE u == Rest(d)
             v == Rest(d+1)
  <2>1. d \in 1 .. n /\ d + 1 \in 1 .. n
    BY <1>1
  <2>2. /\ u \in Seq(Nat) /\ Len(u) = n - d /\ \A i \in 1 .. n - d : u[i] = s[d+i]
        /\ v \in Seq(Nat) /\ Len(v) = n - (d+1) /\ \A i \in 1 .. n - (d+1) : v[i] = s[(d+1)+i]
    BY <1>2, <2>1
  <2> HIDE DEF u, v, n
  <2>3. Len(u) = Len(v) + 1 /\ u[1] = s[d+1]
    BY <1>1, <2>1, <2>2
  <2>4. ASSUME NEW i \in 1 .. Len(v) PROVE u[i+1] = v[i]
    <3>1. i \in 1 .. n - (d+1) /\ i + 1 \in 1 .. n - d /\ d + (i+1) = (d+1) + i
      BY <1>1, <2>1, <2>2
    <3>2. u[i+1] = s[d+(i+1)] /\ v[i] = s[(d+1)+i]
      BY <2>2, <3>1
    <3> QED BY <3>1, <3>2
  <2>5. Product(u) = u[1] * Product(v)
    BY <2>2, <2>3, <2>4, ProductFrom
  <2>6. st[d] = Product(u) /\ st[d+1] = Product(v)
    BY <1>3, <2>1 DEF u, v
  <2> QED BY <2>3, <2>5, <2>6
<1>7. Product(s) = s[1] * st[1]
  <2> DEFINE v == Rest(1)
  <2>1. v \in Seq(Nat) /\ Len(v) = n - 1 /\ \A i \in 1 .. n - 1 : v[i] = s[1+i]
    <3>1. 1 \in 1 .. n
      BY <1>1
    <3> HIDE DEF Rest, n
    <3> QED BY <1>2, <3>1
  <2>2. st[1] = Product(v)
    BY <1>1, <1>3
  <2> HIDE DEF v
  <2>3. Len(s) = Len(v) + 1 /\ \A i \in 1 .. Len(v) : s[i+1] = v[i]
    BY <1>1, <2>1
  <2>4. Product(s) = s[1] * Product(v)
    BY <2>1, <2>3, ProductFrom
  <2> QED BY <2>2, <2>4
<1> HIDE DEF st
<1>8. Block(s) = [d \in 0 .. n |-> IF d = 0 THEN Product(s) ELSE st[d]]
  BY DEF Block, st
<1>9. \A d \in 0 .. n : Block(s)[d] \in Nat
  BY <1>3, <1>8, ProductInNat
<1>10. ASSUME NEW d \in 1 .. n PROVE Block(s)[d-1] = s[d] * Block(s)[d]
  <2>1. Block(s)[d] = st[d] /\ Block(s)[d-1] = IF d = 1 THEN Product(s) ELSE st[d-1]
    BY <1>1, <1>8
  <2>2. d # 1 => d - 1 \in 1 .. n-1 /\ (d-1) + 1 = d
    BY <1>1
  <2>3. CASE d = 1
    BY <1>7, <2>1, <2>3
  <2>4. CASE d # 1
    <3>1. st[d-1] = s[(d-1)+1] * st[(d-1)+1]
      BY <1>6, <2>2, <2>4
    <3> QED BY <2>1, <2>2, <2>4, <3>1
  <2> QED BY <2>3, <2>4
<1>11. Block(s)[0] = Product(s) /\ Block(s)[n] = 1 /\ \A d \in 1 .. n : Block(s)[d] = st[d]
  BY <1>1, <1>5, <1>8
<1>12. Block(s) \in [0 .. n -> Nat]
  BY <1>8, <1>9
<1> QED BY <1>4, <1>10, <1>11, <1>12 DEF st

\* Where the strides of s put index c.
OffsetIn(s, c) == Offset(c, rowMajorStrides(s))

\* f[k] is the offset the first k coordinates come to.
Sums(f, c, w, n) ==
  /\ f[0] = 0 /\ f[n] = Offset(c, w)
  /\ \A k \in 0 .. n-1 : f[k+1] = f[k] + c[k+1] * w[k+1]
  /\ \A k \in 0 .. n : f[k] \in Nat

\* The partial sums of an offset.
LEMMA SumsExist ==
  ASSUME NEW n \in Nat, NEW w \in [1 .. n -> Nat], NEW c \in [1 .. n -> Nat]
  PROVE  \E f : Sums(f, c, w, n)
<1>1. PICK f : /\ f[0] = 0 /\ f[n] = Offset(c, w)
               /\ \A k \in 0 .. n-1 : f[k+1] = f[k] + c[k+1] * w[k+1]
  BY OffsetSteps
<1> DEFINE T == {k \in 0 .. n : f[k] \in Nat}
<1>2. 0 \in T
  BY <1>1
<1>3. ASSUME NEW k \in 0 .. n-1, k \in T PROVE k + 1 \in T
  <2>1. c[k+1] * w[k+1] \in Nat
    BY ProductNat
  <2> QED BY <1>1, <1>3, <2>1
<1> HIDE DEF T
<1>4. 0 .. n \subseteq T
  BY <1>2, <1>3, IntervalInduction
<1>5. \A k \in 0 .. n : f[k] \in Nat
  BY <1>4 DEF T
<1>6. Sums(f, c, w, n)
  BY <1>1, <1>5 DEF Sums
<1> QED BY <1>6

\* An index has a coordinate below the size in each dimension.
LEMMA IndicesAre ==
  ASSUME NEW s \in Seq(Nat)
  PROVE  Indices(s) = {c \in [1 .. Len(s) -> Nat] : \A d \in 1 .. Len(s) : c[d] < s[d]}
<1> DEFINE n == Len(s)
           V == UNION {0 .. (s[d] - 1) : d \in 1 .. n}
<1>1. DOMAIN s = 1 .. n /\ \A d \in 1 .. n : s[d] \in Nat
  OBVIOUS
<1>2. V \subseteq Nat
  BY <1>1
<1>3. ASSUME NEW c \in [1 .. n -> Nat], \A d \in 1 .. n : c[d] < s[d] PROVE c \in [1 .. n -> V]
  <2>1. \A d \in 1 .. n : c[d] \in 0 .. (s[d] - 1)
    BY <1>1, <1>3
  <2> QED BY <2>1
<1>4. \A c \in [1 .. n -> V] : c \in [1 .. n -> Nat]
  BY <1>2
<1> HIDE DEF V
<1>5. Indices(s) = {c \in [1 .. n -> V] : \A d \in 1 .. n : c[d] < s[d]}
  BY <1>1 DEF Indices, V
<1> HIDE DEF n
<1> QED BY <1>3, <1>4, <1>5 DEF n

\* r[k] is what the coordinates after the first k add to the offset.
Rests(r, c, s) ==
  /\ r[0] = OffsetIn(s, c) /\ r[Len(s)] = 0
  /\ \A k \in 0 .. Len(s) : r[k] \in 0 .. Block(s)[k] - 1
  /\ \A k \in 1 .. Len(s) : r[k-1] = c[k] * Block(s)[k] + r[k]

\* An index leaves at each dimension an offset within its block.
LEMMA RestsExist ==
  ASSUME NEW s \in Seq(Nat), s # <<>>, NEW c \in Indices(s)
  PROVE  \E r : Rests(r, c, s)
<1> DEFINE n == Len(s)
           st == rowMajorStrides(s)
           B == Block(s)
<1>1. n \in Nat /\ c \in [1 .. n -> Nat] /\ \A d \in 1 .. n : c[d] \in 0 .. s[d] - 1 /\ s[d] \in Nat
  <2>1. c \in [1 .. n -> Nat] /\ \A d \in 1 .. n : c[d] < s[d]
    BY IndicesAre
  <2> QED BY <2>1
<1>2. /\ B \in [0 .. n -> Nat] /\ B[n] = 1 /\ st \in [1 .. n -> Nat]
      /\ \A d \in 1 .. n : B[d] = st[d]
      /\ \A d \in 1 .. n : B[d-1] = s[d] * B[d]
  BY Blocks
<1> HIDE DEF n, st, B
<1>3. PICK f : Sums(f, c, st, n)
  BY <1>1, <1>2, SumsExist
<1> DEFINE r == [k \in 0 .. n |-> f[n] - f[k]]
<1>4. r[0] = Offset(c, st) /\ r[n] = 0
  <2>1. 0 \in 0 .. n /\ n \in 0 .. n /\ f[n] \in Nat /\ f[0] = 0 /\ f[n] = Offset(c, st)
    BY <1>1, <1>3 DEF Sums
  <2> QED BY <2>1
<1>5. \A k \in 1 .. n : r[k-1] = c[k] * B[k] + r[k]
  <2> TAKE k \in 1 .. n
  <2>1. k - 1 \in 0 .. n-1 /\ (k-1) + 1 = k /\ k - 1 \in 0 .. n /\ k \in 0 .. n
    BY <1>1
  <2>2. f[k] = f[k-1] + c[k] * st[k] /\ f[k] \in Nat /\ f[k-1] \in Nat /\ f[n] \in Nat
    BY <1>1, <1>3, <2>1 DEF Sums
  <2>3. c[k] * B[k] \in Nat /\ B[k] = st[k]
    BY <1>1, <1>2, <2>1, ProductNat
  <2> QED BY <2>1, <2>2, <2>3
<1> DEFINE T == {j \in 0 .. n : r[n-j] \in 0 .. B[n-j] - 1}
<1>6. 0 \in T
  <2>1. n - 0 = n /\ 0 \in 0 .. n
    BY <1>1
  <2> HIDE DEF r
  <2> QED BY <1>2, <1>4, <2>1
<1>7. ASSUME NEW j \in 0 .. n-1, j \in T PROVE j + 1 \in T
  <2> DEFINE k == n - j
  <2>1. k \in 1 .. n /\ n - (j+1) = k - 1 /\ j + 1 \in 0 .. n
    BY <1>1
  <2> HIDE DEF r
  <2>2. r[k] \in 0 .. B[k] - 1
    BY <1>7
  <2> HIDE DEF k
  <2>3. c[k] \in 0 .. s[k] - 1 /\ s[k] \in Nat /\ B[k] \in Nat
    BY <1>1, <1>2, <2>1
  <2>4. c[k] * B[k] + r[k] \in 0 .. s[k] * B[k] - 1
    <3> DEFINE x == c[k]
               y == r[k]
               a == s[k]
               b == B[k]
    <3>1. a \in Nat /\ b \in Nat /\ x \in 0 .. a-1 /\ y \in 0 .. b-1
      BY <2>2, <2>3
    <3> HIDE DEF x, y, a, b
    <3>2. x * b + y \in 0 .. a * b - 1
      BY <3>1, DigitBounds
    <3> QED BY <3>2 DEF x, y, a, b
  <2>5. r[k-1] \in 0 .. B[k-1] - 1
    BY <1>2, <1>5, <2>1, <2>4
  <2> QED BY <2>1, <2>5
<1> HIDE DEF T
<1>8. 0 .. n \subseteq T
  BY <1>1, <1>6, <1>7, IntervalInduction
<1>9. ASSUME NEW k \in 0 .. n PROVE r[k] \in 0 .. B[k] - 1
  <2>1. n - k \in 0 .. n /\ n - (n - k) = k
    BY <1>1
  <2> HIDE DEF r
  <2> QED BY <1>8, <2>1 DEF T
<1> HIDE DEF r
<1>10. Rests(r, c, s)
  BY <1>4, <1>5, <1>9 DEF Rests, OffsetIn, n, B, st
<1> QED BY <1>10

\* The remainders that Coords goes through.
Remainders(r, o, w, n) ==
  /\ r[0] = o
  /\ \A k \in 1 .. n : r[k] = r[k-1] % w[k]
  /\ Coords(o, w) = [d \in 1 .. n |-> r[d-1] \div w[d]]

\* The loop that takes an offset apart runs through all dimensions.
LEMMA RemaindersExist ==
  ASSUME NEW n \in Nat, NEW w \in [1 .. n -> Nat], NEW o
  PROVE  \E r : Remainders(r, o, w, n)
<1> DEFINE Eq(g, m) == g = [d \in 0 .. m |-> IF d = 0 THEN o ELSE g[d-1] % w[d]]
           T == {m \in 0 .. n : \E g : Eq(g, m)}
           r == CHOOSE g : Eq(g, n)
<1>1. Len(w) = n /\ DOMAIN w = 1 .. n
  <2>1. w \in Seq(Nat)
    OBVIOUS
  <2> QED BY <2>1
<1>2. 0 \in T
  <2> DEFINE g == [d \in 0 .. 0 |-> o]
  <2>1. \A d \in 0 .. 0 : d = 0
    OBVIOUS
  <2>2. Eq(g, 0)
    BY <2>1
  <2> HIDE DEF Eq, g
  <2> QED BY <2>2
<1>3. ASSUME NEW m \in 0 .. n-1, m \in T PROVE m + 1 \in T
  <2>1. PICK g : Eq(g, m)
    BY <1>3
  <2> DEFINE h == [d \in 0 .. m+1 |-> IF d = m + 1 THEN g[m] % w[m+1] ELSE g[d]]
             here(d) == IF d = 0 THEN o ELSE h[d-1] % w[d]
  <2>2. ASSUME NEW d \in 0 .. m+1 PROVE h[d] = here(d)
    <3>1. CASE d = 0
      <4>1. h[0] = g[0] /\ g[0] = o
        BY <2>1
      <4> QED BY <3>1, <4>1
    <3>2. CASE d # 0 /\ d # m + 1
      <4>1. d \in 0 .. m /\ d - 1 \in 0 .. m /\ d - 1 # m + 1
        BY <3>2
      <4>2. g[d] = g[d-1] % w[d]
        BY <2>1, <3>2, <4>1
      <4>3. h[d] = g[d] /\ h[d-1] = g[d-1]
        BY <3>2, <4>1
      <4> HIDE DEF h
      <4> QED BY <3>2, <4>2, <4>3
    <3>3. CASE d = m + 1
      <4>1. h[m+1] = g[m] % w[m+1] /\ h[m] = g[m] /\ d # 0 /\ d - 1 = m
        BY <3>3
      <4> HIDE DEF h
      <4> QED BY <3>3, <4>1
    <3> QED BY <3>1, <3>2, <3>3
  <2>3. h = [d \in 0 .. m+1 |-> h[d]]
    OBVIOUS
  <2> HIDE DEF h, here
  <2>4. h = [d \in 0 .. m+1 |-> here(d)]
    BY <2>2, <2>3
  <2>5. Eq(h, m + 1)
    BY <2>4 DEF here
  <2> HIDE DEF Eq
  <2> QED BY <2>5
<1> HIDE DEF T
<1>4. 0 .. n \subseteq T
  BY <1>2, <1>3, IntervalInduction
<1>5. Eq(r, n)
  <2>1. n \in T
    BY <1>4
  <2>2. \E g : Eq(g, n)
    BY <2>1 DEF T
  <2> HIDE DEF Eq
  <2> QED BY <2>2
<1>6. Coords(o, w) = [d \in 1 .. n |-> r[d-1] \div w[d]]
  BY <1>1 DEF Coords
<1> HIDE DEF r
<1>7. r[0] = o
  BY <1>5
<1>8. \A k \in 1 .. n : r[k] = r[k-1] % w[k]
  <2> TAKE k \in 1 .. n
  <2>1. k \in 0 .. n /\ k # 0
    OBVIOUS
  <2> QED BY <1>5, <2>1
<1> HIDE DEF Eq
<1> QED BY <1>6, <1>7, <1>8 DEF Remainders

\* Every index has an offset of the tensor, and Coords gives the index back.
LEMMA OffsetInside ==
  ASSUME NEW s \in Seq(Nat), s # <<>>, NEW c \in Indices(s)
  PROVE  OffsetIn(s, c) \in Offsets(s)
<1>1. PICK r : Rests(r, c, s)
  BY RestsExist
<1>2. Block(s)[0] = Product(s) /\ 0 \in 0 .. Len(s)
  BY Blocks
<1>3. OffsetIn(s, c) \in 0 .. Product(s) - 1
  BY <1>1, <1>2 DEF Rests
<1>4. shapeNumel(s) = Product(s)
  BY DEF shapeNumel
<1> QED BY <1>3, <1>4 DEF Offsets

\* Taking the offset of an index apart gives the index.
LEMMA CoordsOfOffset ==
  ASSUME NEW s \in Seq(Nat), s # <<>>, NEW c \in Indices(s)
  PROVE  Coords(OffsetIn(s, c), rowMajorStrides(s)) = c
<1> DEFINE n == Len(s)
           st == rowMajorStrides(s)
           B == Block(s)
           o == OffsetIn(s, c)
<1>1. n \in Nat /\ c \in [1 .. n -> Nat]
  BY IndicesAre
<1>2. B \in [0 .. n -> Nat] /\ st \in [1 .. n -> Nat] /\ \A d \in 1 .. n : B[d] = st[d]
  BY Blocks
<1>3. PICK r : Rests(r, c, s)
  BY RestsExist
<1> HIDE DEF st, o
<1>4. PICK q : Remainders(q, o, st, n)
  <2> HIDE DEF n
  <2> QED BY <1>1, <1>2, RemaindersExist
<1>5. ASSUME NEW k \in 1 .. n PROVE r[k-1] \div st[k] = c[k] /\ r[k-1] % st[k] = r[k]
  <2>1. r[k-1] = c[k] * B[k] + r[k] /\ r[k] \in 0 .. B[k] - 1
    <3>1. k \in 0 .. n
      BY <1>1
    <3> QED BY <1>3, <3>1 DEF Rests
  <2>2. B[k] \in Nat /\ B[k] = st[k] /\ c[k] \in Nat
    BY <1>1, <1>2
  <2> DEFINE b == B[k]
             x == c[k]
             y == r[k]
  <2>3. b \in Nat /\ x \in Nat /\ y \in 0 .. b-1
    BY <2>1, <2>2
  <2> HIDE DEF b, x, y
  <2>4. (x * b + y) \div b = x /\ (x * b + y) % b = y
    BY <2>3, DigitOf
  <2> HIDE DEF B
  <2> QED BY <2>1, <2>2, <2>4 DEF b, x, y
<1> DEFINE T == {k \in 0 .. n : q[k] = r[k]}
<1>6. 0 \in T
  BY <1>1, <1>3, <1>4 DEF Rests, Remainders, o
<1>7. ASSUME NEW k \in 0 .. n-1, k \in T PROVE k + 1 \in T
  <2>1. k + 1 \in 1 .. n /\ (k+1) - 1 = k /\ k + 1 \in 0 .. n
    BY <1>1
  <2>2. q[k+1] = q[k] % st[k+1]
    BY <1>4, <2>1 DEF Remainders
  <2>3. r[k] % st[k+1] = r[k+1]
    <3> HIDE DEF n
    <3> QED BY <1>5, <2>1
  <2> QED BY <1>7, <2>1, <2>2, <2>3
<1> HIDE DEF T
<1>8. 0 .. n \subseteq T
  <2> HIDE DEF n
  <2> QED BY <1>1, <1>6, <1>7, IntervalInduction
<1>9. ASSUME NEW d \in 1 .. n PROVE q[d-1] \div st[d] = c[d]
  <2>1. d - 1 \in 0 .. n
    BY <1>1
  <2>2. q[d-1] = r[d-1]
    BY <1>8, <2>1 DEF T
  <2> QED BY <1>5, <2>2
<1>10. Coords(o, st) = [d \in 1 .. n |-> q[d-1] \div st[d]]
  BY <1>4 DEF Remainders
<1>11. c = [d \in 1 .. n |-> c[d]]
  BY <1>1
<1> HIDE DEF n
<1>12. Coords(o, st) = c
  BY <1>9, <1>10, <1>11
<1> QED BY <1>12 DEF o, st

\* Two indices of a tensor with one offset are the same.
LEMMA OneOffsetEach ==
  ASSUME NEW s \in Seq(Nat), s # <<>>, NEW c \in Indices(s), NEW e \in Indices(s),
         OffsetIn(s, c) = OffsetIn(s, e)
  PROVE  c = e
<1>1. /\ Coords(OffsetIn(s, c), rowMajorStrides(s)) = c
      /\ Coords(OffsetIn(s, e), rowMajorStrides(s)) = e
  BY CoordsOfOffset
<1> QED BY <1>1

\* Every offset of the tensor is that of the index Coords gives.
LEMMA OffsetOfCoords ==
  ASSUME NEW s \in Seq(Nat), s # <<>>, NEW o \in Offsets(s)
  PROVE  /\ Coords(o, rowMajorStrides(s)) \in Indices(s)
         /\ OffsetIn(s, Coords(o, rowMajorStrides(s))) = o
<1> DEFINE n == Len(s)
           st == rowMajorStrides(s)
           B == Block(s)
           c == Coords(o, st)
<1>1. n \in Nat /\ \A d \in 1 .. n : s[d] \in Nat
  OBVIOUS
<1>2. /\ B \in [0 .. n -> Nat] /\ B[0] = Product(s) /\ B[n] = 1
      /\ st \in [1 .. n -> Nat] /\ \A d \in 1 .. n : B[d] = st[d]
      /\ \A d \in 1 .. n : B[d-1] = s[d] * B[d]
  BY Blocks
<1> HIDE DEF n, st, B
<1>3. PICK q : Remainders(q, o, st, n)
  BY <1>1, <1>2, RemaindersExist
<1> DEFINE Digit(k) == /\ q[k-1] \div B[k] \in 0 .. s[k] - 1
                       /\ q[k-1] = (q[k-1] \div B[k]) * B[k] + q[k]
                       /\ q[k] \in 0 .. B[k] - 1
           T == {k \in 0 .. n : q[k] \in 0 .. B[k] - 1}
<1>4. ASSUME NEW k \in 1 .. n, q[k-1] \in 0 .. B[k-1] - 1 PROVE Digit(k)
  <2> DEFINE a == s[k]
             b == B[k]
             m == q[k-1]
  <2>1. a \in Nat /\ b \in Nat /\ m \in 0 .. a * b - 1 /\ q[k] = m % b
    BY <1>1, <1>2, <1>3, <1>4 DEF Remainders
  <2> HIDE DEF a, b, m
  <2>2. b > 0
    <3>1. CASE b = 0
      <4>1. a * b = 0
        BY <2>1, <3>1
      <4> QED BY <2>1, <4>1
    <3> QED BY <2>1, <3>1
  <2>3. m \in Nat /\ m \div b \in Nat /\ m % b \in 0 .. b-1 /\ m = b * (m \div b) + (m % b)
    BY <2>1, <2>2, ProductNat
  <2> DEFINE x == m \div b
             y == m % b
  <2>4. x \in Nat /\ y \in 0 .. b-1 /\ m = x * b + y
    BY <2>1, <2>3
  <2> HIDE DEF x, y
  <2>5. x < a
    <3> SUFFICES ASSUME a <= x PROVE FALSE
      BY <2>1, <2>4
    <3>1. a * b <= x * b
      BY <2>1, <2>4, ProductMonotone
    <3>2. a * b \in Nat /\ x * b \in Nat
      BY <2>1, <2>4, ProductNat
    <3> QED BY <2>1, <2>4, <3>1, <3>2
  <2>6. x \in 0 .. a-1
    BY <2>1, <2>4, <2>5
  <2> QED BY <2>1, <2>4, <2>6 DEF a, b, m, x, y
<1>5. q[0] = o /\ o \in 0 .. B[0] - 1
  <2>1. shapeNumel(s) = Product(s)
    BY DEF shapeNumel
  <2> QED BY <1>2, <1>3, <2>1 DEF Offsets, Remainders
<1>6. 0 \in T
  BY <1>1, <1>5
<1>7. ASSUME NEW k \in 0 .. n-1, k \in T PROVE k + 1 \in T
  <2>1. k + 1 \in 1 .. n /\ (k+1) - 1 = k /\ k + 1 \in 0 .. n /\ q[k] \in 0 .. B[k] - 1
    BY <1>1, <1>7
  <2> DEFINE j == k + 1
  <2> HIDE DEF Digit, T
  <2>2. j \in 1 .. n /\ q[j-1] \in 0 .. B[j-1] - 1
    BY <2>1
  <2> HIDE DEF j
  <2>3. Digit(j)
    BY <1>4, <2>2
  <2> QED BY <2>1, <2>3 DEF Digit, T, j
<1> HIDE DEF T
<1>8. 0 .. n \subseteq T
  BY <1>1, <1>6, <1>7, IntervalInduction
<1>9. ASSUME NEW k \in 1 .. n PROVE Digit(k)
  <2>1. k - 1 \in 0 .. n
    BY <1>1
  <2>2. q[k-1] \in 0 .. B[k-1] - 1
    BY <1>8, <2>1 DEF T
  <2> HIDE DEF Digit
  <2> QED BY <1>4, <2>2
<1>10. c = [d \in 1 .. n |-> q[d-1] \div st[d]]
  BY <1>3 DEF Remainders
<1> HIDE DEF c
<1>11. \A d \in 1 .. n : /\ c[d] \in 0 .. s[d] - 1
                         /\ q[d-1] = c[d] * st[d] + q[d]
                         /\ q[d] \in Nat /\ q[d-1] \in Nat /\ c[d] * st[d] \in Nat
  <2> TAKE d \in 1 .. n
  <2>1. c[d] = q[d-1] \div st[d] /\ B[d] = st[d] /\ st[d] \in Nat
    BY <1>2, <1>10
  <2>2. Digit(d)
    BY <1>9
  <2>3. c[d] \in 0 .. s[d] - 1 /\ q[d-1] = c[d] * st[d] + q[d] /\ q[d] \in 0 .. st[d] - 1
    BY <2>1, <2>2
  <2>4. c[d] * st[d] \in Nat /\ q[d] \in Nat
    <3>1. c[d] \in Nat /\ st[d] \in Nat /\ q[d] \in Nat
      BY <1>1, <2>1, <2>3
    <3> QED BY <3>1, ProductNat
  <2> QED BY <2>3, <2>4
<1>12. c \in [1 .. n -> Nat] /\ c \in Indices(s)
  <2>1. c \in [1 .. n -> Nat]
    <3>1. \A d \in 1 .. n : c[d] \in Nat
      BY <1>1, <1>11
    <3> QED BY <1>10, <3>1
  <2>2. \A d \in 1 .. n : c[d] < s[d]
    BY <1>1, <1>11
  <2> QED BY <2>1, <2>2, IndicesAre DEF n
<1>13. PICK f : Sums(f, c, st, n)
  BY <1>1, <1>2, <1>12, SumsExist
<1> DEFINE U == {k \in 0 .. n : f[k] + q[k] = o}
<1>14. 0 \in U
  BY <1>1, <1>5, <1>13 DEF Sums
<1>15. ASSUME NEW k \in 0 .. n-1, k \in U PROVE k + 1 \in U
  <2>1. k + 1 \in 1 .. n /\ (k+1) - 1 = k /\ k + 1 \in 0 .. n
    BY <1>1
  <2>2. f[k+1] = f[k] + c[k+1] * st[k+1] /\ f[k] \in Nat
    BY <1>1, <1>13 DEF Sums
  <2>3. q[k] = c[k+1] * st[k+1] + q[k+1] /\ q[k+1] \in Nat /\ c[k+1] * st[k+1] \in Nat
    BY <1>11, <2>1
  <2> DEFINE p == c[k+1] * st[k+1]
  <2>4. f[k+1] = f[k] + p /\ q[k] = p + q[k+1] /\ p \in Nat
    BY <2>2, <2>3
  <2> HIDE DEF p
  <2> QED BY <1>15, <2>1, <2>2, <2>3, <2>4
<1> HIDE DEF U
<1>16. 0 .. n \subseteq U
  BY <1>1, <1>14, <1>15, IntervalInduction
<1>17. f[n] + q[n] = o /\ f[n] = Offset(c, st) /\ f[n] \in Nat
  <2>1. n \in 0 .. n
    BY <1>1
  <2> QED BY <1>13, <1>16, <2>1 DEF U, Sums
<1>18. q[n] = 0
  <2>1. n \in 0 .. n
    BY <1>1
  <2> QED BY <1>2, <1>8, <2>1 DEF T
<1>19. OffsetIn(s, c) = o
  BY <1>17, <1>18 DEF OffsetIn, st
<1> QED BY <1>12, <1>19 DEF c, st

\* The number of elements of a shape with a dimension.
LEMMA Numel ==
  ASSUME NEW s \in Seq(Nat), s # <<>>
  PROVE  shapeNumel(s) = Product(s) /\ shapeNumel(s) \in Nat
BY ProductInNat DEF shapeNumel

\* The order of the indices is that of their offsets.
LEMMA BeforeIsLess ==
  ASSUME NEW s \in Seq(Nat), s # <<>>, NEW e \in Indices(s), NEW c \in Indices(s), Before(e, c)
  PROVE  OffsetIn(s, e) < OffsetIn(s, c)
<1> DEFINE n == Len(s)
           B == Block(s)
<1>1. /\ n \in Nat /\ e \in [1 .. n -> Nat] /\ c \in [1 .. n -> Nat] /\ B \in [0 .. n -> Nat]
  BY IndicesAre, Blocks
<1>2. PICK p : Rests(p, e, s)
  BY RestsExist
<1>3. PICK q : Rests(q, c, s)
  BY RestsExist
<1>4. PICK d \in 1 .. n : e[d] < c[d] /\ \A k \in 1 .. d-1 : e[k] = c[k]
  <2>1. DOMAIN e = 1 .. n
    BY <1>1
  <2> HIDE DEF n
  <2> QED BY <2>1 DEF Before
<1>5. /\ p[0] = OffsetIn(s, e) /\ q[0] = OffsetIn(s, c)
      /\ \A k \in 0 .. n : p[k] \in 0 .. B[k] - 1 /\ q[k] \in 0 .. B[k] - 1
      /\ \A k \in 1 .. n : p[k-1] = e[k] * B[k] + p[k] /\ q[k-1] = c[k] * B[k] + q[k]
  BY <1>2, <1>3 DEF Rests
<1> HIDE DEF n, B
<1>6. p[d-1] < q[d-1]
  <2> DEFINE x == e[d]
             y == c[d]
             b == B[d]
  <2>1. d \in 0 .. n /\ x \in Nat /\ y \in Nat /\ b \in Nat /\ x + 1 <= y
    BY <1>1, <1>4
  <2>2. p[d] \in 0 .. b-1 /\ q[d] \in 0 .. b-1 /\ p[d-1] = x * b + p[d] /\ q[d-1] = y * b + q[d]
    BY <1>5, <2>1
  <2> HIDE DEF x, y, b
  <2>3. (x + 1) * b <= y * b
    BY <2>1, ProductMonotone
  <2>4. (x + 1) * b = x * b + b /\ x * b \in Nat /\ y * b \in Nat
    BY <2>1, ProductNat
  <2> DEFINE u == x * b
             v == y * b
  <2>5. u + b <= v /\ u \in Nat /\ v \in Nat /\ p[d-1] = u + p[d] /\ q[d-1] = v + q[d]
    BY <2>2, <2>3, <2>4
  <2> HIDE DEF u, v
  <2> QED BY <2>1, <2>2, <2>5
<1> DEFINE T == {j \in 0 .. d-1 : p[(d-1)-j] < q[(d-1)-j]}
<1>7. 0 \in T
  BY <1>1, <1>6
<1>8. ASSUME NEW j \in 0 .. (d-1)-1, j \in T PROVE j + 1 \in T
  <2> DEFINE k == (d-1) - j
  <2>1. k \in 1 .. n /\ k \in 1 .. d-1 /\ (d-1) - (j+1) = k - 1 /\ j + 1 \in 0 .. d-1 /\ p[k] < q[k]
    BY <1>1, <1>8
  <2> HIDE DEF k
  <2>2. e[k] = c[k] /\ c[k] \in Nat /\ B[k] \in Nat /\ k \in 0 .. n
    BY <1>1, <1>4, <2>1
  <2> DEFINE m == c[k] * B[k]
  <2>3. m \in Nat
    BY <2>2, ProductNat
  <2>4. p[k-1] = m + p[k] /\ q[k-1] = m + q[k] /\ p[k] \in Nat /\ q[k] \in Nat
    BY <1>5, <2>1, <2>2
  <2> HIDE DEF m
  <2>5. p[k-1] < q[k-1]
    BY <2>1, <2>3, <2>4
  <2> QED BY <2>1, <2>5
<1> HIDE DEF T
<1>9. 0 .. d-1 \subseteq T
  <2>1. d - 1 \in Nat
    BY <1>1
  <2> DEFINE m == d - 1
  <2>2. m \in Nat /\ \A j \in 0 .. m-1 : j \in T => j + 1 \in T
    BY <1>8, <2>1
  <2> HIDE DEF m
  <2>3. 0 .. m \subseteq T
    BY <1>7, <2>2, IntervalInduction
  <2> QED BY <2>3 DEF m
<1>10. p[0] < q[0]
  <2>1. d - 1 \in 0 .. d-1 /\ (d-1) - (d-1) = 0
    BY <1>1
  <2> QED BY <1>9, <2>1 DEF T
<1> QED BY <1>5, <1>10

\* And the other way round: the offsets compare as the indices do.
LEMMA LessIsBefore ==
  ASSUME NEW s \in Seq(Nat), s # <<>>, NEW e \in Indices(s), NEW c \in Indices(s),
         OffsetIn(s, e) < OffsetIn(s, c)
  PROVE  Before(e, c)
<1> DEFINE n == Len(s)
           D == {d \in 1 .. n : e[d] # c[d]}
<1>1. /\ n \in Nat /\ e \in [1 .. n -> Nat] /\ c \in [1 .. n -> Nat]
      /\ DOMAIN e = 1 .. n /\ DOMAIN c = 1 .. n
  BY IndicesAre
<1>2. OffsetIn(s, e) \in Int /\ OffsetIn(s, c) \in Int
  BY OffsetInside DEF Offsets
<1>3. D # {}
  <2> SUFFICES ASSUME D = {} PROVE FALSE
    OBVIOUS
  <2>1. e = c
    <3> HIDE DEF n
    <3> QED BY <1>1
  <2> QED BY <1>2, <2>1
<1>4. PICK d \in D : \A k \in D : d <= k
  <2>1. D \subseteq Nat
    OBVIOUS
  <2> HIDE DEF D
  <2> QED BY <1>3, <2>1, LeastNatural
<1>5. d \in 1 .. n /\ e[d] # c[d] /\ e[d] \in Nat /\ c[d] \in Nat
  <2>1. d \in 1 .. n /\ e[d] # c[d]
    BY <1>4
  <2> HIDE DEF n
  <2> QED BY <1>1, <2>1
<1>6. \A k \in 1 .. d-1 : e[k] = c[k]
  BY <1>1, <1>4, <1>5
<1> HIDE DEF D, n
<1>7. CASE e[d] < c[d]
  BY <1>1, <1>5, <1>6, <1>7 DEF Before
<1>8. CASE c[d] < e[d]
  <2>1. Before(c, e)
    BY <1>1, <1>5, <1>6, <1>8 DEF Before
  <2>2. OffsetIn(s, c) < OffsetIn(s, e)
    BY <2>1, BeforeIsLess
  <2> QED BY <1>2, <2>2
<1> QED BY <1>5, <1>7, <1>8

\* An index has its offset's number of indices before it.
LEMMA RankIsOffset ==
  ASSUME NEW s \in Seq(Nat), s # <<>>, NEW c \in Indices(s)
  PROVE  Rank(c, s) = OffsetIn(s, c)
<1> DEFINE E == {e \in Indices(s) : Before(e, c)}
           o == OffsetIn(s, c)
           F == 0 .. o - 1
           f == [e \in E |-> OffsetIn(s, e)]
           st == rowMajorStrides(s)
<1>1. o \in Nat /\ o \in Offsets(s) /\ \A i \in F : i \in Offsets(s) /\ i < o
  <2>1. o \in Offsets(s)
    BY OffsetInside
  <2>2. shapeNumel(s) \in Nat
    BY Numel
  <2> HIDE DEF o
  <2> QED BY <2>1, <2>2 DEF Offsets
<1>2. \A e \in Indices(s) : e \in E <=> OffsetIn(s, e) < o
  BY BeforeIsLess, LessIsBefore
<1>3. \A e \in Indices(s) : OffsetIn(s, e) \in Nat
  BY OffsetInside DEF Offsets
<1> HIDE DEF o
<1>4. ASSUME NEW e \in E PROVE e \in Indices(s) /\ OffsetIn(s, e) \in F
  BY <1>1, <1>2, <1>3
<1>5. f \in [E -> F]
  BY <1>4
<1>6. \A a, b \in E : f[a] = f[b] => a = b
  <2> TAKE a \in E, b \in E
  <2>1. f[a] = OffsetIn(s, a) /\ f[b] = OffsetIn(s, b)
    OBVIOUS
  <2>2. a \in Indices(s) /\ b \in Indices(s)
    BY <1>4
  <2> HIDE DEF f
  <2> QED BY <2>1, <2>2, OneOffsetEach
<1>7. \A i \in F : \E e \in E : f[e] = i
  <2> TAKE i \in F
  <2> DEFINE e == Coords(i, st)
  <2>1. e \in Indices(s) /\ OffsetIn(s, e) = i
    BY <1>1, OffsetOfCoords
  <2> HIDE DEF e
  <2>2. e \in E
    BY <1>1, <1>2, <2>1
  <2> HIDE DEF E
  <2>3. f[e] = i
    BY <2>1, <2>2
  <2> HIDE DEF f
  <2> QED BY <2>2, <2>3
<1> HIDE DEF E, f, F
<1>8. f \in Bijection(E, F)
  BY <1>5, <1>6, <1>7 DEF Bijection, Injection, Surjection, IsInjective
<1>9. IsFiniteSet(F) /\ Cardinality(F) = o
  <2>1. 0 \in Int /\ o - 1 \in Int
    BY <1>1
  <2>2. IsFiniteSet(0 .. o-1) /\ Cardinality(0 .. o-1) = IF 0 > o - 1 THEN 0 ELSE (o - 1) - 0 + 1
    <3> DEFINE m == o - 1
    <3>1. m \in Int
      BY <2>1
    <3> HIDE DEF m
    <3>2. IsFiniteSet(0 .. m) /\ Cardinality(0 .. m) = IF 0 > m THEN 0 ELSE m - 0 + 1
      BY <2>1, <3>1, FS_Interval
    <3> QED BY <3>2 DEF m
  <2> QED BY <1>1, <2>2 DEF F
<1>10. Cardinality(E) = Cardinality(F)
  <2>1. ExistsBijection(F, E)
    BY <1>8, Fun_ExistsBijSymmetric DEF ExistsBijection
  <2> QED BY <1>9, <2>1, FS_Bijection
<1>11. Rank(c, s) = Cardinality(E)
  BY DEF Rank, E
<1> QED BY <1>9, <1>10, <1>11 DEF o

\* Swapping two strides or two coordinates gives the same offset.
LEMMA OffsetSwapped ==
  ASSUME NEW n \in Nat, NEW w \in [1 .. n -> Nat], NEW c \in [1 .. n -> Nat],
         NEW d \in 1 .. n, NEW e \in 1 .. n, d < e
  PROVE  Offset(c, Swap(w, d, e)) = Offset(Swap(c, d, e), w)
<1> DEFINE v == Swap(w, d, e)
           x == Swap(c, d, e)
<1>1. /\ v \in [1 .. n -> Nat] /\ v[d] = w[e] /\ v[e] = w[d]
      /\ \A k \in 1 .. n : k # d /\ k # e => v[k] = w[k]
  BY DEF Swap
<1>2. /\ x \in [1 .. n -> Nat] /\ x[d] = c[e] /\ x[e] = c[d]
      /\ \A k \in 1 .. n : k # d /\ k # e => x[k] = c[k]
  BY DEF Swap
<1> HIDE DEF v, x
<1>3. PICK f : Sums(f, c, v, n)
  BY <1>1, SumsExist
<1>4. PICK g : Sums(g, x, w, n)
  BY <1>2, SumsExist
<1> DEFINE p == c[d] * w[e]
           q == c[e] * w[d]
           Same(k) == IF d <= k /\ k < e THEN f[k] + q = g[k] + p ELSE f[k] = g[k]
           T == {k \in 0 .. n : Same(k)}
<1>5. p \in Nat /\ q \in Nat
  BY ProductNat
<1>6. 0 \in T
  BY <1>3, <1>4 DEF Sums
<1>7. ASSUME NEW k \in 0 .. n-1, k \in T PROVE k + 1 \in T
  <2>0. k + 1 \in 0 .. n /\ f[k] \in Nat /\ g[k] \in Nat /\ f[k+1] \in Nat /\ g[k+1] \in Nat
    <3>1. k \in 0 .. n /\ k + 1 \in 0 .. n
      OBVIOUS
    <3> QED BY <1>3, <1>4, <3>1 DEF Sums
  <2>1. /\ f[k+1] = f[k] + c[k+1] * v[k+1] /\ g[k+1] = g[k] + x[k+1] * w[k+1]
    BY <1>3, <1>4 DEF Sums
  <2>2. CASE k + 1 = d
    <3>1. f[k+1] = f[k] + p /\ g[k+1] = g[k] + q
      BY <1>1, <1>2, <2>1, <2>2
    <3>2. f[k] = g[k] /\ d <= k + 1 /\ k + 1 < e
      BY <1>7, <2>2
    <3> HIDE DEF p, q
    <3>3. f[k+1] + q = g[k+1] + p
      BY <1>5, <2>0, <3>1, <3>2
    <3> QED BY <2>0, <3>2, <3>3
  <2>3. CASE k + 1 = e
    <3>1. f[k+1] = f[k] + q /\ g[k+1] = g[k] + p
      BY <1>1, <1>2, <2>1, <2>3
    <3>2. f[k] + q = g[k] + p /\ ~(k + 1 < e)
      BY <1>7, <2>3
    <3> HIDE DEF p, q
    <3> QED BY <1>5, <2>0, <3>1, <3>2
  <2>4. CASE k + 1 # d /\ k + 1 # e
    <3> DEFINE m == c[k+1] * w[k+1]
    <3>1. k + 1 \in 1 .. n
      OBVIOUS
    <3>2. v[k+1] = w[k+1] /\ x[k+1] = c[k+1]
      BY <1>1, <1>2, <2>4, <3>1
    <3>3. f[k+1] = f[k] + m /\ g[k+1] = g[k] + m
      BY <2>1, <3>2
    <3>4. m \in Nat
      BY <3>1, ProductNat
    <3>5. (d <= k /\ k < e) <=> (d <= k + 1 /\ k + 1 < e)
      BY <2>4
    <3>6. Same(k) /\ k + 1 \in 0 .. n
      BY <1>7
    <3> HIDE DEF p, q, m
    <3>7. ASSUME d <= k /\ k < e PROVE f[k+1] + q = g[k+1] + p
      <4>1. f[k] + q = g[k] + p
        BY <3>6, <3>7
      <4> DEFINE a == f[k]
                 b == g[k]
      <4>2. f[k+1] = a + m /\ g[k+1] = b + m /\ a \in Nat /\ b \in Nat /\ a + q = b + p
        BY <2>0, <3>3, <4>1
      <4> HIDE DEF a, b
      <4>3. (a + m) + q = (b + m) + p
        BY <1>5, <3>4, <4>2
      <4> QED BY <4>2, <4>3
    <3>8. ASSUME ~(d <= k /\ k < e) PROVE f[k+1] = g[k+1]
      <4>1. f[k] = g[k]
        BY <3>6, <3>8
      <4> QED BY <3>3, <4>1
    <3>9. Same(k+1)
      BY <3>5, <3>7, <3>8
    <3> QED BY <3>6, <3>9
  <2> QED BY <2>2, <2>3, <2>4
<1> HIDE DEF T
<1>8. 0 .. n \subseteq T
  BY <1>6, <1>7, IntervalInduction
<1>9. f[n] = g[n]
  <2>1. n \in 0 .. n /\ ~(n < e)
    OBVIOUS
  <2> QED BY <1>8, <2>1 DEF T
<1> QED BY <1>3, <1>4, <1>9 DEF Sums, v, x

\* Moving an index along a dimension, the first for the offset.
IsMoved(n, c, dim, k, x) ==
  /\ x \in [1 .. n -> Nat] /\ x[dim] = c[dim] + k
  /\ \A d \in 1 .. n : d # dim => x[d] = c[d]

LEMMA OffsetMoved ==
  ASSUME NEW n \in Nat, n > 0, NEW w \in [1 .. n -> Nat], NEW c \in [1 .. n -> Nat], NEW a \in Nat,
         NEW x, IsMoved(n, c, 1, a, x)
  PROVE  Offset(x, w) = a * w[1] + Offset(c, w)
<1>0. x \in [1 .. n -> Nat] /\ x[1] = c[1] + a /\ \A k \in 2 .. n : x[k] = c[k]
  BY DEF IsMoved
<1>1. PICK f : Sums(f, c, w, n)
  BY SumsExist
<1>2. PICK g : Sums(g, x, w, n)
  BY <1>0, SumsExist
<1> DEFINE p == a * w[1]
           m == n - 1
           T == {j \in 0 .. m : g[j+1] = p + f[j+1]}
<1>3. p \in Nat /\ m \in Nat /\ m + 1 = n
  BY ProductNat
<1>4. 0 \in T
  <2>1. 0 \in 0 .. n-1 /\ 0 + 1 = 1 /\ 1 \in 1 .. n
    OBVIOUS
  <2>2. f[1] = 0 + c[1] * w[1] /\ g[1] = 0 + x[1] * w[1]
    BY <1>1, <1>2, <2>1 DEF Sums
  <2>3. c[1] \in Nat /\ w[1] \in Nat /\ x[1] = c[1] + a
    BY <1>0, <2>1
  <2>4. (c[1] + a) * w[1] = a * w[1] + c[1] * w[1] /\ c[1] * w[1] \in Nat
    BY <2>3, ProductNat
  <2> DEFINE t == c[1] * w[1]
  <2>5. f[1] = 0 + t /\ g[1] = 0 + (p + t) /\ t \in Nat
    BY <2>2, <2>3, <2>4
  <2> HIDE DEF p, t
  <2>6. g[1] = p + f[1]
    BY <1>3, <2>5
  <2> QED BY <1>3, <2>6
<1>5. ASSUME NEW j \in 0 .. m-1, j \in T PROVE j + 1 \in T
  <2> DEFINE k == j + 1
  <2>1. k \in 0 .. n-1 /\ k \in 0 .. n /\ k + 1 \in 2 .. n /\ k + 1 \in 1 .. n /\ k \in 0 .. m
    BY <1>3
  <2>2. g[k] = p + f[k]
    BY <1>5
  <2> HIDE DEF k, m
  <2>3. f[k+1] = f[k] + c[k+1] * w[k+1] /\ g[k+1] = g[k] + x[k+1] * w[k+1] /\ f[k] \in Nat
    BY <1>1, <1>2, <2>1 DEF Sums
  <2>4. x[k+1] = c[k+1] /\ c[k+1] * w[k+1] \in Nat
    BY <1>0, <2>1, ProductNat
  <2> DEFINE t == c[k+1] * w[k+1]
  <2>5. f[k+1] = f[k] + t /\ g[k+1] = g[k] + t /\ t \in Nat
    BY <2>3, <2>4
  <2> HIDE DEF p, t
  <2>6. g[k+1] = p + f[k+1]
    BY <1>3, <2>2, <2>3, <2>5
  <2> QED BY <2>1, <2>6 DEF k
<1> HIDE DEF T
<1>6. 0 .. m \subseteq T
  <2> HIDE DEF m
  <2> QED BY <1>3, <1>4, <1>5, IntervalInduction
<1>7. g[n] = p + f[n]
  <2>1. m \in 0 .. m
    BY <1>3
  <2>2. m \in T
    BY <1>6, <2>1
  <2> QED BY <1>3, <2>2 DEF T
<1> QED BY <1>1, <1>2, <1>7 DEF Sums

\* The blocks after a dimension do not depend on its size.
LEMMA BlocksBehind ==
  ASSUME NEW s \in Seq(Nat), NEW t \in Seq(Nat), s # <<>>, Len(t) = Len(s),
         NEW dim \in 1 .. Len(s), \A d \in 1 .. Len(s) : d # dim => t[d] = s[d]
  PROVE  \A k \in dim .. Len(s) : Block(t)[k] = Block(s)[k]
<1> DEFINE n == Len(s)
           m == n - dim
           A == Block(s)
           B == Block(t)
           T == {j \in 0 .. m : B[n-j] = A[n-j]}
<1>1. n \in Nat /\ m \in Nat /\ dim \in Nat /\ t # <<>>
  BY EmptySeq
<1>2. A[n] = 1 /\ B[n] = 1
  BY <1>1, Blocks
<1>3. ASSUME NEW d \in 1 .. n PROVE A[d-1] = s[d] * A[d] /\ B[d-1] = t[d] * B[d]
  BY <1>1, Blocks
<1> HIDE DEF n, A, B
<1>4. 0 \in T
  <2>1. n - 0 = n
    BY <1>1
  <2> QED BY <1>1, <1>2, <2>1
<1>5. ASSUME NEW j \in 0 .. m-1, j \in T PROVE j + 1 \in T
  <2> DEFINE k == n - j
  <2>1. k \in 1 .. n /\ k # dim /\ n - (j+1) = k - 1 /\ j + 1 \in 0 .. m
    BY <1>1
  <2>2. B[k] = A[k]
    BY <1>5
  <2> HIDE DEF k
  <2>3. t[k] = s[k]
    BY <2>1 DEF n
  <2>4. B[k-1] = A[k-1]
    BY <1>3, <2>1, <2>2, <2>3
  <2> QED BY <2>1, <2>4
<1> HIDE DEF T
<1>6. 0 .. m \subseteq T
  <2> HIDE DEF m
  <2> QED BY <1>1, <1>4, <1>5, IntervalInduction
<1>7. ASSUME NEW k \in dim .. n PROVE B[k] = A[k]
  <2>1. n - k \in 0 .. m /\ n - (n - k) = k
    BY <1>1
  <2>2. n - k \in T
    BY <1>6, <2>1
  <2> QED BY <2>1, <2>2 DEF T
<1> QED BY <1>7 DEF n, A, B

\* RemoveAt closes the gap.
LEMMA Removed ==
  ASSUME NEW s \in Seq(Nat), NEW dim \in 1 .. Len(s)
  PROVE  /\ RemoveAt(s, dim) \in Seq(Nat) /\ Len(RemoveAt(s, dim)) = Len(s) - 1
         /\ \A k \in 1 .. Len(s) - 1 : RemoveAt(s, dim)[k] = IF k < dim THEN s[k] ELSE s[k+1]
<1> DEFINE n == Len(s)
           a == SubSeq(s, 1, dim - 1)
           b == SubSeq(s, dim + 1, n)
<1>1. n \in Nat /\ dim \in Nat /\ dim \in 1 .. n /\ \A k \in 1 .. n : s[k] \in Nat
  OBVIOUS
<1>2. a \in Seq(Nat) /\ Len(a) = dim - 1 /\ \A k \in 1 .. dim - 1 : a[k] = s[k]
  <2> DEFINE m == dim - 1
  <2>1. 1 \in Int /\ m \in Int /\ \A i \in 1 .. m : s[i] \in Nat
    BY <1>1
  <2> HIDE DEF m
  <2>2. /\ SubSeq(s, 1, m) \in Seq(Nat) /\ Len(SubSeq(s, 1, m)) = IF 1 <= m THEN m - 1 + 1 ELSE 0
        /\ \A i \in 1 .. m - 1 + 1 : SubSeq(s, 1, m)[i] = s[1 + i - 1]
    BY <2>1, SubSeqProperties
  <2> DEFINE u == SubSeq(s, 1, m)
  <2> HIDE DEF u
  <2>3. u \in Seq(Nat) /\ Len(u) = m /\ \A k \in 1 .. m : u[k] = s[k]
    <3>1. \A k \in 1 .. m : k \in 1 .. m - 1 + 1 /\ 1 + k - 1 = k
      BY <2>1
    <3> QED BY <1>1, <2>1, <2>2, <3>1 DEF u, m
  <2> QED BY <2>3 DEF u, m
<1>3. b \in Seq(Nat) /\ Len(b) = n - dim /\ \A k \in 1 .. n - dim : b[k] = s[dim + k]
  <2> DEFINE m == dim + 1
  <2>1. n \in Int /\ m \in Int /\ \A i \in m .. n : s[i] \in Nat
    BY <1>1
  <2> HIDE DEF m, n
  <2>2. /\ SubSeq(s, m, n) \in Seq(Nat) /\ Len(SubSeq(s, m, n)) = IF m <= n THEN n - m + 1 ELSE 0
        /\ \A i \in 1 .. n - m + 1 : SubSeq(s, m, n)[i] = s[m + i - 1]
    BY <2>1, SubSeqProperties
  <2> DEFINE u == SubSeq(s, m, n)
  <2> HIDE DEF u
  <2>3. u \in Seq(Nat) /\ Len(u) = n - dim /\ \A k \in 1 .. n - dim : u[k] = s[dim + k]
    <3>1. \A k \in 1 .. n - dim : k \in 1 .. n - m + 1 /\ m + k - 1 = dim + k
      BY <1>1, <2>1 DEF m
    <3>2. dim <= n
      BY DEF n
    <3> QED BY <1>1, <2>1, <2>2, <3>1, <3>2 DEF u, m
  <2> QED BY <2>3 DEF u, m
<1>4. RemoveAt(s, dim) = a \o b
  BY DEF RemoveAt
<1> DEFINE r == a \o b
<1> HIDE DEF a, b, n
<1>5. /\ r \in Seq(Nat) /\ Len(r) = n - 1
      /\ \A k \in 1 .. n - 1 : r[k] = IF k <= dim - 1 THEN a[k] ELSE b[k - (dim - 1)]
  <2>1. a \in Seq(Nat) /\ b \in Seq(Nat)
    BY <1>2, <1>3
  <2>2. /\ r \in Seq(Nat) /\ Len(r) = Len(a) + Len(b)
        /\ \A k \in 1 .. Len(a) + Len(b) : r[k] = IF k <= Len(a) THEN a[k] ELSE b[k - Len(a)]
    BY <2>1, ConcatProperties
  <2>3. Len(a) + Len(b) = n - 1 /\ Len(a) = dim - 1
    BY <1>1, <1>2, <1>3
  <2> HIDE DEF r
  <2> QED BY <2>2, <2>3
<1>6. ASSUME NEW k \in 1 .. n - 1 PROVE r[k] = IF k < dim THEN s[k] ELSE s[k+1]
  <2>1. r[k] = IF k <= dim - 1 THEN a[k] ELSE b[k - (dim - 1)]
    BY <1>5
  <2>2. CASE k < dim
    BY <1>1, <1>2, <2>1, <2>2
  <2>3. CASE ~(k < dim)
    <3>1. k - (dim - 1) \in 1 .. n - dim /\ dim + (k - (dim - 1)) = k + 1 /\ ~(k <= dim - 1)
      BY <1>1, <2>3
    <3> DEFINE j == k - (dim - 1)
    <3>2. j \in 1 .. n - dim /\ dim + j = k + 1 /\ r[k] = b[j]
      BY <2>1, <3>1
    <3> HIDE DEF j, r
    <3>3. b[j] = s[dim + j]
      BY <1>3, <3>2
    <3> QED BY <2>3, <3>2, <3>3
  <2> QED BY <2>2, <2>3
<1> HIDE DEF r
<1> QED BY <1>4, <1>5, <1>6 DEF n, r

\* A dimension of one element can be dropped: the strides of the others stay.
LEMMA BlocksWithout ==
  ASSUME NEW s \in Seq(Nat), NEW dim \in 1 .. Len(s), s[dim] = 1, Len(s) > 1
  PROVE  /\ \A k \in 0 .. Len(s) - 1 : Block(RemoveAt(s, dim))[k] = IF k < dim THEN Block(s)[k] ELSE Block(s)[k+1]
         /\ Block(s)[dim-1] = Block(s)[dim]
<1> DEFINE n == Len(s)
           m == n - 1
           t == RemoveAt(s, dim)
           A == Block(s)
           B == Block(t)
           Shifted(k) == IF k < dim THEN A[k] ELSE A[k+1]
           T == {j \in 0 .. m : B[m-j] = Shifted(m-j)}
<1>1. n \in Nat /\ m \in Nat /\ m > 0 /\ m + 1 = n /\ dim \in Nat /\ dim \in 1 .. n
  OBVIOUS
<1>2. t \in Seq(Nat) /\ Len(t) = m /\ \A k \in 1 .. m : t[k] = IF k < dim THEN s[k] ELSE s[k+1]
  BY Removed
<1> HIDE DEF t
<1>3. s # <<>> /\ t # <<>>
  BY <1>1, <1>2, EmptySeq
<1>4. A \in [0 .. n -> Nat] /\ A[n] = 1 /\ \A d \in 1 .. n : A[d-1] = s[d] * A[d]
  BY <1>3, Blocks
<1>5. B[m] = 1 /\ \A d \in 1 .. m : B[d-1] = t[d] * B[d]
  BY <1>2, <1>3, Blocks
<1> HIDE DEF A, B, n, m
<1>6. A[dim-1] = A[dim]
  <2>1. A[dim] \in Nat /\ A[dim-1] = 1 * A[dim]
    <3>1. dim \in 0 .. n
      BY <1>1
    <3> QED BY <1>1, <1>4, <3>1
  <2> QED BY <2>1
<1>7. 0 \in T
  <2>1. m - 0 = m
    BY <1>1
  <2>2. B[m] = Shifted(m)
    <3>1. CASE m < dim
      <4>1. dim = n /\ dim - 1 = m
        BY <1>1, <3>1
      <4> QED BY <1>4, <1>5, <1>6, <3>1, <4>1
    <3>2. CASE ~(m < dim)
      BY <1>1, <1>4, <1>5, <3>2
    <3> QED BY <3>1, <3>2
  <2> HIDE DEF Shifted
  <2> QED BY <1>1, <2>1, <2>2
<1>8. ASSUME NEW j \in 0 .. m-1, j \in T PROVE j + 1 \in T
  <2> DEFINE k == m - j
  <2>1. k \in 1 .. m /\ k \in 1 .. n /\ k + 1 \in 1 .. n /\ (k+1) - 1 = k /\ m - (j+1) = k - 1 /\ j + 1 \in 0 .. m
    BY <1>1
  <2>2. B[k] = Shifted(k)
    BY <1>8
  <2> HIDE DEF k
  <2>3. B[k-1] = t[k] * B[k] /\ t[k] = IF k < dim THEN s[k] ELSE s[k+1]
    BY <1>2, <1>5, <2>1
  <2>4. B[k-1] = Shifted(k-1)
    <3>1. CASE k < dim
      <4>1. B[k] = A[k] /\ t[k] = s[k] /\ k - 1 < dim /\ A[k-1] = s[k] * A[k]
        BY <1>1, <1>4, <2>1, <2>2, <2>3, <3>1
      <4>2. B[k-1] = A[k-1]
        BY <2>3, <4>1
      <4> QED BY <4>1, <4>2
    <3>2. CASE ~(k < dim)
      <4>1. B[k] = A[k+1] /\ t[k] = s[k+1]
        BY <2>2, <2>3, <3>2
      <4>2. A[k] = s[k+1] * A[k+1]
        BY <1>4, <2>1
      <4>3. B[k-1] = A[k]
        BY <2>3, <4>1, <4>2
      <4>4. CASE k = dim
        <5>1. k - 1 < dim /\ A[k-1] = A[k]
          BY <1>1, <1>6, <4>4
        <5> QED BY <4>3, <5>1
      <4>5. CASE k # dim
        <5>1. ~(k - 1 < dim) /\ (k-1) + 1 = k
          BY <1>1, <2>1, <3>2, <4>5
        <5> QED BY <4>3, <5>1
      <4> QED BY <4>4, <4>5
    <3> QED BY <3>1, <3>2
  <2> HIDE DEF Shifted
  <2> QED BY <2>1, <2>4
<1> HIDE DEF T
<1>9. 0 .. m \subseteq T
  BY <1>1, <1>7, <1>8, IntervalInduction
<1>10. ASSUME NEW k \in 0 .. m PROVE B[k] = Shifted(k)
  <2>1. m - k \in 0 .. m /\ m - (m - k) = k
    BY <1>1
  <2>2. m - k \in T
    BY <1>9, <2>1
  <2> HIDE DEF Shifted
  <2> QED BY <2>1, <2>2 DEF T
<1> QED BY <1>6, <1>10 DEF n, m, t, A, B

\* Shapes, strides and indices are sequences, and so functions.
LEMMA SeqIsFunction ==
  ASSUME NEW s \in Seq(Nat)
  PROVE  s \in [1 .. Len(s) -> Nat] /\ Len(s) \in Nat
OBVIOUS

\* And functions from 1 .. n are sequences.
LEMMA FunctionIsSeq ==
  ASSUME NEW n \in Nat, NEW s \in [1 .. n -> Nat]
  PROVE  s \in Seq(Nat) /\ Len(s) = n
OBVIOUS

\* What Swap changes.
LEMMA Swapped ==
  ASSUME NEW n \in Nat, NEW s \in [1 .. n -> Nat], NEW d \in 1 .. n, NEW e \in 1 .. n, d # e
  PROVE  /\ Swap(s, d, e) \in [1 .. n -> Nat] /\ Swap(s, d, e)[d] = s[e] /\ Swap(s, d, e)[e] = s[d]
         /\ \A k \in 1 .. n : k # d /\ k # e => Swap(s, d, e)[k] = s[k]
BY DEF Swap

\* e is c with a 0 at dim.
ZeroedAt(dim, n, c, e) == e[dim] = 0 /\ \A k \in 1 .. n : k # dim => e[k] = c[k]

\* Dropping a dimension of one element keeps the offset.
LEMMA OffsetWithout ==
  ASSUME NEW s \in Seq(Nat), NEW dim \in 1 .. Len(s), s[dim] = 1, Len(s) > 1,
         NEW c \in [1 .. Len(s) -> Nat], NEW e \in [1 .. Len(s) -> Nat],
         ZeroedAt(dim, Len(s), c, e)
  PROVE  OffsetIn(RemoveAt(s, dim), RemoveAt(c, dim)) = OffsetIn(s, e)
<1> DEFINE n == Len(s)
           m == n - 1
           t == RemoveAt(s, dim)
           x == RemoveAt(c, dim)
           u == rowMajorStrides(s)
           v == rowMajorStrides(t)
<1>1. n \in Nat /\ m \in Nat /\ m > 0 /\ m + 1 = n /\ dim \in Nat /\ dim \in 1 .. n
  OBVIOUS
<1>2. t \in Seq(Nat) /\ Len(t) = m
  BY Removed
<1>3. x \in [1 .. m -> Nat] /\ \A k \in 1 .. m : x[k] = IF k < dim THEN e[k] ELSE e[k+1]
  <2>1. c \in Seq(Nat) /\ Len(c) = n
    BY <1>1, FunctionIsSeq
  <2>2. x \in Seq(Nat) /\ Len(x) = m /\ \A k \in 1 .. m : x[k] = IF k < dim THEN c[k] ELSE c[k+1]
    <3>1. dim \in 1 .. Len(c)
      BY <1>1, <2>1
    <3>2. /\ x \in Seq(Nat) /\ Len(x) = Len(c) - 1
          /\ \A k \in 1 .. Len(c) - 1 : x[k] = IF k < dim THEN c[k] ELSE c[k+1]
      BY <2>1, <3>1, Removed
    <3> HIDE DEF x, n
    <3> QED BY <2>1, <3>2
  <2> HIDE DEF x, m
  <2>3. \A k \in 1 .. m : (k < dim => e[k] = c[k]) /\ (~(k < dim) => e[k+1] = c[k+1])
    BY <1>1 DEF ZeroedAt
  <2> QED BY <1>1, <2>2, <2>3
<1>4. s # <<>> /\ t # <<>>
  BY <1>1, <1>2, EmptySeq
<1>5. u \in [1 .. n -> Nat] /\ \A k \in 1 .. n : u[k] = Block(s)[k]
  BY <1>4, Blocks
<1>6. v \in [1 .. m -> Nat] /\ \A k \in 1 .. m : v[k] = Block(t)[k]
  BY <1>2, <1>4, Blocks
<1>7. \A k \in 1 .. m : v[k] = IF k < dim THEN u[k] ELSE u[k+1]
  <2> TAKE k \in 1 .. m
  <2>1. k \in 0 .. m /\ k \in 1 .. n /\ k + 1 \in 1 .. n
    BY <1>1
  <2>2. Block(t)[k] = IF k < dim THEN Block(s)[k] ELSE Block(s)[k+1]
    BY <2>1, BlocksWithout
  <2> HIDE DEF u, v, m, t
  <2> QED BY <1>5, <1>6, <2>1, <2>2
<1>8. e \in [1 .. n -> Nat]
  OBVIOUS
<1> HIDE DEF n, m, t, x, u, v
<1>9. PICK f : Sums(f, e, u, n)
  BY <1>1, <1>5, <1>8, SumsExist
<1>10. PICK g : Sums(g, x, v, m)
  BY <1>1, <1>3, <1>6, SumsExist
<1> DEFINE Shifted(k) == IF k < dim THEN f[k] ELSE f[k+1]
           T == {k \in 0 .. m : g[k] = Shifted(k)}
<1>11. 0 \in T
  BY <1>1, <1>9, <1>10 DEF Sums
<1>12. f[dim] = f[dim-1]
  <2>1. dim - 1 \in 0 .. n-1 /\ (dim-1) + 1 = dim /\ dim - 1 \in 0 .. n
    BY <1>1
  <2>2. f[dim] = f[dim-1] + e[dim] * u[dim] /\ f[dim-1] \in Nat
    BY <1>9, <2>1 DEF Sums
  <2>3. e[dim] * u[dim] = 0
    <3>1. e[dim] = 0 /\ u[dim] \in Nat
      BY <1>1, <1>5 DEF ZeroedAt
    <3> QED BY <3>1
  <2> QED BY <2>2, <2>3
<1>13. ASSUME NEW k \in 0 .. m-1, k \in T PROVE k + 1 \in T
  <2>1. k + 1 \in 1 .. m /\ k \in 0 .. n-1 /\ k + 1 \in 0 .. n-1 /\ k + 1 \in 0 .. m
    BY <1>1
  <2>2. g[k+1] = g[k] + x[k+1] * v[k+1]
    BY <1>10 DEF Sums
  <2>3. f[k+1] = f[k] + e[k+1] * u[k+1] /\ f[(k+1)+1] = f[k+1] + e[(k+1)+1] * u[(k+1)+1]
    BY <1>9, <2>1 DEF Sums
  <2>4. g[k+1] = Shifted(k+1)
    <3>1. CASE k + 1 < dim
      <4>1. g[k] = f[k] /\ x[k+1] = e[k+1] /\ v[k+1] = u[k+1]
        BY <1>1, <1>3, <1>7, <1>13, <2>1, <3>1
      <4>2. g[k+1] = f[k+1]
        BY <2>2, <2>3, <4>1
      <4> QED BY <3>1, <4>2
    <3>2. CASE ~(k + 1 < dim)
      <4>1. x[k+1] = e[(k+1)+1] /\ v[k+1] = u[(k+1)+1]
        BY <1>3, <1>7, <2>1, <3>2
      <4>2. g[k] = f[k+1]
        <5>1. CASE k + 1 = dim
          <6>1. k < dim /\ dim - 1 = k
            BY <1>1, <5>1
          <6>2. g[k] = f[k]
            BY <1>13, <6>1
          <6> QED BY <1>12, <5>1, <6>1, <6>2
        <5>2. CASE k + 1 # dim
          <6>1. ~(k < dim)
            BY <1>1, <2>1, <3>2, <5>2
          <6> QED BY <1>13, <6>1
        <5> QED BY <5>1, <5>2
      <4>3. g[k+1] = f[(k+1)+1]
        BY <2>2, <2>3, <4>1, <4>2
      <4> QED BY <3>2, <4>3
    <3> QED BY <3>1, <3>2
  <2> HIDE DEF Shifted
  <2> QED BY <2>1, <2>4
<1> HIDE DEF T
<1>14. 0 .. m \subseteq T
  BY <1>1, <1>11, <1>13, IntervalInduction
<1>15. g[m] = f[n]
  <2>1. m \in T
    BY <1>1, <1>14
  <2>2. g[m] = Shifted(m)
    BY <2>1 DEF T
  <2>3. CASE m < dim
    <3>1. dim = n /\ dim - 1 = m
      BY <1>1, <2>3
    <3> QED BY <1>12, <2>2, <2>3, <3>1
  <2>4. CASE ~(m < dim)
    BY <1>1, <2>2, <2>4
  <2> QED BY <2>3, <2>4
<1> QED BY <1>9, <1>10, <1>15 DEF Sums, OffsetIn, t, x, u, v

-----------------------------------------------------------------------------
\* A buffer holds an array.
Laid(s, b, a) ==
  /\ DOMAIN b = Offsets(s)
  /\ \A c \in Indices(s) : b[OffsetIn(s, c)] = a[c]

\* A tensor filled in the order of its offsets holds the array of that order.
LEMMA FreshLaid ==
  ASSUME NEW s \in Seq(Nat), s # <<>>, NEW tag
  PROVE  Laid(s, FreshBuf(s, tag), FreshArray(s, tag))
<1>1. ASSUME NEW c \in Indices(s)
      PROVE  FreshBuf(s, tag)[OffsetIn(s, c)] = FreshArray(s, tag)[c]
  <2>1. OffsetIn(s, c) \in Offsets(s) /\ Rank(c, s) = OffsetIn(s, c)
    BY OffsetInside, RankIsOffset
  <2>2. FreshBuf(s, tag)[OffsetIn(s, c)] = {<<tag, OffsetIn(s, c)>>}
    BY <2>1 DEF FreshBuf
  <2>3. FreshArray(s, tag)[c] = {<<tag, Rank(c, s)>>}
    BY DEF FreshArray
  <2> QED BY <2>1, <2>2, <2>3
<1>2. DOMAIN FreshBuf(s, tag) = Offsets(s)
  BY DEF FreshBuf
<1> QED BY <1>1, <1>2 DEF Laid

\* transpose lays out the array with two dimensions swapped.
LEMMA TransposeLaid ==
  ASSUME NEW s \in Seq(Nat), s # <<>>, NEW b, NEW a, Laid(s, b, a),
         NEW d \in 1 .. Len(s), NEW e \in 1 .. Len(s), d < e,
         NEW t, t = Swap(s, d, e),
         NEW b2, b2 = [i \in DOMAIN transpose(s, d, e) |-> b[transpose(s, d, e)[i]]],
         NEW a2, a2 = [c \in Indices(t) |-> a[Swap(c, d, e)]]
  PROVE  t \in Seq(Nat) /\ t # <<>> /\ Laid(t, b2, a2)
<1> DEFINE n == Len(s)
           st == rowMajorStrides(s)
           moved == transpose(s, d, e)
<1>1. /\ t \in [1 .. n -> Nat] /\ t[d] = s[e] /\ t[e] = s[d]
      /\ \A k \in 1 .. n : k # d /\ k # e => t[k] = s[k]
  <2>1. n \in Nat /\ s \in [1 .. n -> Nat] /\ d \in 1 .. n /\ e \in 1 .. n /\ d # e
    BY SeqIsFunction
  <2> HIDE DEF n
  <2> QED BY <2>1, Swapped
<1>2. t \in Seq(Nat) /\ Len(t) = n /\ t # <<>>
  <2>1. t \in Seq(Nat) /\ Len(t) = n
    <3>1. n \in Nat
      OBVIOUS
    <3> HIDE DEF n
    <3> QED BY <1>1, <3>1, FunctionIsSeq
  <2>2. n # 0
    BY EmptySeq
  <2> QED BY <2>1, <2>2, EmptySeq
<1>3. moved = [i \in Offsets(t) |-> Offset(Coords(i, rowMajorStrides(t)), Swap(st, d, e))]
  BY DEF transpose
<1> HIDE DEF moved
<1>4. ASSUME NEW c \in Indices(t) PROVE b2[OffsetIn(t, c)] = a2[c]
  <2> DEFINE o == OffsetIn(t, c)
             x == Swap(c, d, e)
  <2>1. o \in Offsets(t) /\ Coords(o, rowMajorStrides(t)) = c
    BY <1>2, OffsetInside, CoordsOfOffset
  <2>2. c \in [1 .. n -> Nat] /\ \A k \in 1 .. n : c[k] < t[k]
    BY <1>2, IndicesAre
  <2>3. /\ x \in [1 .. n -> Nat] /\ x[d] = c[e] /\ x[e] = c[d]
        /\ \A k \in 1 .. n : k # d /\ k # e => x[k] = c[k]
    <3> HIDE DEF n
    <3>1. n \in Nat /\ d \in 1 .. n /\ e \in 1 .. n /\ d # e
      BY DEF n
    <3> QED BY <2>2, <3>1, Swapped DEF x
  <2> HIDE DEF o, x
  <2>4. x \in Indices(s)
    <3>1. \A k \in 1 .. n : x[k] < s[k]
      BY <1>1, <2>2, <2>3
    <3> QED BY <2>3, <3>1, IndicesAre
  <2>5. st \in [1 .. n -> Nat] /\ n \in Nat
    BY Blocks
  <2>6. Offset(c, Swap(st, d, e)) = OffsetIn(s, x)
    <3> DEFINE w == st
    <3>1. w \in [1 .. n -> Nat] /\ d \in 1 .. n /\ e \in 1 .. n
      BY <2>5
    <3> HIDE DEF w, n
    <3>2. Offset(c, Swap(w, d, e)) = Offset(Swap(c, d, e), w)
      BY <2>2, <2>5, <3>1, OffsetSwapped
    <3> QED BY <3>2 DEF OffsetIn, w, x
  <2>7. moved[o] = OffsetIn(s, x)
    <3> HIDE DEF st
    <3> QED BY <1>3, <2>1, <2>6
  <2>8. b2[o] = b[moved[o]]
    BY <1>3, <2>1 DEF moved
  <2>9. b[OffsetIn(s, x)] = a[x]
    BY <2>4 DEF Laid
  <2>10. a2[c] = a[x]
    BY DEF x
  <2> QED BY <2>7, <2>8, <2>9, <2>10 DEF o
<1>5. DOMAIN b2 = Offsets(t)
  BY <1>3 DEF moved
<1>6. Laid(t, b2, a2)
  BY <1>4, <1>5 DEF Laid
<1> QED BY <1>2, <1>6

\* The arrays of the operations, as Tensors defines them.
ReshapedArray(s, a, t) ==
  [c \in Indices(t) |-> a[CHOOSE e \in Indices(s) : Rank(e, s) = Rank(c, t)]]

\* reshape keeps the buffer: its array has the elements in the same order.
LEMMA ReshapeLaid ==
  ASSUME NEW s \in Seq(Nat), s # <<>>, NEW b, NEW a, Laid(s, b, a),
         NEW t \in Seq(Nat), t # <<>>, shapeNumel(t) = shapeNumel(s)
  PROVE  Laid(t, b, ReshapedArray(s, a, t))
<1>1. Offsets(t) = Offsets(s)
  BY DEF Offsets
<1>2. ASSUME NEW c \in Indices(t) PROVE b[OffsetIn(t, c)] = ReshapedArray(s, a, t)[c]
  <2> DEFINE o == OffsetIn(t, c)
             e == Coords(o, rowMajorStrides(s))
             x == CHOOSE x \in Indices(s) : Rank(x, s) = Rank(c, t)
  <2>1. o \in Offsets(s) /\ Rank(c, t) = o
    BY <1>1, OffsetInside, RankIsOffset
  <2>2. e \in Indices(s) /\ OffsetIn(s, e) = o
    <3> HIDE DEF o
    <3> QED BY <2>1, OffsetOfCoords
  <2>3. Rank(e, s) = Rank(c, t)
    <3> HIDE DEF o, e
    <3> QED BY <2>1, <2>2, RankIsOffset
  <2>4. x \in Indices(s) /\ Rank(x, s) = Rank(c, t)
    <3> HIDE DEF e
    <3> QED BY <2>2, <2>3
  <2>5. ReshapedArray(s, a, t)[c] = a[x]
    BY DEF ReshapedArray
  <2> HIDE DEF x, o
  <2>6. OffsetIn(s, x) = o
    BY <2>1, <2>4, RankIsOffset
  <2>7. b[OffsetIn(s, x)] = a[x]
    BY <2>4 DEF Laid
  <2> QED BY <2>5, <2>6, <2>7 DEF o
<1> QED BY <1>1, <1>2 DEF Laid

\* What reshape accepts has as many elements.
LEMMA ReshapeKeepsNumel ==
  ASSUME NEW s \in Seq(Nat), s # <<>>, NEW new \in Seq(Nat \union {-1}), new # <<>>,
         reshape(s, new).ok
  PROVE  /\ reshape(s, new).shape \in Seq(Nat) /\ reshape(s, new).shape # <<>>
         /\ shapeNumel(reshape(s, new).shape) = shapeNumel(s)
<1> DEFINE n == Len(new)
           holes == {d \in DOMAIN new : new[d] = -1}
           counted == [d \in DOMAIN new |-> IF d \in holes THEN 1 ELSE new[d]]
           known == Product(counted)
           filled == [d \in DOMAIN new |-> IF d \in holes THEN shapeNumel(s) \div known ELSE new[d]]
           infers == holes = {} \/ /\ Cardinality(holes) = 1
                                   /\ known # 0
                                   /\ shapeNumel(s) % known = 0
           matches == infers /\ shapeNumel(filled) = shapeNumel(s)
<1>1. reshape(s, new) = IF matches THEN [ok |-> TRUE, shape |-> filled] ELSE [ok |-> FALSE, shape |-> s]
  BY DEF reshape
<1>2. n \in Nat /\ DOMAIN new = 1 .. n /\ \A d \in 1 .. n : d \notin holes => new[d] \in Nat
  OBVIOUS
<1>3. known \in Nat
  <2>1. counted \in [1 .. n -> Nat]
    <3>1. \A d \in 1 .. n : (IF d \in holes THEN 1 ELSE new[d]) \in Nat
      BY <1>2
    <3> HIDE DEF holes, n
    <3> QED BY <1>2, <3>1
  <2> HIDE DEF counted, n
  <2>2. counted \in Seq(Nat)
    BY <1>2, <2>1, FunctionIsSeq
  <2> QED BY <2>2, ProductInNat
<1> HIDE DEF matches
<1>4. matches /\ reshape(s, new).shape = filled
  <2>1. CASE ~matches
    <3>1. reshape(s, new).ok = FALSE
      BY <1>1, <2>1
    <3> QED BY <3>1
  <2>2. CASE matches
    BY <1>1, <2>2
  <2> QED BY <2>1, <2>2
<1> HIDE DEF known
<1>5. \A d \in holes : shapeNumel(s) \div known \in Nat
  <2> TAKE d \in holes
  <2>1. known # 0 /\ shapeNumel(s) \in Nat
    BY <1>4, Numel DEF matches
  <2> DEFINE m == shapeNumel(s)
  <2>2. m \in Nat /\ known \in Nat /\ known # 0
    BY <1>3, <2>1
  <2> HIDE DEF m
  <2>3. m \div known \in Nat
    BY <2>2
  <2> QED BY <2>3 DEF m
<1>6. filled \in [1 .. n -> Nat]
  <2>1. \A d \in 1 .. n : (IF d \in holes THEN shapeNumel(s) \div known ELSE new[d]) \in Nat
    BY <1>2, <1>5
  <2> HIDE DEF holes, n
  <2> QED BY <1>2, <2>1
<1>7. n # 0
  BY EmptySeq
<1>8. shapeNumel(filled) = shapeNumel(s)
  BY <1>4 DEF matches
<1> HIDE DEF filled, n
<1>9. filled \in Seq(Nat) /\ Len(filled) = n
  BY <1>2, <1>6, FunctionIsSeq
<1>10. filled # <<>>
  BY <1>7, <1>9, EmptySeq
<1> QED BY <1>4, <1>8, <1>9, <1>10

\* The elements a kernel adds up at an offset, and those with one index.
ElementsAt(b, into, o) == {b[i] : i \in {i \in DOMAIN b : into[i] = o}}
AddedAt(b, into, o) == UNION ElementsAt(b, into, o)
AddedTo(a, s, K, k) == UNION {a[c] : c \in {c \in Indices(s) : K[c] = k}}

AddedBuf(b, into, t)   == [o \in Offsets(t) |-> AddedAt(b, into, o)]
AddedArray(a, s, K, t) == [k \in Indices(t) |-> AddedTo(a, s, K, k)]

\* into takes the offset of c to that of K[c].
Takes(s, t, into, K) ==
  \A c \in Indices(s) : K[c] \in Indices(t) /\ into[OffsetIn(s, c)] = OffsetIn(t, K[c])

\* A kernel that takes indices to indices adds up the elements of each index.
LEMMA AddsTheSame ==
  ASSUME NEW s \in Seq(Nat), s # <<>>, NEW b, NEW a, Laid(s, b, a),
         NEW t \in Seq(Nat), t # <<>>, NEW into, NEW K, Takes(s, t, into, K),
         NEW k \in Indices(t)
  PROVE  AddedAt(b, into, OffsetIn(t, k)) = AddedTo(a, s, K, k)
<1> DEFINE o == OffsetIn(t, k)
           I == {i \in DOMAIN b : into[i] = o}
           C == {c \in Indices(s) : K[c] = k}
<1>1. ASSUME NEW i \in I PROVE \E c \in C : b[i] = a[c]
  <2> DEFINE c == Coords(i, rowMajorStrides(s))
  <2>1. i \in Offsets(s) /\ into[i] = o
    BY DEF Laid
  <2>2. c \in Indices(s) /\ OffsetIn(s, c) = i
    BY <2>1, OffsetOfCoords
  <2> HIDE DEF c
  <2>3. K[c] \in Indices(t) /\ OffsetIn(t, K[c]) = OffsetIn(t, k)
    BY <2>1, <2>2 DEF Takes
  <2> DEFINE e == K[c]
  <2> HIDE DEF e
  <2>4. e = k
    BY <2>3, OneOffsetEach DEF e
  <2>5. c \in C /\ b[i] = a[c]
    BY <2>2, <2>4 DEF Laid, e
  <2> HIDE DEF C
  <2> QED BY <2>5
<1>2. ASSUME NEW c \in C PROVE \E i \in I : b[i] = a[c]
  <2> DEFINE i == OffsetIn(s, c)
  <2>1. c \in Indices(s) /\ K[c] = k
    OBVIOUS
  <2>2. i \in Offsets(s) /\ b[i] = a[c] /\ into[i] = o
    BY <2>1, OffsetInside DEF Laid, Takes
  <2> HIDE DEF i, o
  <2>3. i \in I
    BY <2>2 DEF Laid
  <2> HIDE DEF I
  <2> QED BY <2>2, <2>3
<1> HIDE DEF I, C
<1>3. {b[i] : i \in I} = {a[c] : c \in C}
  BY <1>1, <1>2
<1> QED BY <1>3 DEF AddedAt, ElementsAt, AddedTo, I, C, o

\* And so it lays out the array of their sums.
LEMMA AddsLaid ==
  ASSUME NEW s \in Seq(Nat), s # <<>>, NEW b, NEW a, Laid(s, b, a),
         NEW t \in Seq(Nat), t # <<>>, NEW into, NEW K, Takes(s, t, into, K)
  PROVE  Laid(t, AddedBuf(b, into, t), AddedArray(a, s, K, t))
<1>1. ASSUME NEW k \in Indices(t)
      PROVE  AddedBuf(b, into, t)[OffsetIn(t, k)] = AddedArray(a, s, K, t)[k]
  <2>1. AddedAt(b, into, OffsetIn(t, k)) = AddedTo(a, s, K, k)
    BY AddsTheSame
  <2>2. OffsetIn(t, k) \in Offsets(t)
    BY OffsetInside
  <2> QED BY <2>1, <2>2 DEF AddedBuf, AddedArray
<1> QED BY <1>1 DEF Laid, AddedBuf

\* Setting one element of a shape or an index.
LEMMA SetAt ==
  ASSUME NEW n \in Nat, NEW s \in [1 .. n -> Nat], NEW d \in 1 .. n, NEW v \in Nat
  PROVE  /\ [s EXCEPT ![d] = v] \in [1 .. n -> Nat] /\ [s EXCEPT ![d] = v][d] = v
         /\ \A k \in 1 .. n : k # d => [s EXCEPT ![d] = v][k] = s[k]
OBVIOUS

\* The index of the sum that an index is added to.
KeptPart(s, dim, keepdim) ==
  [c \in Indices(s) |-> IF keepdim THEN [c EXCEPT ![dim] = 0] ELSE RemoveAt(c, dim)]

\* sum along a dimension, which it keeps as one element or drops.
LEMMA ReduceLaid ==
  ASSUME NEW s \in Seq(Nat), s # <<>>, NEW b, NEW a, Laid(s, b, a),
         NEW dim \in 1 .. Len(s), NEW keepdim \in BOOLEAN,
         NEW t, t = reduce(s, dim, keepdim).shape, t # <<>>,
         NEW b2, b2 = AddedBuf(b, reduce(s, dim, keepdim).into, t),
         NEW a2, a2 = AddedArray(a, s, KeptPart(s, dim, keepdim), t)
  PROVE  t \in Seq(Nat) /\ Laid(t, b2, a2)
<1> DEFINE n == Len(s)
           K == KeptPart(s, dim, keepdim)
           out == [s EXCEPT ![dim] = 1]
           st == rowMajorStrides(s)
           To(i) == [Coords(i, st) EXCEPT ![dim] = 0]
           into == [i \in Offsets(s) |-> Offset(To(i), rowMajorStrides(out))]
<1>1. reduce(s, dim, keepdim) = [shape |-> IF keepdim THEN out ELSE RemoveAt(out, dim), into |-> into]
  BY DEF reduce
<1>2. t = (IF keepdim THEN out ELSE RemoveAt(out, dim)) /\ reduce(s, dim, keepdim).into = into
  <2> DEFINE x == IF keepdim THEN out ELSE RemoveAt(out, dim)
  <2>1. reduce(s, dim, keepdim) = [shape |-> x, into |-> into]
    BY <1>1
  <2> HIDE DEF x, into
  <2>2. t = x /\ reduce(s, dim, keepdim).into = into
    BY <2>1
  <2> QED BY <2>2 DEF x
<1>3. n \in Nat /\ s \in [1 .. n -> Nat] /\ dim \in 1 .. n /\ n # 0
  BY SeqIsFunction, EmptySeq
<1>4. out \in [1 .. n -> Nat] /\ out[dim] = 1 /\ \A k \in 1 .. n : k # dim => out[k] = s[k]
  <2> HIDE DEF n
  <2> QED BY <1>3, SetAt
<1> HIDE DEF n, out
<1>5. out \in Seq(Nat) /\ Len(out) = n /\ out # <<>>
  BY <1>3, <1>4, FunctionIsSeq, EmptySeq
<1>6. ASSUME NEW c \in Indices(s)
      PROVE  LET z == [c EXCEPT ![dim] = 0]
             IN  /\ c \in [1 .. n -> Nat] /\ z \in [1 .. n -> Nat] /\ z[dim] = 0
                 /\ \A k \in 1 .. n : k # dim => z[k] = c[k]
                 /\ \A k \in 1 .. n : c[k] < s[k]
                 /\ z \in Indices(out)
                 /\ into[OffsetIn(s, c)] = OffsetIn(out, z)
  <2> DEFINE z == [c EXCEPT ![dim] = 0]
             o == OffsetIn(s, c)
  <2>1. c \in [1 .. n -> Nat] /\ \A k \in 1 .. n : c[k] < s[k]
    BY IndicesAre DEF n
  <2>2. z \in [1 .. n -> Nat] /\ z[dim] = 0 /\ \A k \in 1 .. n : k # dim => z[k] = c[k]
    BY <1>3, <2>1, SetAt
  <2>3. o \in Offsets(s) /\ Coords(o, st) = c
    BY OffsetInside, CoordsOfOffset
  <2> HIDE DEF st, o
  <2>4. into[o] = Offset(z, rowMajorStrides(out))
    BY <2>3
  <2> HIDE DEF z, into
  <2>5. z \in Indices(out)
    <3>1. \A k \in 1 .. n : z[k] < out[k]
      BY <1>4, <2>1, <2>2
    <3> QED BY <1>5, <2>2, <3>1, IndicesAre
  <2>6. into[o] = OffsetIn(out, z)
    BY <2>4 DEF OffsetIn
  <2> QED BY <2>1, <2>2, <2>5, <2>6 DEF z, o
<1> HIDE DEF into
<1>7. CASE keepdim
  <2>1. t = out /\ \A c \in Indices(s) : K[c] = [c EXCEPT ![dim] = 0]
    BY <1>2, <1>7 DEF KeptPart
  <2>2. Takes(s, t, into, K)
    BY <1>6, <2>1 DEF Takes
  <2>3. t \in Seq(Nat)
    BY <1>5, <2>1
  <2>4. b2 = AddedBuf(b, into, t)
    BY <1>2
  <2>5. Laid(t, b2, a2)
    BY <2>2, <2>3, <2>4, AddsLaid
  <2> QED BY <2>3, <2>5
<1>8. CASE ~keepdim
  <2>1. t = RemoveAt(out, dim) /\ \A c \in Indices(s) : K[c] = RemoveAt(c, dim)
    BY <1>2, <1>8 DEF KeptPart
  <2>2. /\ t \in Seq(Nat) /\ Len(t) = n - 1
        /\ \A k \in 1 .. n - 1 : t[k] = IF k < dim THEN out[k] ELSE out[k+1]
    <3>1. dim \in 1 .. Len(out)
      BY <1>3, <1>5
    <3> HIDE DEF out
    <3> QED BY <1>5, <2>1, <3>1, Removed
  <2>3. n > 1
    <3>1. Len(t) # 0
      BY <2>2, EmptySeq
    <3> QED BY <1>3, <2>2, <3>1
  <2>4. ASSUME NEW c \in Indices(s)
        PROVE  K[c] \in Indices(t) /\ into[OffsetIn(s, c)] = OffsetIn(t, K[c])
    <3> DEFINE z == [c EXCEPT ![dim] = 0]
               x == RemoveAt(c, dim)
    <3>1. /\ c \in [1 .. n -> Nat] /\ z \in [1 .. n -> Nat] /\ z[dim] = 0
          /\ \A k \in 1 .. n : k # dim => z[k] = c[k]
          /\ \A k \in 1 .. n : c[k] < s[k]
          /\ into[OffsetIn(s, c)] = OffsetIn(out, z)
      BY <1>6
    <3> HIDE DEF z
    <3>2. OffsetIn(RemoveAt(out, dim), x) = OffsetIn(out, z)
      <4>1. /\ dim \in 1 .. Len(out) /\ Len(out) > 1
            /\ c \in [1 .. Len(out) -> Nat] /\ z \in [1 .. Len(out) -> Nat]
            /\ ZeroedAt(dim, Len(out), c, z)
        BY <1>3, <1>5, <2>3, <3>1 DEF ZeroedAt
      <4>2. out \in Seq(Nat) /\ out[dim] = 1
        BY <1>4, <1>5
      <4> QED BY <4>1, <4>2, OffsetWithout
    <3>3. x \in Seq(Nat) /\ Len(x) = n - 1 /\ \A k \in 1 .. n - 1 : x[k] = IF k < dim THEN c[k] ELSE c[k+1]
      <4>1. c \in Seq(Nat) /\ Len(c) = n
        BY <1>3, <3>1, FunctionIsSeq
      <4>2. dim \in 1 .. Len(c)
        BY <1>3, <4>1
      <4>3. /\ x \in Seq(Nat) /\ Len(x) = Len(c) - 1
            /\ \A k \in 1 .. Len(c) - 1 : x[k] = IF k < dim THEN c[k] ELSE c[k+1]
        BY <4>1, <4>2, Removed
      <4> HIDE DEF x
      <4> QED BY <4>1, <4>3
    <3> HIDE DEF x
    <3>4. x \in [1 .. Len(t) -> Nat]
      BY <2>2, <3>3, SeqIsFunction
    <3>5. \A k \in 1 .. n - 1 : x[k] < t[k]
      <4> TAKE k \in 1 .. n - 1
      <4>1. k \in 1 .. n /\ k + 1 \in 1 .. n /\ k \in Nat /\ dim \in Nat
        BY <1>3
      <4>2. CASE k < dim
        <5>1. x[k] = c[k] /\ t[k] = out[k]
          BY <2>2, <3>3, <4>2
        <5>2. out[k] = s[k]
          BY <1>4, <4>1, <4>2
        <5> QED BY <3>1, <4>1, <5>1, <5>2
      <4>3. CASE ~(k < dim)
        <5>1. x[k] = c[k+1] /\ t[k] = out[k+1]
          BY <2>2, <3>3, <4>3
        <5>2. out[k+1] = s[k+1]
          BY <1>4, <4>1, <4>3
        <5> QED BY <3>1, <4>1, <5>1, <5>2
      <4> QED BY <4>2, <4>3
    <3>6. x \in Indices(t)
      <4>1. \A k \in 1 .. Len(t) : x[k] < t[k]
        BY <2>2, <3>5
      <4> QED BY <2>2, <3>4, <4>1, IndicesAre
    <3>7. K[c] = x
      BY <2>1 DEF x
    <3> QED BY <2>1, <3>1, <3>2, <3>6, <3>7
  <2>5. b2 = AddedBuf(b, into, t)
    BY <1>2
  <2>6. Takes(s, t, into, K)
    BY <2>4 DEF Takes
  <2>7. Laid(t, b2, a2)
    BY <2>2, <2>5, <2>6, AddsLaid
  <2> QED BY <2>2, <2>7
<1> QED BY <1>7, <1>8

\* A shape of ones has one element.
LEMMA OnesNumel ==
  ASSUME NEW t \in Seq(Nat), t # <<>>, \A d \in 1 .. Len(t) : t[d] = 1
  PROVE  shapeNumel(t) = 1
<1>1. PICK f : f[0] = 1 /\ f[Len(t)] = Product(t) /\ \A k \in 0 .. Len(t)-1 : f[k+1] = f[k] * t[k+1]
  BY ProductSteps
<1> DEFINE T == {k \in 0 .. Len(t) : f[k] = 1}
<1>2. 0 \in T /\ Len(t) \in Nat
  BY <1>1
<1>3. ASSUME NEW k \in 0 .. Len(t)-1, k \in T PROVE k + 1 \in T
  <2>1. f[k+1] = f[k] * t[k+1] /\ t[k+1] = 1 /\ f[k] = 1
    BY <1>1, <1>3
  <2> QED BY <2>1
<1> HIDE DEF T
<1>4. 0 .. Len(t) \subseteq T
  BY <1>2, <1>3, IntervalInduction
<1>5. Len(t) \in T
  BY <1>2, <1>4
<1>6. Product(t) = 1
  BY <1>1, <1>5 DEF T
<1> QED BY <1>6, Numel

\* The array of the sum of all elements.
AllAdded(s, a, t) == [c \in Indices(t) |-> UNION {a[e] : e \in Indices(s)}]

\* sum of all elements.
LEMMA ReduceAllLaid ==
  ASSUME NEW s \in Seq(Nat), s # <<>>, NEW b, NEW a, Laid(s, b, a), NEW keepdim \in BOOLEAN,
         NEW t, t = reduceAll(s, keepdim).shape,
         NEW b2, b2 = AddedBuf(b, reduceAll(s, keepdim).into, t),
         NEW a2, a2 = AllAdded(s, a, t)
  PROVE  t \in Seq(Nat) /\ t # <<>> /\ Laid(t, b2, a2)
<1> DEFINE into == [i \in Offsets(s) |-> 0]
           n == Len(s)
<1>1. /\ t = (IF keepdim THEN [d \in DOMAIN s |-> 1] ELSE <<1>>)
      /\ reduceAll(s, keepdim).into = into
  BY DEF reduceAll
<1>2. t \in Seq(Nat) /\ t # <<>> /\ \A d \in 1 .. Len(t) : t[d] = 1
  <2>1. CASE keepdim
    <3>1. t = [d \in 1 .. n |-> 1] /\ n \in Nat /\ n # 0
      BY <1>1, <2>1, EmptySeq
    <3> HIDE DEF n
    <3>2. t \in [1 .. n -> Nat] /\ \A d \in 1 .. n : t[d] = 1
      BY <3>1
    <3>3. t \in Seq(Nat) /\ Len(t) = n
      BY <3>1, <3>2, FunctionIsSeq
    <3> QED BY <3>1, <3>2, <3>3, EmptySeq
  <2>2. CASE ~keepdim
    <3>1. t = <<1>>
      BY <1>1, <2>2
    <3> QED BY <3>1
  <2> QED BY <2>1, <2>2
<1>3. shapeNumel(t) = 1
  BY <1>2, OnesNumel
<1>4. ASSUME NEW k \in Indices(t) PROVE b2[OffsetIn(t, k)] = a2[k]
  <2> DEFINE K == [c \in Indices(s) |-> k]
  <2>1. OffsetIn(t, k) \in Offsets(t) /\ OffsetIn(t, k) = 0
    <3>1. OffsetIn(t, k) \in Offsets(t)
      BY <1>2, OffsetInside
    <3> QED BY <1>3, <3>1 DEF Offsets
  <2>2. Takes(s, t, into, K)
    <3> SUFFICES ASSUME NEW c \in Indices(s)
                 PROVE  K[c] \in Indices(t) /\ into[OffsetIn(s, c)] = OffsetIn(t, K[c])
      BY DEF Takes
    <3>1. OffsetIn(s, c) \in Offsets(s)
      BY OffsetInside
    <3> QED BY <2>1, <3>1
  <2> HIDE DEF K, into
  <2>3. AddedAt(b, into, OffsetIn(t, k)) = AddedTo(a, s, K, k)
    BY <1>2, <2>2, AddsTheSame
  <2>4. AddedTo(a, s, K, k) = UNION {a[e] : e \in Indices(s)}
    <3>1. {c \in Indices(s) : K[c] = k} = Indices(s)
      BY DEF K
    <3> QED BY <3>1 DEF AddedTo
  <2>5. b2[OffsetIn(t, k)] = AddedAt(b, into, OffsetIn(t, k))
    BY <1>1, <2>1 DEF AddedBuf
  <2>6. a2[k] = UNION {a[e] : e \in Indices(s)}
    BY DEF AllAdded
  <2> QED BY <2>3, <2>4, <2>5, <2>6
<1> QED BY <1>2, <1>4 DEF Laid, AddedBuf

\* s and u can be joined along dim.
Joins(s, u, dim) ==
  /\ s # <<>> /\ Len(u) = Len(s) /\ dim \in 1 .. Len(s)
  /\ \A d \in DOMAIN s : d = dim \/ u[d] = s[d]

\* The shape they are joined to.
Joined(s, u, dim) == [s EXCEPT ![dim] = s[dim] + u[dim]]

\* An index k places further on.
MovedBy(c, dim, k) == [c EXCEPT ![dim] = @ + k]

\* The shape of a concatenation.
LEMMA JoinedShape ==
  ASSUME NEW s \in Seq(Nat), NEW u \in Seq(Nat), NEW dim, Joins(s, u, dim)
  PROVE  /\ Joined(s, u, dim) \in Seq(Nat) /\ Joined(s, u, dim) # <<>>
         /\ Len(Joined(s, u, dim)) = Len(s) /\ u # <<>>
         /\ Joined(s, u, dim)[dim] = s[dim] + u[dim]
         /\ \A k \in 1 .. Len(s) : k # dim => Joined(s, u, dim)[k] = s[k] /\ u[k] = s[k]
<1> DEFINE n == Len(s)
           t == Joined(s, u, dim)
<1>1. n \in Nat /\ n # 0 /\ s \in [1 .. n -> Nat] /\ u \in [1 .. n -> Nat] /\ dim \in 1 .. n /\ Len(u) = n
  BY SeqIsFunction, EmptySeq DEF Joins
<1>2. \A k \in 1 .. n : k # dim => u[k] = s[k]
  BY <1>1 DEF Joins
<1> HIDE DEF n
<1>3. s[dim] + u[dim] \in Nat
  BY <1>1
<1>4. t \in [1 .. n -> Nat] /\ t[dim] = s[dim] + u[dim] /\ \A k \in 1 .. n : k # dim => t[k] = s[k]
  <2> DEFINE v == s[dim] + u[dim]
  <2> HIDE DEF v
  <2>1. t = [s EXCEPT ![dim] = v]
    BY DEF Joined, v
  <2> HIDE DEF t
  <2>2. t \in [1 .. n -> Nat] /\ t[dim] = v /\ \A k \in 1 .. n : k # dim => t[k] = s[k]
    BY <1>1, <1>3, <2>1 DEF v
  <2> QED BY <2>2 DEF v
<1> HIDE DEF t
<1>5. t \in Seq(Nat) /\ Len(t) = n
  BY <1>1, <1>4, FunctionIsSeq
<1>6. t # <<>> /\ u # <<>>
  BY <1>1, <1>5, EmptySeq
<1> QED BY <1>2, <1>4, <1>5, <1>6 DEF n, t

\* Moving an index by k changes one coordinate.
LEMMA Moved ==
  ASSUME NEW n \in Nat, NEW c \in [1 .. n -> Nat], NEW dim \in 1 .. n, NEW k \in Nat
  PROVE  IsMoved(n, c, dim, k, MovedBy(c, dim, k)) /\ (k = 0 => MovedBy(c, dim, k) = c)
<1>1. c[dim] + k \in Nat
  OBVIOUS
<1>2. MovedBy(c, dim, k) = [c EXCEPT ![dim] = c[dim] + k]
  BY DEF MovedBy
<1>3. /\ MovedBy(c, dim, k) \in [1 .. n -> Nat] /\ MovedBy(c, dim, k)[dim] = c[dim] + k
      /\ \A d \in 1 .. n : d # dim => MovedBy(c, dim, k)[d] = c[d]
  BY <1>1, <1>2
<1> DEFINE x == MovedBy(c, dim, k)
<1> HIDE DEF x
<1>4. ASSUME k = 0 PROVE x = c
  <2>1. x \in [1 .. n -> Nat] /\ \A d \in 1 .. n : x[d] = c[d]
    BY <1>3, <1>4 DEF x
  <2> QED BY <2>1
<1> QED BY <1>3, <1>4 DEF x, IsMoved

\* Functions with equal values are equal.
LEMMA SameFunction ==
  ASSUME NEW n \in Nat, NEW f \in [1 .. n -> Nat], NEW g \in [1 .. n -> Nat], \A k \in 1 .. n : f[k] = g[k]
  PROVE  f = g
OBVIOUS

\* Along the first dimension the strides are those of both operands.
LEMMA FirstStrides ==
  ASSUME NEW s \in Seq(Nat), NEW u \in Seq(Nat), Joins(s, u, 1)
  PROVE  /\ rowMajorStrides(Joined(s, u, 1)) = rowMajorStrides(s)
         /\ rowMajorStrides(u) = rowMajorStrides(s)
<1> DEFINE n == Len(s)
           t == Joined(s, u, 1)
<1>1. /\ t \in Seq(Nat) /\ t # <<>> /\ Len(t) = n /\ u # <<>>
      /\ \A k \in 1 .. n : k # 1 => t[k] = s[k] /\ u[k] = s[k]
  BY JoinedShape
<1>2. s # <<>> /\ 1 \in 1 .. n /\ Len(u) = n
  BY DEF Joins
<1> HIDE DEF t
<1>3. \A k \in 1 .. n : Block(t)[k] = Block(s)[k]
  BY <1>1, <1>2, BlocksBehind
<1>4. \A k \in 1 .. n : Block(u)[k] = Block(s)[k]
  BY <1>1, <1>2, BlocksBehind
<1>5. rowMajorStrides(s) \in [1 .. n -> Nat] /\ \A k \in 1 .. n : rowMajorStrides(s)[k] = Block(s)[k]
  BY <1>2, Blocks
<1>6. rowMajorStrides(t) \in [1 .. n -> Nat] /\ \A k \in 1 .. n : rowMajorStrides(t)[k] = Block(t)[k]
  BY <1>1, Blocks
<1>7. rowMajorStrides(u) \in [1 .. n -> Nat] /\ \A k \in 1 .. n : rowMajorStrides(u)[k] = Block(u)[k]
  BY <1>1, <1>2, Blocks
<1> DEFINE x == rowMajorStrides(s)
           y == rowMajorStrides(t)
           z == rowMajorStrides(u)
<1>8. y = x
  <2> HIDE DEF x, y
  <2>0. n \in Nat
    OBVIOUS
  <2>1. \A k \in 1 .. n : y[k] = x[k]
    BY <1>3, <1>5, <1>6 DEF x, y
  <2>2. x \in [1 .. n -> Nat] /\ y \in [1 .. n -> Nat]
    BY <1>5, <1>6 DEF x, y
  <2> HIDE DEF n
  <2> QED BY <2>0, <2>1, <2>2, SameFunction
<1>9. z = x
  <2> HIDE DEF x, z
  <2>0. n \in Nat
    OBVIOUS
  <2>1. \A k \in 1 .. n : z[k] = x[k]
    BY <1>4, <1>5, <1>7 DEF x, z
  <2>2. x \in [1 .. n -> Nat] /\ z \in [1 .. n -> Nat]
    BY <1>5, <1>7 DEF x, z
  <2> HIDE DEF n
  <2> QED BY <2>0, <2>1, <2>2, SameFunction
<1> QED BY <1>8, <1>9 DEF t

\* Where the elements of the first tensor go.
LEMMA CatFirst ==
  ASSUME NEW s \in Seq(Nat), NEW u \in Seq(Nat), NEW dim, Joins(s, u, dim), NEW c \in Indices(s)
  PROVE  /\ c \in Indices(Joined(s, u, dim))
         /\ cat(s, u, dim).from1[OffsetIn(s, c)] = OffsetIn(Joined(s, u, dim), c)
<1> DEFINE n == Len(s)
           t == Joined(s, u, dim)
           o == OffsetIn(s, c)
           st == rowMajorStrides(s)
           Place(i) == Offset(MovedBy(Coords(i, st), dim, 0), rowMajorStrides(t))
           from1 == [i \in Offsets(s) |-> IF dim = 1 THEN i ELSE Place(i)]
<1>1. s # <<>> /\ n \in Nat /\ dim \in 1 .. n /\ Len(u) = n
  BY DEF Joins
<1>2. /\ t \in Seq(Nat) /\ t # <<>> /\ Len(t) = n /\ t[dim] = s[dim] + u[dim]
      /\ \A k \in 1 .. n : k # dim => t[k] = s[k]
  BY JoinedShape
<1>3. c \in [1 .. n -> Nat] /\ \A d \in 1 .. n : c[d] < s[d]
  BY IndicesAre
<1>4. cat(s, u, dim).from1 = from1
  BY DEF cat, Joined, MovedBy
<1>5. o \in Offsets(s) /\ Coords(o, st) = c
  BY <1>1, OffsetInside, CoordsOfOffset
<1> HIDE DEF o, st, t
<1>6. from1[o] = IF dim = 1 THEN o ELSE Offset(c, rowMajorStrides(t))
  <2>1. MovedBy(c, dim, 0) = c
    <3> DEFINE m == 0
    <3>1. m \in Nat /\ m = 0 /\ c \in [1 .. n -> Nat]
      BY <1>3
    <3> HIDE DEF n, m
    <3>2. MovedBy(c, dim, m) = c
      BY <1>1, <3>1, Moved
    <3> QED BY <3>2 DEF m
  <2>2. from1[o] = IF dim = 1 THEN o ELSE Offset(MovedBy(Coords(o, st), dim, 0), rowMajorStrides(t))
    BY <1>5
  <2> HIDE DEF from1
  <2> QED BY <1>5, <2>1, <2>2
<1>7. c \in Indices(t)
  <2>1. s \in [1 .. n -> Nat] /\ u \in [1 .. n -> Nat]
    BY <1>1, SeqIsFunction
  <2> HIDE DEF n
  <2>2. \A d \in 1 .. n : c[d] < t[d]
    <3> TAKE d \in 1 .. n
    <3>1. c[d] \in Nat /\ s[d] \in Nat /\ u[d] \in Nat /\ c[d] < s[d]
      BY <1>3, <2>1
    <3>2. t[d] = IF d = dim THEN s[d] + u[d] ELSE s[d]
      BY <1>2
    <3> QED BY <3>1, <3>2
  <2> QED BY <1>2, <1>3, <2>2, IndicesAre
<1>8. from1[o] = OffsetIn(t, c)
  <2>1. CASE dim = 1
    <3>1. rowMajorStrides(t) = st
      BY <2>1, FirstStrides DEF t, st
    <3> HIDE DEF from1
    <3>2. from1[o] = o
      BY <1>6, <2>1
    <3> QED BY <3>1, <3>2 DEF o, OffsetIn, st
  <2>2. CASE dim # 1
    <3> HIDE DEF from1
    <3> QED BY <1>6, <2>2 DEF OffsetIn
  <2> QED BY <2>1, <2>2
<1> HIDE DEF from1
<1> QED BY <1>4, <1>7, <1>8 DEF o, t

\* Where the elements of the second go: behind those of the first.
LEMMA CatSecond ==
  ASSUME NEW s \in Seq(Nat), NEW u \in Seq(Nat), NEW dim, Joins(s, u, dim), NEW c \in Indices(u)
  PROVE  /\ MovedBy(c, dim, s[dim]) \in Indices(Joined(s, u, dim))
         /\ cat(s, u, dim).from2[OffsetIn(u, c)] = OffsetIn(Joined(s, u, dim), MovedBy(c, dim, s[dim]))
<1> DEFINE n == Len(s)
           t == Joined(s, u, dim)
           o == OffsetIn(u, c)
           st == rowMajorStrides(u)
           z == MovedBy(c, dim, s[dim])
           Place(i) == Offset(MovedBy(Coords(i, st), dim, s[dim]), rowMajorStrides(t))
           from2 == [i \in Offsets(u) |-> IF dim = 1 THEN shapeNumel(s) + i ELSE Place(i)]
<1>1. s # <<>> /\ n \in Nat /\ dim \in 1 .. n /\ Len(u) = n
  BY DEF Joins
<1>2. /\ t \in Seq(Nat) /\ t # <<>> /\ Len(t) = n /\ t[dim] = s[dim] + u[dim] /\ u # <<>>
      /\ \A k \in 1 .. n : k # dim => t[k] = s[k] /\ u[k] = s[k]
  BY JoinedShape
<1>3. c \in [1 .. n -> Nat] /\ \A d \in 1 .. n : c[d] < u[d]
  BY <1>1, IndicesAre
<1>4. cat(s, u, dim).from2 = from2
  BY DEF cat, Joined, MovedBy
<1>5. o \in Offsets(u) /\ Coords(o, st) = c
  BY <1>2, OffsetInside, CoordsOfOffset
<1>6. s \in [1 .. n -> Nat] /\ u \in [1 .. n -> Nat]
  BY <1>1, SeqIsFunction
<1>7. /\ z \in [1 .. n -> Nat] /\ z[dim] = c[dim] + s[dim]
      /\ \A d \in 1 .. n : d # dim => z[d] = c[d]
  <2> DEFINE m == s[dim]
  <2> HIDE DEF n
  <2>1. m \in Nat
    BY <1>1, <1>6
  <2> HIDE DEF m
  <2>2. IsMoved(n, c, dim, m, MovedBy(c, dim, m))
    <3>1. c \in [1 .. n -> Nat]
      BY <1>3
    <3> QED BY <1>1, <2>1, <3>1, Moved
  <2> QED BY <2>2 DEF m, IsMoved
<1> HIDE DEF o, st, t
<1>8. from2[o] = IF dim = 1 THEN shapeNumel(s) + o ELSE Offset(z, rowMajorStrides(t))
  <2>2. from2[o] = IF dim = 1 THEN shapeNumel(s) + o
                   ELSE Offset(MovedBy(Coords(o, st), dim, s[dim]), rowMajorStrides(t))
    BY <1>5
  <2> HIDE DEF from2
  <2> QED BY <1>5, <2>2
<1> HIDE DEF from2, z
<1>9. z \in Indices(t)
  <2> HIDE DEF n
  <2>1. \A d \in 1 .. n : z[d] < t[d]
    <3> TAKE d \in 1 .. n
    <3>1. c[d] \in Nat /\ s[d] \in Nat /\ u[d] \in Nat /\ c[d] < u[d]
      BY <1>3, <1>6
    <3>2. CASE d = dim
      BY <1>2, <1>7, <3>1, <3>2
    <3>3. CASE d # dim
      <4>1. z[d] = c[d] /\ t[d] = u[d]
        BY <1>2, <1>7, <3>3
      <4> QED BY <3>1, <4>1
    <3> QED BY <3>2, <3>3
  <2> QED BY <1>2, <1>7, <2>1, IndicesAre
<1>10. from2[o] = OffsetIn(t, z)
  <2>1. CASE dim = 1
    <3> DEFINE w == rowMajorStrides(s)
    <3>1. rowMajorStrides(t) = w /\ st = w
      BY <2>1, FirstStrides DEF t, st
    <3>2. w \in [1 .. n -> Nat] /\ w[1] = Block(s)[1] /\ Block(s)[0] = Product(s) /\ Block(s)[1-1] = s[1] * Block(s)[1]
      <4>1. 1 \in 1 .. n
        BY <1>1, <2>1
      <4> QED BY <1>1, <4>1, Blocks
    <3>3. shapeNumel(s) = s[1] * w[1]
      BY <1>1, <3>2, Numel
    <3> HIDE DEF w, n
    <3>4. Offset(z, w) = s[1] * w[1] + Offset(c, w)
      <4>1. n > 0 /\ s[1] \in Nat /\ z[1] = c[1] + s[1] /\ \A k \in 2 .. n : z[k] = c[k]
        BY <1>1, <1>6, <1>7, <2>1
      <4> DEFINE k == s[1]
      <4>2. n \in Nat /\ n > 0 /\ k \in Nat /\ z[1] = c[1] + k /\ \A d \in 2 .. n : z[d] = c[d]
        BY <1>1, <4>1
      <4>3. w \in [1 .. n -> Nat] /\ c \in [1 .. n -> Nat] /\ z \in [1 .. n -> Nat]
        BY <1>3, <1>7, <3>2
      <4> HIDE DEF k
      <4>4. Offset(z, w) = k * w[1] + Offset(c, w)
        <5>1. IsMoved(n, c, 1, k, z)
          <6>1. \A d \in 1 .. n : d # 1 => z[d] = c[d]
            BY <4>2
          <6> QED BY <4>2, <4>3, <6>1 DEF IsMoved
        <5>2. n \in Nat /\ n > 0 /\ k \in Nat
          BY <4>2
        <5> QED BY <4>3, <5>1, <5>2, OffsetMoved, Zenon
      <4> QED BY <4>4 DEF k
    <3>5. from2[o] = shapeNumel(s) + o
      BY <1>8, <2>1
    <3> QED BY <3>1, <3>3, <3>4, <3>5 DEF o, OffsetIn, st
  <2>2. CASE dim # 1
    BY <1>8, <2>2 DEF OffsetIn
  <2> QED BY <2>1, <2>2
<1> QED BY <1>4, <1>9, <1>10 DEF o, t, z

\* What cat makes of the buffers b and v.
CatBuf(b, from1, v, from2, t) ==
  [o \in Offsets(t) |-> UNION (ElementsAt(b, from1, o) \union ElementsAt(v, from2, o))]

\* The index in the second tensor.
Behind(c, s, dim) == [c EXCEPT ![dim] = @ - s[dim]]

\* And of the arrays a and w.
CatArray(s, a, w, dim, t) ==
  [c \in Indices(t) |-> IF c[dim] < s[dim] THEN a[c] ELSE w[Behind(c, s, dim)]]

\* The element of each tensor that comes to index c, if one does.
OfFirst(s, a, dim, c)  == IF c[dim] < s[dim] THEN {a[c]} ELSE {}
OfSecond(s, w, dim, c) == IF c[dim] < s[dim] THEN {} ELSE {w[Behind(c, s, dim)]}

\* Which elements have an offset of the result: one, of the first tensor ...
LEMMA CatFromFirst ==
  ASSUME NEW s \in Seq(Nat), NEW u \in Seq(Nat), NEW dim, Joins(s, u, dim),
         NEW b, NEW a, Laid(s, b, a),
         NEW c \in Indices(Joined(s, u, dim))
  PROVE  ElementsAt(b, cat(s, u, dim).from1, OffsetIn(Joined(s, u, dim), c)) = OfFirst(s, a, dim, c)
<1> DEFINE n == Len(s)
           t == Joined(s, u, dim)
           o == OffsetIn(t, c)
           from1 == cat(s, u, dim).from1
           I == {i \in DOMAIN b : from1[i] = o}
<1>1. /\ t \in Seq(Nat) /\ t # <<>> /\ Len(t) = n
      /\ \A k \in 1 .. n : k # dim => t[k] = s[k]
  BY JoinedShape
<1>2. s # <<>> /\ dim \in 1 .. n
  BY DEF Joins
<1>3. c \in [1 .. n -> Nat] /\ \A d \in 1 .. n : c[d] < t[d]
  BY <1>1, IndicesAre
<1> HIDE DEF t, from1
<1>4. ASSUME NEW e \in Indices(s)
      PROVE  e \in Indices(t) /\ from1[OffsetIn(s, e)] = OffsetIn(t, e) /\ e[dim] < s[dim]
  <2>1. e \in Indices(t) /\ from1[OffsetIn(s, e)] = OffsetIn(t, e)
    BY CatFirst DEF t, from1
  <2>2. e[dim] < s[dim]
    BY <1>2, IndicesAre
  <2> QED BY <2>1, <2>2
<1>5. ASSUME NEW i \in I PROVE c[dim] < s[dim] /\ b[i] = a[c]
  <2> DEFINE e == Coords(i, rowMajorStrides(s))
  <2>1. i \in Offsets(s) /\ from1[i] = o
    BY DEF Laid
  <2>2. e \in Indices(s) /\ OffsetIn(s, e) = i
    BY <1>2, <2>1, OffsetOfCoords
  <2> HIDE DEF e
  <2>3. e \in Indices(t) /\ OffsetIn(t, e) = OffsetIn(t, c) /\ e[dim] < s[dim]
    BY <1>4, <2>1, <2>2
  <2>4. e = c
    <3>1. c \in Indices(t)
      BY DEF t
    <3> QED BY <1>1, <2>3, <3>1, OneOffsetEach
  <2>5. b[OffsetIn(s, e)] = a[e]
    BY <2>2 DEF Laid
  <2> QED BY <2>2, <2>3, <2>4, <2>5
<1>6. ASSUME c[dim] < s[dim] PROVE \E i \in I : b[i] = a[c]
  <2> DEFINE i == OffsetIn(s, c)
  <2>1. c \in Indices(s)
    <3>1. \A d \in 1 .. n : c[d] < s[d]
      BY <1>1, <1>3, <1>6
    <3> QED BY <1>3, <3>1, IndicesAre
  <2>2. i \in DOMAIN b /\ b[i] = a[c]
    BY <1>2, <2>1, OffsetInside DEF Laid
  <2>3. from1[i] = o
    BY <1>4, <2>1
  <2> HIDE DEF i, o
  <2>4. i \in I
    BY <2>2, <2>3
  <2> HIDE DEF I
  <2> QED BY <2>2, <2>4
<1> HIDE DEF I
<1>7. {b[i] : i \in I} = IF c[dim] < s[dim] THEN {a[c]} ELSE {}
  <2>1. CASE c[dim] < s[dim]
    BY <1>5, <1>6, <2>1
  <2>2. CASE ~(c[dim] < s[dim])
    BY <1>5, <2>2
  <2> QED BY <2>1, <2>2
<1> QED BY <1>7 DEF I, o, t, from1, ElementsAt, OfFirst

\* ... or of the second.
LEMMA CatFromSecond ==
  ASSUME NEW s \in Seq(Nat), NEW u \in Seq(Nat), NEW dim, Joins(s, u, dim),
         NEW v, NEW w, Laid(u, v, w),
         NEW c \in Indices(Joined(s, u, dim))
  PROVE  ElementsAt(v, cat(s, u, dim).from2, OffsetIn(Joined(s, u, dim), c)) = OfSecond(s, w, dim, c)
<1> DEFINE n == Len(s)
           t == Joined(s, u, dim)
           o == OffsetIn(t, c)
           from2 == cat(s, u, dim).from2
           m == s[dim]
           x == [c EXCEPT ![dim] = c[dim] - m]
           I == {i \in DOMAIN v : from2[i] = o}
<1>1. /\ t \in Seq(Nat) /\ t # <<>> /\ Len(t) = n /\ u # <<>> /\ t[dim] = s[dim] + u[dim]
      /\ \A k \in 1 .. n : k # dim => t[k] = s[k] /\ u[k] = s[k]
  BY JoinedShape
<1>2. s # <<>> /\ dim \in 1 .. n /\ n \in Nat /\ Len(u) = n
  BY DEF Joins
<1>3. c \in [1 .. n -> Nat] /\ \A d \in 1 .. n : c[d] < t[d]
  BY <1>1, IndicesAre
<1>4. s \in [1 .. n -> Nat] /\ u \in [1 .. n -> Nat]
  BY <1>2, SeqIsFunction
<1> HIDE DEF n
<1>5. m \in Nat /\ u[dim] \in Nat /\ c[dim] \in Nat /\ c[dim] < m + u[dim]
  BY <1>1, <1>2, <1>3, <1>4
<1> HIDE DEF t, from2, m, x
<1>6. ASSUME NEW e \in Indices(u)
      PROVE  /\ MovedBy(e, dim, m) \in Indices(t)
             /\ from2[OffsetIn(u, e)] = OffsetIn(t, MovedBy(e, dim, m))
             /\ e \in [1 .. n -> Nat] /\ IsMoved(n, e, dim, m, MovedBy(e, dim, m))
  <2>1. /\ MovedBy(e, dim, m) \in Indices(t)
        /\ from2[OffsetIn(u, e)] = OffsetIn(t, MovedBy(e, dim, m))
    BY CatSecond DEF t, from2, m
  <2>2. e \in [1 .. n -> Nat]
    BY <1>2, IndicesAre
  <2>3. IsMoved(n, e, dim, m, MovedBy(e, dim, m))
    BY <1>2, <1>5, <2>2, Moved
  <2> QED BY <2>1, <2>2, <2>3
<1>7. ASSUME NEW e \in Indices(u), MovedBy(e, dim, m) = c PROVE ~(c[dim] < m) /\ e = x
  <2>1. e \in [1 .. n -> Nat] /\ c[dim] = e[dim] + m /\ \A d \in 1 .. n : d # dim => c[d] = e[d]
    BY <1>6, <1>7 DEF IsMoved
  <2>2. e[dim] \in Nat /\ e[dim] = c[dim] - m /\ ~(c[dim] < m)
    BY <1>2, <1>5, <2>1
  <2>3. e = x
    <3>1. e[dim] \in Nat
      BY <2>2
    <3> DEFINE z == e[dim]
    <3>2. z \in Nat /\ x = [c EXCEPT ![dim] = z]
      BY <2>2 DEF x
    <3> HIDE DEF z
    <3>3. x \in [1 .. n -> Nat] /\ x[dim] = z /\ \A d \in 1 .. n : d # dim => x[d] = c[d]
      BY <1>2, <1>3, <3>2
    <3>4. \A d \in 1 .. n : e[d] = x[d]
      BY <2>1, <3>3 DEF z
    <3> QED BY <1>2, <2>1, <3>3, <3>4, SameFunction
  <2> QED BY <2>2, <2>3
<1>8. ASSUME NEW i \in I PROVE ~(c[dim] < m) /\ v[i] = w[x]
  <2> DEFINE e == Coords(i, rowMajorStrides(u))
  <2>1. i \in Offsets(u) /\ from2[i] = o
    BY DEF Laid
  <2>2. e \in Indices(u) /\ OffsetIn(u, e) = i
    BY <1>1, <2>1, OffsetOfCoords
  <2> HIDE DEF e
  <2> DEFINE z == MovedBy(e, dim, m)
  <2>3. z \in Indices(t) /\ OffsetIn(t, z) = OffsetIn(t, c)
    BY <1>6, <2>1, <2>2
  <2>4. z = c
    <3>1. c \in Indices(t)
      BY DEF t
    <3> HIDE DEF z
    <3> QED BY <1>1, <2>3, <3>1, OneOffsetEach
  <2>5. ~(c[dim] < m) /\ e = x
    BY <1>7, <2>2, <2>4
  <2>6. v[OffsetIn(u, e)] = w[e]
    BY <2>2 DEF Laid
  <2> QED BY <2>2, <2>5, <2>6
<1>9. ASSUME ~(c[dim] < m) PROVE \E i \in I : v[i] = w[x]
  <2> DEFINE k == c[dim] - m
             i == OffsetIn(u, x)
  <2>1. k \in Nat /\ k < u[dim] /\ k + m = c[dim]
    BY <1>5, <1>9
  <2>2. x = [c EXCEPT ![dim] = k]
    BY DEF x
  <2> HIDE DEF k
  <2>3. x \in [1 .. n -> Nat] /\ x[dim] = k /\ \A d \in 1 .. n : d # dim => x[d] = c[d]
    BY <1>2, <1>3, <2>1, <2>2
  <2>4. x \in Indices(u)
    <3>1. \A d \in 1 .. n : x[d] < u[d]
      <4> TAKE d \in 1 .. n
      <4>1. CASE d = dim
        BY <2>1, <2>3, <4>1
      <4>2. CASE d # dim
        <5>1. x[d] = c[d] /\ t[d] = u[d]
          BY <1>1, <2>3, <4>2
        <5> QED BY <1>3, <5>1
      <4> QED BY <4>1, <4>2
    <3> QED BY <1>2, <2>3, <3>1, IndicesAre
  <2> DEFINE z == MovedBy(x, dim, m)
  <2>5. IsMoved(n, x, dim, m, z) /\ from2[i] = OffsetIn(t, z)
    BY <1>6, <2>4
  <2>6. z = c
    <3> HIDE DEF z
    <3>1. z \in [1 .. n -> Nat] /\ \A d \in 1 .. n : z[d] = c[d]
      BY <2>1, <2>3, <2>5 DEF IsMoved
    <3> QED BY <1>2, <1>3, <3>1, SameFunction
  <2>7. i \in DOMAIN v /\ v[i] = w[x]
    BY <1>1, <2>4, OffsetInside DEF Laid
  <2>8. from2[i] = o
    BY <2>5, <2>6
  <2> HIDE DEF i, o
  <2>9. i \in I
    BY <2>7, <2>8
  <2> HIDE DEF I
  <2> QED BY <2>7, <2>9
<1> HIDE DEF I
<1>10. {v[i] : i \in I} = IF c[dim] < m THEN {} ELSE {w[x]}
  <2>1. CASE c[dim] < m
    BY <1>8, <2>1
  <2>2. CASE ~(c[dim] < m)
    BY <1>8, <1>9, <2>2
  <2> QED BY <2>1, <2>2
<1> QED BY <1>10 DEF I, o, t, from2, m, x, ElementsAt, Behind, OfSecond

\* cat lays out the two arrays one behind the other.
LEMMA CatLaid ==
  ASSUME NEW s \in Seq(Nat), NEW u \in Seq(Nat), NEW dim, Joins(s, u, dim),
         NEW b, NEW a, Laid(s, b, a), NEW v, NEW w, Laid(u, v, w),
         NEW t, t = cat(s, u, dim).shape,
         NEW b2, b2 = CatBuf(b, cat(s, u, dim).from1, v, cat(s, u, dim).from2, t),
         NEW a2, a2 = CatArray(s, a, w, dim, t)
  PROVE  t \in Seq(Nat) /\ t # <<>> /\ Laid(t, b2, a2)
<1>1. t = Joined(s, u, dim)
  BY DEF cat, Joined
<1>2. t \in Seq(Nat) /\ t # <<>>
  BY <1>1, JoinedShape
<1>3. ASSUME NEW c \in Indices(t) PROVE b2[OffsetIn(t, c)] = a2[c]
  <2> DEFINE o == OffsetIn(t, c)
             x == Behind(c, s, dim)
             X == ElementsAt(b, cat(s, u, dim).from1, o)
             Y == ElementsAt(v, cat(s, u, dim).from2, o)
  <2>1. o \in Offsets(t)
    BY <1>2, OffsetInside
  <2>2. b2[o] = UNION (X \union Y)
    <3> HIDE DEF o
    <3> QED BY <2>1 DEF CatBuf
  <2>3. X = OfFirst(s, a, dim, c)
    BY <1>1, CatFromFirst
  <2>4. Y = OfSecond(s, w, dim, c)
    BY <1>1, CatFromSecond
  <2>5. a2[c] = IF c[dim] < s[dim] THEN a[c] ELSE w[x]
    BY DEF CatArray
  <2> HIDE DEF X, Y, x, o
  <2>6. UNION (X \union Y) = IF c[dim] < s[dim] THEN a[c] ELSE w[x]
    <3>1. X \union Y = {IF c[dim] < s[dim] THEN a[c] ELSE w[x]}
      BY <2>3, <2>4 DEF OfFirst, OfSecond, x
    <3> QED BY <3>1
  <2> QED BY <2>2, <2>5, <2>6 DEF o
<1>4. DOMAIN b2 = Offsets(t)
  BY DEF CatBuf
<1> QED BY <1>2, <1>3, <1>4 DEF Laid

\* The tensor has a shape of natural numbers and at least one dimension, and
\* its buffer holds its array.
TensorInv ==
  /\ shape \in Seq(Nat) /\ shape # <<>>
  /\ Laid(shape, buf, array)

\* A tensor like that is what the property asks for.
LEMMA TensorInvIs == TensorInv => BufferIsArray
BY DEF TensorInv, Laid, OffsetIn, BufferIsArray

\* A tensor fresh from its factory.
LEMMA TensorInitHolds == TensorInit => TensorInv
<1> SUFFICES ASSUME TensorInit PROVE TensorInv
  OBVIOUS
<1>1. shape \in Seq(Nat) /\ shape # <<>>
  BY TensorsAssumption DEF TensorInit
<1>2. Laid(shape, FreshBuf(shape, 0), FreshArray(shape, 0))
  BY <1>1, FreshLaid
<1> QED BY <1>1, <1>2 DEF TensorInit, TensorInv

\* Every operation keeps the buffer and the array together.
LEMMA TensorStepHolds == TensorInv /\ [TensorNext]_tensorVars => TensorInv'
<1> SUFFICES ASSUME TensorInv, [TensorNext]_tensorVars PROVE TensorInv'
  OBVIOUS
<1>1. shape \in Seq(Nat) /\ shape # <<>> /\ Laid(shape, buf, array) /\ DOMAIN shape = 1 .. Len(shape)
  BY DEF TensorInv
<1>2. ASSUME NEW d \in DOMAIN shape, NEW e \in DOMAIN shape, d < e, Transpose(d, e)
      PROVE  TensorInv'
  <2>1. /\ shape' = Swap(shape, d, e)
        /\ buf' = [i \in DOMAIN transpose(shape, d, e) |-> buf[transpose(shape, d, e)[i]]]
        /\ array' = [c \in Indices(shape') |-> array[Swap(c, d, e)]]
    BY <1>2 DEF Transpose
  <2>2. d \in 1 .. Len(shape) /\ e \in 1 .. Len(shape)
    BY <1>1
  <2>3. shape' \in Seq(Nat) /\ shape' # <<>> /\ Laid(shape', buf', array')
    BY <1>1, <1>2, <2>1, <2>2, TransposeLaid
  <2> QED BY <2>3 DEF TensorInv, Laid
<1>3. ASSUME NEW new \in NewShapes, Reshape(new)
      PROVE  TensorInv'
  <2>1. /\ reshape(shape, new).ok /\ shape' = reshape(shape, new).shape /\ buf' = buf
        /\ array' = [c \in Indices(shape') |->
                       array[CHOOSE e \in Indices(shape) : Rank(e, shape) = Rank(c, shape')]]
    BY <1>3 DEF Reshape
  <2>2. new \in Seq(Nat \union {-1}) /\ new # <<>>
    BY TensorsAssumption
  <2>3. shape' \in Seq(Nat) /\ shape' # <<>> /\ shapeNumel(shape') = shapeNumel(shape)
    BY <1>1, <2>1, <2>2, ReshapeKeepsNumel
  <2>4. array' = ReshapedArray(shape, array, shape')
    BY <2>1 DEF ReshapedArray
  <2>5. Laid(shape', buf, array')
    BY <1>1, <2>3, <2>4, ReshapeLaid
  <2> QED BY <2>1, <2>3, <2>5 DEF TensorInv, Laid
<1>4. ASSUME NEW dim \in DOMAIN shape, NEW keepdim \in BOOLEAN, Sum(dim, keepdim)
      PROVE  TensorInv'
  <2> DEFINE r == reduce(shape, dim, keepdim)
             Kept(c) == IF keepdim THEN [c EXCEPT ![dim] = 0] ELSE RemoveAt(c, dim)
             K == KeptPart(shape, dim, keepdim)
  <2>1. /\ r.shape # <<>> /\ shape' = r.shape
        /\ buf' = [o \in Offsets(shape') |-> UNION {buf[i] : i \in {i \in DOMAIN buf : r.into[i] = o}}]
        /\ array' = [k \in Indices(shape') |->
                       UNION {array[c] : c \in {c \in Indices(shape) : Kept(c) = k}}]
    BY <1>4 DEF Sum
  <2>2. dim \in 1 .. Len(shape)
    BY <1>1
  <2>3. buf' = AddedBuf(buf, r.into, shape')
    BY <2>1 DEF AddedBuf, AddedAt, ElementsAt
  <2>4. array' = AddedArray(array, shape, K, shape')
    <3>1. K = [c \in Indices(shape) |-> Kept(c)]
      BY DEF KeptPart
    <3> HIDE DEF Kept, K
    <3>2. \A k : {c \in Indices(shape) : K[c] = k} = {c \in Indices(shape) : Kept(c) = k}
      BY <3>1
    <3> QED BY <2>1, <3>2 DEF AddedArray, AddedTo
  <2>5. shape' \in Seq(Nat) /\ Laid(shape', buf', array')
    <3>1. shape' # <<>> /\ shape' = r.shape
      BY <2>1
    <3> QED BY <1>1, <2>2, <2>3, <2>4, <3>1, ReduceLaid
  <2> QED BY <2>1, <2>5 DEF TensorInv, Laid
<1>5. ASSUME NEW keepdim \in BOOLEAN, SumAll(keepdim)
      PROVE  TensorInv'
  <2> DEFINE r == reduceAll(shape, keepdim)
  <2>1. /\ shape' = r.shape
        /\ buf' = [o \in Offsets(shape') |-> UNION {buf[i] : i \in {i \in DOMAIN buf : r.into[i] = o}}]
        /\ array' = [c \in Indices(shape') |-> UNION {array[e] : e \in Indices(shape)}]
    BY <1>5 DEF SumAll
  <2>2. buf' = AddedBuf(buf, r.into, shape')
    BY <2>1 DEF AddedBuf, AddedAt, ElementsAt
  <2>3. array' = AllAdded(shape, array, shape') /\ shape' = r.shape
    BY <2>1 DEF AllAdded
  <2>4. shape' \in Seq(Nat) /\ shape' # <<>> /\ Laid(shape', buf', array')
    BY <1>1, <2>2, <2>3, ReduceAllLaid
  <2> QED BY <2>4 DEF TensorInv, Laid
<1>6. ASSUME NEW other \in Shapes, NEW dim \in DOMAIN shape, Cat(other, dim)
      PROVE  TensorInv'
  <2> DEFINE r == cat(shape, other, dim)
             new == FreshBuf(other, ops')
             newArray == FreshArray(other, ops')
  <2>1. /\ Len(other) = Len(shape) /\ \A d \in DOMAIN shape : d = dim \/ other[d] = shape[d]
        /\ shape' = r.shape
        /\ buf' = [o \in Offsets(shape') |->
                     UNION ({buf[i] : i \in {i \in DOMAIN buf : r.from1[i] = o}}
                       \union {new[i] : i \in {i \in DOMAIN new : r.from2[i] = o}})]
        /\ array' = [c \in Indices(shape') |->
                       IF c[dim] < shape[dim] THEN array[c]
                       ELSE newArray[[c EXCEPT ![dim] = @ - shape[dim]]]]
    BY <1>6 DEF Cat
  <2>2. other \in Seq(Nat) /\ other # <<>>
    BY TensorsAssumption
  <2>3. Laid(other, new, newArray)
    BY <2>2, FreshLaid
  <2>4. Joins(shape, other, dim)
    BY <1>1, <2>1 DEF Joins
  <2> HIDE DEF new, newArray
  <2>5. buf' = CatBuf(buf, r.from1, new, r.from2, shape')
    BY <2>1 DEF CatBuf, ElementsAt
  <2>6. array' = CatArray(shape, array, newArray, dim, shape')
    BY <2>1 DEF CatArray, Behind
  <2>7. shape' \in Seq(Nat) /\ shape' # <<>> /\ Laid(shape', buf', array')
    <3>1. shape' = r.shape
      BY <2>1
    <3> QED BY <1>1, <2>2, <2>3, <2>4, <2>5, <2>6, <3>1, CatLaid
  <2> QED BY <2>7 DEF TensorInv, Laid
<1>7. ASSUME UNCHANGED tensorVars PROVE TensorInv'
  BY <1>1, <1>7 DEF TensorInv, Laid, tensorVars
<1> QED BY <1>2, <1>3, <1>4, <1>5, <1>6, <1>7 DEF TensorNext

(***************************************************************************)
(* Whatever sequence of transpose, reshape, sum and cat a tensor of any    *)
(* shape goes through, the element that its row-major strides find at an   *)
(* index (Tensor::at) is the one that the operations define there.         *)
(***************************************************************************)
THEOREM BufferHoldsTheArray == TensorSpec => []BufferIsArray
<1>1. TensorInit => TensorInv
  BY TensorInitHolds
<1>2. TensorInv /\ [TensorNext]_tensorVars => TensorInv'
  BY TensorStepHolds
<1>3. TensorInv => BufferIsArray
  BY TensorInvIs
<1> QED BY <1>1, <1>2, <1>3, PTL DEF TensorSpec
=============================================================================
