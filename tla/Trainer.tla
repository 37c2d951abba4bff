------------------------------- MODULE Trainer -------------------------------
(***************************************************************************)
(* The training loop, Trainer.cpp, with EarlyStoppingCallback.predicate()  *)
(* as its shouldStop callback (EarlyStopping.h).                           *)
(*                                                                         *)
(* A step of this module is one batch: trainStep, the callbacks and the    *)
(* loop test that follows.  Losses are small naturals; the running mean    *)
(* that shouldStop is given is the pair <<sum, count>>, compared as the    *)
(* fraction it stands for.  A gradient is the set of the trainStep calls   *)
(* that contributed to it.                                                 *)
(***************************************************************************)
EXTENDS Naturals, Sequences

CONSTANTS Null,
          Losses,      \* what loss.compute may return
          Patience, MinDelta,
          Batches,     \* batches of the dataset
          Epochs,      \* the epochs asked of each train() call
          MaxCalls     \* bound: calls of trainStep

ASSUME TrainerAssumption ==
  /\ Losses \subseteq Nat /\ MinDelta \in Nat /\ MaxCalls \in Nat
  /\ Patience \in Nat \ {0} /\ Batches \in Nat \ {0} /\ Epochs \in Nat \ {0}
  /\ Null \notin Nat \X Nat

VARIABLES training,    \* train() is running
          epoch, batch,       \* the loop counters e and batches
          totalLoss,
          globalStep,
          grads,       \* the contributions in the parameters' grad_
          calls,       \* trainStep calls so far
          bestLoss,    \* <<sum, count>>, or Null for infinity
          counter,
          applied,     \* history: the gradients optimizer.step used
          stopped,     \* history: shouldStop returned true in this train()
          shown        \* history: the means shouldStop was given since reset()

loop    == <<training, epoch, batch, totalLoss>>
stopper == <<bestLoss, counter>>
trainerVars == <<loop, globalStep, grads, calls, stopper, applied, stopped, shown>>

TrainerInit ==
  /\ training = FALSE /\ epoch = 0 /\ batch = 0 /\ totalLoss = 0
  /\ globalStep = 0 /\ grads = {} /\ calls = 0
  /\ bestLoss = Null /\ counter = 0
  /\ applied = <<>> /\ stopped = FALSE /\ shown = {}

\* a < b - d for means a and b, b possibly infinite.
Below(a, b, d) == b = Null \/ a[1] * b[2] + d * a[2] * b[2] < b[1] * a[2]

-----------------------------------------------------------------------------
(***************************************************************************)
(* One batch.                                                              *)
(***************************************************************************)

\* What zeroGrad leaves of the gradients.  Mutation: everything.
NotZeroed == grads
Zeroed    == {}

\* The six steps of trainStep go through.
TrainStep ==
  /\ calls' = calls + 1
  /\ grads' = Zeroed \union {calls'}
  /\ applied' = Append(applied, grads')
  /\ globalStep' = globalStep + 1

\* forward, compute, gradient or backward fails; the last may already have
\* reached some parameters.  Nothing is applied.
TrainStepFails ==
  /\ calls' = calls + 1
  /\ grads' \in {Zeroed, Zeroed \union {calls'}}
  /\ UNCHANGED <<applied, globalStep>>

\* Mutation: the last mean seen becomes the best.
PredicateForgets(mean) ==
  /\ bestLoss' = mean
  /\ counter' = IF Below(mean, bestLoss, MinDelta) THEN 0 ELSE counter + 1

\* The predicate on a mean; it returns true when counter' >= Patience.
Predicate(mean) ==
  IF Below(mean, bestLoss, MinDelta) THEN bestLoss' = mean /\ counter' = 0
  ELSE bestLoss' = bestLoss /\ counter' = counter + 1

\* The rest of an epoch that ends with this batch: train() starts the next
\* one whether or not the epoch was cut short.
EndEpoch ==
  /\ batch' = 0 /\ totalLoss' = 0
  /\ epoch' = IF epoch + 1 < Epochs THEN epoch + 1 ELSE 0
  /\ training' = (epoch + 1 < Epochs)

Batch ==
  /\ training
  /\ TrainStep
  /\ \E loss \in Losses :
       LET mean == <<totalLoss + loss, batch + 1>> IN
       /\ Predicate(mean)
       /\ shown' = shown \union {mean}
       /\ IF counter' >= Patience \/ batch + 1 = Batches
          THEN EndEpoch
          ELSE batch' = batch + 1 /\ totalLoss' = mean[1] /\ UNCHANGED <<epoch, training>>
  /\ stopped' = (stopped \/ counter' >= Patience)

\* train() returns the error.
BatchFails ==
  /\ training
  /\ TrainStepFails
  /\ training' = FALSE /\ epoch' = 0 /\ batch' = 0 /\ totalLoss' = 0
  /\ UNCHANGED <<stopper, stopped, shown>>

-----------------------------------------------------------------------------
\* The caller: train(), with the same callback, which it may reset() before.
\* It starts only what the bound lets finish.
Train ==
  /\ ~training
  /\ calls + Epochs * Batches <= MaxCalls
  /\ training' = TRUE
  /\ stopped' = FALSE
  /\ UNCHANGED <<epoch, batch, totalLoss, globalStep, grads, calls, stopper, applied,
                 shown>>

Reset ==
  /\ ~training
  /\ bestLoss' = Null /\ counter' = 0
  /\ shown' = {}
  /\ UNCHANGED <<loop, globalStep, grads, calls, applied, stopped>>

TrainerNext == Batch \/ BatchFails \/ Train \/ Reset

TrainerSpec == TrainerInit /\ [][TrainerNext]_trainerVars

-----------------------------------------------------------------------------
(***************************************************************************)
(* Properties.                                                             *)
(***************************************************************************)

\* An update uses the gradient of its own batch alone, also right after a
\* batch that failed half-way through backward.
OwnGradientsOnly == \A i \in DOMAIN applied : \A j, k \in applied[i] : j = k

\* No mean the callback has seen since reset() undercuts bestLoss by more than
\* minDelta: a slow decline is not mistaken for a plateau for ever.
BestIsBest == \A mean \in shown : ~Below(mean, bestLoss, MinDelta)

\* "Return true to stop training early." (Trainer.h:78): once shouldStop has
\* returned true, this train() call does not go on to another epoch.
StopEndsTraining == stopped => ~training

=============================================================================
