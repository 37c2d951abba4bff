------------------------------- MODULE Keras -------------------------------
(***************************************************************************)
(* The Keras-style Model of the Python package with its two callbacks.     *)
(* One Python thread calls it; any forward pass may raise.  A fit is       *)
(* followed epoch by epoch: an epoch is one step, from zeroGrad to the     *)
(* early-stopping check.  Losses are drawn from a set, NaN included.       *)
(***************************************************************************)
EXTENDS Integers, Sequences, SequencesExt, FiniteSetsExt

CONSTANTS
  LossValues,  \* finite losses an epoch may end with
  NaN, Inf,    \* integers above every loss that stand for nan and math.inf
  patience, min_delta,
  Monitors,    \* what a callback may watch: "loss", "val_loss"
  MaxEpochs,   \* bound: epochs of one fit
  MaxFits      \* bound: how often fit is called

\* patience counts epochs, min_delta is an absolute change.
ASSUME KerasAssumption ==
  /\ LossValues \subseteq Int /\ {NaN, Inf} \subseteq Int /\ NaN # Inf
  /\ \A v \in LossValues : v < NaN /\ v < Inf
  /\ patience \in Nat \ {0} /\ min_delta \in Nat

VARIABLES
  monitor,     \* fixed: the metric both callbacks watch
  compiled, mode,
  early,       \* the EarlyStopping object: best, counter, stop
  best,        \* ModelCheckpoint's _best
  saved,       \* the value of the epoch ModelCheckpoint saved last
  fit,         \* the fit in progress or the last one
  fits

kerasVars == <<monitor, compiled, mode, early, best, saved, fit, fits>>

-----------------------------------------------------------------------------

\* Python's < and >= on floats: false whenever one side is nan.
LessThan(a, b) == a # NaN /\ b # NaN /\ a < b
AtLeast(a, b) == a # NaN /\ b # NaN /\ a >= b

Lowered(b) == IF b \in {NaN, Inf} THEN b ELSE b - min_delta

FreshEarly == [best |-> Inf, counter |-> 0, stop |-> FALSE]

\* Mutation: an epoch without improvement leaves the best value behind it.
EarlyOnEpochEndLatest(es, value) ==
  IF LessThan(value, Lowered(es.best)) THEN [es EXCEPT !.best = value, !.counter = 0]
  ELSE [best |-> value, counter |-> es.counter + 1,
        stop |-> es.stop \/ es.counter + 1 >= patience]

EarlyOnEpochEnd(es, value) ==
  IF LessThan(value, Lowered(es.best)) THEN [es EXCEPT !.best = value, !.counter = 0]
  ELSE [es EXCEPT !.counter = @ + 1, !.stop = @ \/ es.counter + 1 >= patience]

\* Mutation: the comparison is turned round.
SavesWorse(value) == ~AtLeast(best, value)
Saves(value) == ~AtLeast(value, best)

-----------------------------------------------------------------------------

KerasInit ==
  /\ monitor \in Monitors
  /\ compiled = FALSE
  /\ mode = "train"
  /\ early = FreshEarly
  /\ best = Inf
  /\ saved = Inf
  /\ fit = [state |-> "none", epochs |-> 0, validates |-> FALSE, watched |-> <<>>,
            fresh |-> FALSE, freshBest |-> FALSE]
  /\ fits = 0

Idle == fit.state # "running"

Compile == Idle /\ compiled' = TRUE /\ UNCHANGED <<monitor, mode, early, best, saved, fit, fits>>

\* fit up to its first epoch; without a compile it raises and changes nothing.
Fit(epochs, validates) ==
  /\ Idle /\ compiled /\ fits < MaxFits
  /\ fits' = fits + 1
  /\ fit' = [state |-> IF epochs = 0 THEN "done" ELSE "running", epochs |-> epochs,
             validates |-> validates, watched |-> <<>>,
             fresh |-> early = FreshEarly, freshBest |-> best = Inf]
  /\ saved' = Inf
  /\ UNCHANGED <<monitor, compiled, mode, early, best>>

\* One epoch that reaches its callbacks with the given logs.  A callback that
\* watches a metric the logs do not have gets inf.
Epoch(loss, valLoss) ==
  LET value == IF monitor = "loss" THEN loss ELSE IF fit.validates THEN valLoss ELSE Inf
      watched == Append(fit.watched, value)
  IN /\ fit.state = "running"
     /\ early' = EarlyOnEpochEnd(early, value)
     /\ IF Saves(value) THEN best' = value /\ saved' = value ELSE UNCHANGED <<best, saved>>
     /\ fit' = [fit EXCEPT !.watched = watched,
                  !.state = CASE early'.stop -> "stopped"
                              [] ~early'.stop /\ Len(watched) = fit.epochs -> "done"
                              [] OTHER -> "running"]
     /\ UNCHANGED <<monitor, compiled, mode, fits>>

\* A pass of the epoch raises: fit is left, on_train_end is not called.
EpochRaises ==
  /\ fit.state = "running"
  /\ fit' = [fit EXCEPT !.state = "raised"]
  /\ UNCHANGED <<monitor, compiled, mode, early, best, saved, fits>>

\* predict, and evaluate around it: train mode afterwards whatever it was
\* before, eval mode when the forward pass raises.
Predict(raises) ==
  /\ Idle
  /\ mode' = IF raises THEN "eval" ELSE "train"
  /\ UNCHANGED <<monitor, compiled, early, best, saved, fit, fits>>

ResetEarly == Idle /\ early' = FreshEarly /\ UNCHANGED <<monitor, compiled, mode, best, saved, fit, fits>>

Values == LossValues \union {NaN}

KerasNext ==
  \/ Compile \/ EpochRaises \/ ResetEarly
  \/ \E n \in 0..MaxEpochs, v \in BOOLEAN : Fit(n, v)
  \/ \E l, v \in Values : (monitor = "loss" \/ ~fit.validates => v = l) /\ Epoch(l, v)
  \/ \E r \in BOOLEAN : Predict(r)

-----------------------------------------------------------------------------

Least(s) == Min({Inf} \union {v \in ToSet(s) : v # NaN})

Window(s, first) == SubSeq(s, first, first + patience - 1)

\* With a callback that is new or was reset, training stops early exactly when
\* it has stalled: none of the last patience epochs improved on what came
\* before by more than min_delta, and as long as it goes on every patience
\* epochs in a row have brought a new minimum.  nan is never an improvement.
StopsWhenStalled ==
  LET h == fit.watched
      earlier == IF fit.state = "stopped" THEN Len(h) - 1 ELSE Len(h)
      start == Len(h) - patience
  IN fit.fresh =>
       /\ fit.state = "stopped" =>
            /\ start >= 0
            /\ \A v \in ToSet(Window(h, start + 1)) :
                 ~LessThan(v, Lowered(Least(SubSeq(h, 1, start))))
       /\ \A i \in 1 .. earlier - patience + 1 :
            \E k \in i .. i + patience - 1 : LessThan(h[k], Least(SubSeq(h, 1, k - 1)))

\* The epoch a new ModelCheckpoint saved last is the best of the fit, as long
\* as no epoch ended with nan (which it saves, and everything after it).
SavedIsBest ==
  fit.freshBest /\ NaN \notin ToSet(fit.watched) => saved = Least(fit.watched)
=============================================================================
