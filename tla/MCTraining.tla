----------------------------- MODULE MCTraining -----------------------------
(***************************************************************************)
(* What trains, resumes and serves a model, for TLC: the training loop,    *)
(* the checkpoints, and from the Python package the Keras-style model and  *)
(* the connectors of the inference runners.  They share no state, so that  *)
(* a behaviour is of one of them and the others stay where they are.       *)
(***************************************************************************)
EXTENDS Trainer, Checkpoint, Keras, Runners

VARIABLE which

\* Where a buffer lies matters only in comparison with the others.
Symmetry == Permutations(Addresses)

NoTrainer == TrainerInit
NoCheckpoint ==
  /\ weights = << >> /\ addr = << >> /\ moments = << >> /\ step = 0 /\ steps = 0
  /\ disk = NoValue /\ result = "none" /\ position = 0 /\ run = NoValue /\ fromZero = FALSE
NoKeras == KerasInit /\ monitor = "loss"
NoRunners ==
  /\ RunnersInit
  /\ kind = CHOOSE k \in Kinds : k # "triton"
  /\ libs = {} /\ shelf = [e \in Endpoints |-> {}]
  /\ client.url = CHOOSE e \in Endpoints : TRUE

MCInit ==
  \/ which = "Trainer" /\ TrainerInit /\ NoCheckpoint /\ NoKeras /\ NoRunners
  \/ which = "Checkpoint" /\ CheckpointInit /\ NoTrainer /\ NoKeras /\ NoRunners
  \/ which = "Keras" /\ KerasInit /\ NoTrainer /\ NoCheckpoint /\ NoRunners
  \/ which = "Runners" /\ RunnersInit /\ NoTrainer /\ NoCheckpoint /\ NoKeras

MCNext ==
  /\ UNCHANGED which
  /\ \/ which = "Trainer" /\ TrainerNext /\ UNCHANGED <<checkpointVars, kerasVars, runnerVars>>
     \/ which = "Checkpoint" /\ CheckpointNext /\ UNCHANGED <<trainerVars, kerasVars, runnerVars>>
     \/ which = "Keras" /\ KerasNext /\ UNCHANGED <<trainerVars, checkpointVars, runnerVars>>
     \/ which = "Runners" /\ RunnersNext /\ UNCHANGED <<trainerVars, checkpointVars, kerasVars>>

MCSpec == MCInit /\ [][MCNext]_<<which, trainerVars, checkpointVars, kerasVars, runnerVars>>
=============================================================================
