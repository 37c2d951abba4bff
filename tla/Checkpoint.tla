------------------------------ MODULE Checkpoint ------------------------------
(***************************************************************************)
(* Saving and resuming a training run: Checkpoint::save and load, with the *)
(* optimizer state keyed by the address of a parameter's buffer            *)
(* (Optimizers.cpp) and the caller's Trainer.                              *)
(*                                                                         *)
(* A weight is the number of training steps of one uninterrupted run that  *)
(* produced it, and so is a moment (m and v of Adam, the velocity of SGD): *)
(* a step from a state that the run passes through gives the next one, a   *)
(* step from any other mixture gives Off.  A file is what was to be        *)
(* written and how many of its fields reached the disk:                    *)
(*                                                                         *)
(*   NNSC  WS  weight 1 .. weight N  [OS [step  moment 1 .. moment N]]     *)
(*   TC  globalStep  EN                                                    *)
(***************************************************************************)
EXTENDS Naturals, FiniteSets

CONSTANTS NoValue, Off,
          Fresh,       \* a weight of a newly built model
          N,           \* the number of parameters
          Frozen,      \* the frozen ones
          Kind,        \* the optimizer: "Adam", or "SGD" with momentum
          Addresses,   \* where the allocator may put a buffer
          MaxSteps     \* bound: training steps of a run and of a process

Params == 1..N

ASSUME CheckpointAssumption ==
  /\ N \in Nat \ {0} /\ MaxSteps \in Nat /\ Frozen \in (SUBSET Params) \ {Params}
  /\ Kind \in {"Adam", "SGD"}
  /\ IsFiniteSet(Addresses) /\ Cardinality(Addresses) > N
  /\ Cardinality({NoValue, Off, Fresh}) = 3
  /\ {NoValue, Off, Fresh} \cap (0..MaxSteps) = {}

VARIABLES weights, addr,      \* of each parameter: value and data()
          moments,            \* m_ and v_, or velocities_, by address
          step,               \* IOptimizer.step_
          steps,              \* Trainer.globalStep_
          disk,               \* NoValue, or what, how much of it, and if the
                              \* next field is there in part
          result,             \* of load, if that was the last call
          position,           \* cs.globalStep after that load
          run,                \* history: the step of the run this process
                              \* should be at, or NoValue: it left the run
          fromZero            \* history: it goes back to a file of step 0

process == <<weights, addr, moments, step, steps>>
history == <<run, fromZero>>
checkpointVars == <<process, disk, result, position, history>>

Moment(i) == IF addr[i] \in DOMAIN moments THEN moments[addr[i]] ELSE NoValue

CheckpointInit ==
  /\ weights = [i \in Params |-> 0]
  /\ addr \in [Params -> Addresses] /\ \A i, j \in Params : addr[i] = addr[j] => i = j
  /\ moments = << >> /\ step = 0 /\ steps = 0
  /\ disk = NoValue /\ result = "none" /\ position = 0
  /\ run = 0 /\ fromZero = FALSE

\* The run passes through this state after k steps.
InRun(k) ==
  /\ \A i \in Frozen : weights[i] = 0
  /\ \A i \in Params \ Frozen :
       weights[i] = k /\ Moment(i) \in (IF k = 0 THEN {0, NoValue} ELSE {k})
  /\ Kind = "Adam" => step = k

-----------------------------------------------------------------------------
\* Trainer.trainStep: optimizer.step makes the moments it does not find.  A
\* bound: a process that left the run, about which nothing is claimed, is not
\* trained further.
TrainOneStep ==
  /\ steps < MaxSteps /\ run \in 0..(MaxSteps - 1)
  /\ LET next == IF \E k \in 0..MaxSteps : InRun(k) THEN weights[CHOOSE i \in Params \ Frozen : TRUE] + 1
                 ELSE Off
         keys == {addr[i] : i \in Params \ Frozen} IN
     /\ weights' = [i \in Params |-> IF i \in Frozen THEN weights[i] ELSE next]
     /\ moments' = [a \in DOMAIN moments \union keys |-> IF a \in keys THEN next ELSE moments[a]]
  /\ step' = IF step = Off THEN Off ELSE step + 1
  /\ steps' = steps + 1
  /\ run' = run + 1
  /\ result' = "none"
  /\ UNCHANGED <<addr, disk, position, fromZero>>

-----------------------------------------------------------------------------
(***************************************************************************)
(* Checkpoint::save.                                                       *)
(***************************************************************************)

\* What the caller of the header's example puts into cs.  Only Adam overrides
\* saveState.
Contents(optimizer) ==
  [weights |-> weights, step |-> step, moments |-> [i \in Params |-> Moment(i)],
   steps |-> steps,
   sections |-> IF optimizer THEN Kind ELSE "none",
   run |-> run, fromZero |-> fromZero]

\* The place of a file's last field, and of the ones before.
LastWeight == N + 2
LastState(c) == LastWeight + CASE c.sections = "none" -> 0
                               [] c.sections = "SGD"  -> 1
                               [] c.sections = "Adam" -> 2 + N
Size(c) == LastState(c) + 3

\* The file is truncated on opening and written in place.
Save ==
  \E optimizer \in BOOLEAN :
    /\ LET c == Contents(optimizer) IN disk' = [c |-> c, cut |-> Size(c), torn |-> FALSE]
    /\ result' = "none"
    /\ UNCHANGED <<process, position, history>>

\* The disk is full or the process dies meanwhile: a prefix reached the disk.
SaveCut ==
  \E optimizer \in BOOLEAN, torn \in BOOLEAN :
    /\ LET c == Contents(optimizer) IN
       \E cut \in 0..(Size(c) - 1) : disk' = [c |-> c, cut |-> cut, torn |-> torn]
    /\ result' = "none"
    /\ UNCHANGED <<process, position, history>>

-----------------------------------------------------------------------------
(***************************************************************************)
(* Checkpoint::load.                                                       *)
(***************************************************************************)

\* The field at a place, old where the read leaves its target alone.
Field(place, new, old) ==
  IF disk.cut >= place THEN new
  ELSE IF disk.cut = place - 1 /\ disk.torn THEN Off
  ELSE old

\* Mutation: a tensor that cannot be read is skipped.
OutcomesLenient == IF disk.cut = 0 THEN {"error"} ELSE {"ok"}

\* A cut within the weights is an error.  Elsewhere the loop ends as at the
\* end of the file, unless the cut is behind a section's tag but within its
\* count or name.
Outcomes ==
  CASE disk.cut = 0                              -> {"error"}
    [] disk.cut = 1                              -> IF disk.torn THEN {"ok", "error"} ELSE {"ok"}
    [] disk.cut > 1 /\ disk.cut < LastWeight     -> {"error"}
    [] disk.cut = LastWeight                     ->
         IF disk.torn /\ disk.c.sections # "none" THEN {"ok", "error"} ELSE {"ok"}
    [] disk.cut > LastWeight                     -> {"ok"}

Replaced == {i \in Params : disk.cut >= i + 2}

\* Where the buffers may be after load: each loaded tensor is allocated while
\* the one it replaces still lives, and may take the place of an earlier one.
Placements ==
  {a \in [Params -> Addresses] :
     \A i \in Params :
       IF i \in Replaced
       THEN a[i] \notin {a[j] : j \in 1..(i - 1)} \union {addr[j] : j \in i..N}
       ELSE a[i] = addr[i]}

\* Mutation: the state is filed under the addresses before the load.
LoadStateEarly(a) ==
  LET present == {i \in Params : disk.c.moments[i] # NoValue /\ disk.cut >= LastWeight + 2 + i}
      keys == {addr[i] : i \in present} IN
  /\ step' = Field(LastWeight + 2, disk.c.step, step)
  /\ moments' = [k \in DOMAIN moments \union keys |->
                   IF k \in keys THEN disk.c.moments[CHOOSE i \in present : addr[i] = k]
                   ELSE moments[k]]

\* The parameters with state in the file, of which some reached the disk.
StatePlace(i) == LastWeight + 2 + i
InFile == {i \in Params : /\ disk.c.moments[i] # NoValue
                          /\ disk.cut >= StatePlace(i) \/ (disk.cut = StatePlace(i) - 1 /\ disk.torn)}

\* What loadState reads for the parameter whose buffer, of those at a, is at k.
StateFor(a, k) ==
  LET i == CHOOSE j \in InFile : a[j] = k IN Field(StatePlace(i), disk.c.moments[i], Off)

\* Adam.loadState with the buffers at a: a parameter without state in the
\* file keeps what its address has.
LoadState(a) ==
  LET keys == {a[i] : i \in InFile} IN
  /\ step' = Field(LastWeight + 2, disk.c.step, step)
  /\ moments' = [k \in DOMAIN moments \union keys |->
                   IF k \in keys THEN StateFor(a, k) ELSE moments[k]]

\* load(path, cs) with a fresh cs, with or without an optimizer.  Skipping the
\* state of an optimizer takes its layout to be Adam's, whatever the name
\* says, and so loses the counters of an SGD file.
Load ==
  \E optimizer \in BOOLEAN :
    /\ disk # NoValue
    /\ result' \in Outcomes
    /\ weights' = [i \in Params |-> IF i \in Replaced THEN disk.c.weights[i] ELSE weights[i]]
    /\ addr' \in Placements
    /\ IF optimizer /\ disk.c.sections = "Adam" THEN LoadState(addr')
       ELSE UNCHANGED <<step, moments>>
    /\ position' = IF disk.c.sections = "SGD" /\ ~optimizer THEN 0
                   ELSE Field(LastState(disk.c) + 2, disk.c.steps, 0)
    /\ LET whole == optimizer /\ disk.c.sections # "none" /\ disk.cut >= LastState(disk.c) IN
       run' = IF whole THEN disk.c.run ELSE NoValue
    /\ fromZero' = (run' # NoValue /\ (run' = 0 \/ disk.c.fromZero))
    /\ UNCHANGED <<steps, disk>>

\* The process ends, or is killed; the next one builds the model anew.
Restart ==
  /\ weights' = [i \in Params |-> Fresh]
  /\ moments' = << >> /\ step' = 0 /\ steps' = 0
  /\ result' = "none" /\ position' = 0 /\ run' = NoValue /\ fromZero' = FALSE
  /\ UNCHANGED <<addr, disk>>

CheckpointNext == TrainOneStep \/ Save \/ SaveCut \/ Load \/ Restart

CheckpointSpec == CheckpointInit /\ [][CheckpointNext]_checkpointVars

-----------------------------------------------------------------------------
(***************************************************************************)
(* Properties.                                                             *)
(***************************************************************************)

\* A load that succeeds leaves no mixture of the file's weights and others,
\* wherever the file was cut.
WeightsAllOrNothing ==
  [][result' = "ok" => weights' = disk.c.weights \/ weights' = weights]_checkpointVars

\* A process that resumed a checkpoint of the run, in the process that wrote
\* it or another, is where the run would be, and stays there as it trains on.
ResumesTheRun == run # NoValue /\ ~fromZero => InRun(run)

=============================================================================
