------------------------- MODULE KillablePipelineFifo -------------------------
(* The wrapper implements the killable queue.                              *)
EXTENDS KillablePipeline, Selection

(* What comes in has a mask.                                               *)
ASSUME PayloadsAssumption ==
  \A m \in Payloads : m = [data |-> m.data, mask |-> m.mask]

VARIABLE delivered   \* what is taken

PipelineInit == PipeInit /\ delivered = {}

PipelineNext ==
  \E kill \in Broadcasts, accepts \in SUBSET Stages, take \in BOOLEAN :
    \E incoming \in Offers(kill) :
      /\ take => OutPeek(kill) # {}
      /\ PipeCycle(kill, accepts, Inputs(incoming), take)
      /\ delivered' = IF take THEN OutPeek(kill) ELSE {}

PipelineSpec == PipelineInit /\ [][PipelineNext]_<<internal, vvms, delivered>>

(* The entries of a row, oldest first.                                     *)
InOrder(row) ==
  LET used == {k \in Stages : row[NStages + 1 - k] # {}}
  IN  [n \in 1 .. Cardinality(used) |-> CHOOSE x \in row[NStages + 1 - Nth(used, n)] : TRUE]

(* The messages with the masks that belong to them, oldest first, without  *)
(* the dead ones.                                                          *)
JoinRows(msgs, tracks) ==
  LET alive == {i \in DOMAIN msgs : ~tracks[i].dead}
  IN  [n \in 1 .. Cardinality(alive) |->
         LET i == Nth(alive, n) IN [msgs[i] EXCEPT !.mask = tracks[i].mask]]

Joined == JoinRows(InOrder(internal), InOrder(vvms))

Fifo == INSTANCE KillableFifo WITH
  Capacity <- NStages, Messages <- Payloads, Kills <- Broadcasts,
  queue    <- Joined, out <- delivered

(* Whatever the stages hold back and whenever a kill arrives, what comes   *)
(* out is what came in and was not hit, in order, each with its own mask.  *)
ImplementsFifo == Fifo!Spec
=============================================================================
