-------------------------- MODULE KillablePipeline --------------------------
(***************************************************************************)
(* util/rtl/killable_pipeline_wrapper.py.  A pipeline that knows nothing   *)
(* about kills runs beside a row of tracking registers, one for each of    *)
(* its stages, which carry the branch mask and a dead flag.  The two rows  *)
(* move on their own: a tracking register is passed on as soon as the next *)
(* one is clear, even while the stage beside it holds its message back.    *)
(* Their heads are joined at the output, where dead messages are eaten.    *)
(* Stage 1 is the first.                                                   *)
(***************************************************************************)
EXTENDS Naturals, FiniteSets, KillUnit

CONSTANTS NStages,
          Payloads,    \* [data, mask]: what comes in
          Broadcasts        \* the broadcasts

ASSUME NStagesAssumption == NStages \in Nat /\ NStages >= 1

VARIABLES internal,  \* the output registers of the stages
          vvms       \* the tracking registers

Stages == 1 .. NStages

PipeInit == internal = [i \in Stages |-> {}] /\ vvms = [i \in Stages |-> {}]

(* Plausible slips, kept to measure the properties against.                *)
TrackedDropping(kill) ==
  [i \in Stages |-> {[mask |-> v.mask \ kill.clear_mask, dead |-> FALSE] :
                       v \in {x \in vvms[i] : Keep(x, kill)}}]

TrackedForgetful(kill) ==
  [i \in Stages |-> {[mask |-> v.mask \ kill.clear_mask, dead |-> ~Keep(v, kill)] :
                       v \in vvms[i]}]

(* ValidValueManager with tracking: what a register shows is never         *)
(* dropped, only marked.                                                   *)
Tracked(kill) ==
  [i \in Stages |-> {[mask |-> v.mask \ kill.clear_mask,
                      dead |-> v.dead \/ ~Keep(v, kill)] : v \in vvms[i]}]

(* handle_output_peek_take: something is shown only if both rows have it   *)
(* and it is not dead; if it is dead it is eaten from both.                *)
OutPeek(kill) ==
  {[m EXCEPT !.mask = v.mask] :
     m \in internal[NStages], v \in {x \in Tracked(kill)[NStages] : ~x.dead}}

Eating(kill) ==
  internal[NStages] # {} /\ \E v \in Tracked(kill)[NStages] : v.dead

OutTake(kill, take) == take \/ Eating(kill)

(* A stage takes its input when it accepts it and its register is clear at *)
(* the end of the cycle: it is empty, or it moves on because everything    *)
(* from it to an empty one, or to the output, does.                        *)
Advances(accepts, inputs, out, i) ==
  /\ inputs[i] # {} /\ i \in accepts
  /\ \/ \E j \in i .. NStages : internal[j] = {} /\ i + 1 .. j \subseteq accepts
     \/ out /\ i + 1 .. NStages \subseteq accepts

Leaves(accepts, inputs, out, i) ==
  IF i = NStages THEN out ELSE Advances(accepts, inputs, out, i + 1)

(* handle_shift                                                            *)
TrackShifts(out, i) == vvms[i] # {} /\ (out \/ \E j \in i + 1 .. NStages : vvms[j] = {})

(* accepts: the stages that accept their input.  inputs: for each stage    *)
(* what it would write into its register, which is nothing if there is     *)
(* nothing before it.  take: take is called.                               *)
PipeCycle(kill, accepts, inputs, take) ==
  LET out      == OutTake(kill, take)
      in_take  == Advances(accepts, inputs, out, 1)
      added(i) == IF i = 1 THEN {[mask |-> m.mask, dead |-> FALSE] :
                                   m \in IF in_take THEN inputs[1] ELSE {}}
                  ELSE IF TrackShifts(out, i - 1) THEN Tracked(kill)[i - 1] ELSE {}
      taken(i) == IF i = NStages THEN out ELSE TrackShifts(out, i)
  IN  /\ internal' = [i \in Stages |->
                        RegNext(internal[i], Leaves(accepts, inputs, out, i),
                          IF Advances(accepts, inputs, out, i) THEN inputs[i] ELSE {})]
      /\ vvms' = [i \in Stages |-> RegNext(Tracked(kill)[i], taken(i), added(i))]

(* On its own: stages that only pass on what they get, and any of which    *)
(* may hold it back, behind a register that shows what comes in.           *)
Inputs(incoming) == [i \in Stages |-> IF i = 1 THEN incoming ELSE internal[i - 1]]

Offers(kill) == {{}} \cup {Peek({m}, kill) : m \in Payloads}

------------------------------------------------------------------------------
(* The two rows never lose step: there are as many masks as messages, and  *)
(* no message is ahead of its mask, so that the two heads that are joined  *)
(* are those of one message.                                               *)
Occupied(row, i) == Cardinality({j \in i .. NStages : row[j] # {}})

Aligned ==
  /\ Occupied(internal, 1) = Occupied(vvms, 1)
  /\ \A i \in Stages : Occupied(internal, i) <= Occupied(vvms, i)
=============================================================================
