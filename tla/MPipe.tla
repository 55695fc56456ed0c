------------------------------- MODULE MPipe -------------------------------
(***************************************************************************)
(* backend/m_pipe.py: a multiplier of MUL_NSTAGES stages in the killable   *)
(* wrapper and a divider that is not pipelined, behind one input and one   *)
(* output, where the divider goes first.  A killed multiplication runs on  *)
(* and is eaten at the end; a killed division frees the divider at once    *)
(* and its registers go on until the next one overwrites them.  What the   *)
(* units do with their registers is given by operators, so that what is    *)
(* shown can be compared with what the operation is to answer whatever     *)
(* that is; MPipeUnits has those of the code.                              *)
(***************************************************************************)
EXTENDS Integers, Sequences, KillUnit, Selection

CONSTANTS MUL_NSTAGES,
          DIV_NSTEPS,   \* the cycles of a division
          Traffic,        \* [streams, kills]: what is dispatched, and what is broadcast
          IsMul(_),       \* whether an operation goes to the multiplier
          MulLoad(_), MulStage(_, _), MulResult(_, _),
          DivLoad(_), DivUnit(_), DivLast(_), DivResult(_, _), DivUnset,
          Answer(_)       \* what an operation computes by its definition

(* What is dispatched, [data, mask]: the data of a message are what of it  *)
(* matters to the units, and to whom the result belongs.                   *)
Dispatches == UNION {{s[i] : i \in DOMAIN s} : s \in UNION {t.streams : t \in Traffic}}

Operated == {m.data : m \in Dispatches}

ASSUME UnitsAssumption ==
  /\ MUL_NSTAGES \in Nat \ {0} /\ DIV_NSTEPS \in Nat \ {0}
  /\ \A t \in Traffic : t.streams \subseteq Seq(Dispatches)
  /\ \A m \in Dispatches : m = [data |-> m.data, mask |-> m.mask]

VARIABLES stream,       \* dispatched, and not yet taken
          kills,
          multiplier, mult_vvms, divider, div_vvm,
          owed          \* what each unit has taken and not delivered

units == <<multiplier, mult_vvms, divider, div_vvm>>

Wrapper == INSTANCE KillablePipeline WITH
  NStages <- MUL_NSTAGES, Payloads <- {}, Broadcasts <- {},
  internal <- multiplier, vvms <- mult_vvms

last == MUL_NSTAGES

------------------------------------------------------------------------------
(* The multiplier.  Of what the wrapper keeps beside the registers there   *)
(* is the operation itself.                                                *)
MultEnters(m) == [data |-> [op |-> m.data, regs |-> MulLoad(m.data)], mask |-> m.mask]

MultInputs(incoming) ==
  [i \in 1 .. last |-> {[r EXCEPT !.data.regs = MulStage(@, i)] :
                           r \in IF i = 1 THEN {MultEnters(m) : m \in incoming}
                                 ELSE multiplier[i - 1]}]

Shows(op, mask, result) == [data |-> op, mask |-> mask, result |-> result]

MultPeek(kill) ==
  {Shows(r.data.op, r.mask, MulResult(r.data.op, r.data.regs)) : r \in Wrapper!OutPeek(kill)}

(* The internal pipeline takes whatever its first stage has room for.      *)
MultTakes(kill, take, incoming) ==
  Wrapper!Advances(1 .. last, MultInputs(incoming), Wrapper!OutTake(kill, take), 1)

MultCycle(kill, take, incoming) ==
  Wrapper!PipeCycle(kill, 1 .. last, MultInputs(incoming), take)

------------------------------------------------------------------------------
(* The divider.  The last cycle of a division is a special case.           *)
DividerRuns ==
  IF divider.counter = 0 THEN divider
  ELSE [divider EXCEPT !.regs = IF divider.counter = 1 THEN DivLast(DivUnit(@)) ELSE DivUnit(@),
                       !.counter = @ - 1]

DividerLoaded(m) == [regs |-> DivLoad(m.data), counter |-> DIV_NSTEPS, busy |-> TRUE]

DividerNext(loading, result_call, preempt_call) ==
  IF loading # {} THEN DividerLoaded(CHOOSE m \in loading : TRUE)
  ELSE [DividerRuns EXCEPT !.busy = @ /\ ~result_call /\ ~preempt_call]

(* Shown when the divider is through and the manager has the message.      *)
DivPeek(kill) ==
  {Shows(v.data, v.mask, DivResult(v.data, divider.regs)) :
     v \in IF divider.busy /\ divider.counter = 0 THEN Peek(div_vvm, kill) ELSE {}}

(* A plausible slip, kept to measure the properties against.               *)
PreemptMissed(kill) == FALSE

(* vvm.dropping_out                                                        *)
Preempt(kill) == div_vvm # {} /\ Peek(div_vvm, kill) = {}

DivTakes(take, incoming) == incoming # {} /\ (~divider.busy \/ take)

DivCycle(kill, take, incoming) ==
  LET loading == IF DivTakes(take, incoming) THEN incoming ELSE {}
  IN  /\ divider' = DividerNext(loading, take, Preempt(kill))
      /\ div_vvm' = RegNext(Peek(div_vvm, kill), take, loading)

------------------------------------------------------------------------------
(* What the registers without a reset value start with is never read.      *)
MInit ==
  /\ \E t \in Traffic : stream \in t.streams /\ kills = t.kills
  /\ Wrapper!PipeInit
  /\ divider = [regs |-> DivUnset, counter |-> 0, busy |-> FALSE]
  /\ div_vvm = {}
  /\ owed = [mult |-> <<>>, div |-> <<>>]

(* Of a sequence, what is left by a broadcast.                             *)
Spared(s, kill) ==
  LET kept == {i \in DOMAIN s : Keep(s[i], kill)}
  IN  [n \in 1 .. Cardinality(kept) |-> Cleared(s[Nth(kept, n)], kill)]

OwedNext(s, kill, take, taken) ==
  LET rest == IF take THEN Tail(Spared(s, kill)) ELSE Spared(s, kill)
  IN  IF taken = {} THEN rest ELSE Append(rest, CHOOSE m \in taken : TRUE)

(* route_input, route_output: the message goes to the unit that does its   *)
(* func; the divider is shown and taken first.                             *)
MCycle(kill, offered, take) ==
  LET incoming  == IF offered THEN Peek({Head(stream)}, kill) ELSE {}
      to_mult   == {m \in incoming : IsMul(m.data)}
      to_div    == incoming \ to_mult
      take_div  == take /\ DivPeek(kill) # {}
      take_mult == take /\ DivPeek(kill) = {}
      mult_took == IF MultTakes(kill, take_mult, to_mult) THEN to_mult ELSE {}
      div_took  == IF DivTakes(take_div, to_div) THEN to_div ELSE {}
  IN  /\ take => DivPeek(kill) \cup MultPeek(kill) # {}
      /\ MultCycle(kill, take_mult, to_mult)
      /\ DivCycle(kill, take_div, to_div)
      /\ stream' = Spared(IF mult_took \cup div_took = {} THEN stream ELSE Tail(stream), kill)
      /\ owed' = [mult |-> OwedNext(owed.mult, kill, take_mult, mult_took),
                  div |-> OwedNext(owed.div, kill, take_div, div_took)]

MNext ==
  /\ UNCHANGED kills
  /\ \E kill \in kills, offered, take \in BOOLEAN :
       (offered => stream # <<>>) /\ MCycle(kill, offered, take)

MSpec == MInit /\ [][MNext]_<<stream, kills, units, owed>>

------------------------------------------------------------------------------
(* The units on their own: the registers after stage i of a multiplication *)
(* and after n cycles of a division, and that these compute the answer.    *)
MulAfter(op) ==
  LET after[i \in 0 .. last] ==
        IF i = 0 THEN MulLoad(op) ELSE MulStage(after[i - 1], i)
  IN  after

DivAfter(op) ==
  LET after[n \in 0 .. DIV_NSTEPS] ==
        IF n = 0 THEN DivLoad(op) ELSE DivUnit(after[n - 1])
  IN  after

UnitsExact ==
  \A op \in Operated :
    Answer(op) = IF IsMul(op) THEN MulResult(op, MulAfter(op)[last])
                 ELSE DivResult(op, DivLast(DivAfter(op)[DIV_NSTEPS]))

IsAnswer(shown, spared) ==
  /\ spared # <<>>
  /\ shown = Shows(Head(spared).data, Head(spared).mask, Answer(Head(spared).data))

(* What a unit shows is the result of the oldest operation it took that no *)
(* broadcast has hit, the one of this cycle included, by the definition of *)
(* that instruction: neither a killed one nor the steps it left behind in  *)
(* the divider ever show.                                                  *)
AnswersExact ==
  \A kill \in kills :
    /\ \A r \in MultPeek(kill) : IsAnswer(r, Spared(owed.mult, kill))
    /\ \A r \in DivPeek(kill) : IsAnswer(r, Spared(owed.div, kill))

(* No operation is lost: the divider is busy exactly with the one that is  *)
(* owed, and the multiplier still holds all of its own.                    *)
NothingLost ==
  /\ divider.busy = (div_vvm # {}) /\ divider.busy = (owed.div # <<>>)
  /\ {v.mask : v \in div_vvm} = {owed.div[i].mask : i \in DOMAIN owed.div}
  /\ Len(owed.mult) = Cardinality({i \in 1 .. last : \E v \in mult_vvms[i] : ~v.dead})
=============================================================================
