---------------------------- MODULE PipelineProofs ----------------------------
(* Proofs about the killable pipeline wrapper, for every number of stages, *)
(* whatever the stages are and hold back: its two rows stay aligned, and   *)
(* it promises those around it a queue.  And about the selection of places *)
(* from a row, by which queues are kept in order.                          *)
EXTENDS KillablePipelineFifo,
        FiniteSetTheorems, FunctionTheorems, SequenceTheorems, WellFoundedInduction, TLAPS

------------------------------------------------------------------------------
(****************************************************************************)
(* The rows of the killable pipeline wrapper stay aligned.                 *)
(****************************************************************************)

(* What is counted: one for a condition that holds, or a register that is  *)
(* occupied.                                                               *)
One(condition) == IF condition THEN 1 ELSE 0

Held(reg) == IF reg # {} THEN 1 ELSE 0

(* A set of naturals that is not empty has a least element: no induction   *)
(* principle is needed but that < is well founded.                         *)
LEMMA LeastExists ==
  ASSUME NEW S, S \subseteq Nat, S # {}
  PROVE  \E s \in S : \A t \in S : s <= t
<1> DEFINE R == {ss \in Nat \X Nat : ss[1] < ss[2]}
<1>1. IsWellFoundedOn(R, Nat)
  BY NatLessThanWellFounded DEF OpToRel
<1> HIDE DEF R
<1>2. PICK s \in S : \A t \in S : ~(<<t, s>> \in R)
  BY <1>1, WFMin
<1>3. ASSUME NEW t \in S PROVE s <= t
  <2>1. s \in Nat /\ t \in Nat /\ <<t, s>> \notin R
    BY <1>2
  <2> QED
    BY <2>1 DEF R
<1> QED
  BY <1>3

(* The messages from a stage on are those from the next one on and its     *)
(* own.                                                                    *)
LEMMA CountSplit ==
  ASSUME NEW row, NEW i \in Stages
  PROVE  /\ Occupied(row, i) \in Nat /\ Occupied(row, i + 1) \in Nat
         /\ Occupied(row, i) = Occupied(row, i + 1) + Held(row[i])
<1> DEFINE A == {j \in i .. NStages : row[j] # {}}
           B == {j \in i + 1 .. NStages : row[j] # {}}
<1>1. i \in Nat /\ NStages \in Nat /\ i <= NStages
  BY NStagesAssumption DEF Stages
<1>2. IsFiniteSet(B) /\ Cardinality(B) \in Nat
  <2>1. IsFiniteSet(i + 1 .. NStages)
    BY <1>1, FS_Interval
  <2> QED
    BY <2>1, FS_Subset, FS_CardinalityType
<1>3. i \notin B
  BY <1>1
<1>4. A = IF row[i] # {} THEN B \cup {i} ELSE B
  BY <1>1
<1> HIDE DEF A, B
<1>5. Cardinality(A) = Cardinality(B) + Held(row[i]) /\ Cardinality(A) \in Nat
  BY <1>2, <1>3, <1>4, FS_AddElement DEF Held
<1> QED
  BY <1>2, <1>5 DEF Occupied, A, B

(* There is nothing after the last stage.                                  *)
LEMMA CountBeyond == ASSUME NEW row PROVE Occupied(row, NStages + 1) = 0
<1>1. {j \in NStages + 1 .. NStages : row[j] # {}} = {}
  BY NStagesAssumption
<1> QED
  BY <1>1, FS_EmptySet DEF Occupied

(* There is a message in each stage if there are as many as stages.        *)
LEMMA CountFull ==
  ASSUME NEW row, NEW i \in Stages
  PROVE  /\ Occupied(row, i) <= NStages - i + 1
         /\ Occupied(row, i) = NStages - i + 1 <=> \A j \in i .. NStages : row[j] # {}
<1> DEFINE A == {j \in i .. NStages : row[j] # {}}
<1>1. i \in Nat /\ NStages \in Nat /\ i <= NStages
  BY NStagesAssumption DEF Stages
<1>2. IsFiniteSet(i .. NStages) /\ Cardinality(i .. NStages) = NStages - i + 1
  BY <1>1, FS_Interval
<1>3. A \in SUBSET (i .. NStages)
  OBVIOUS
<1>4. /\ Cardinality(A) <= NStages - i + 1
      /\ Cardinality(A) = NStages - i + 1 => A = i .. NStages
  BY <1>2, <1>3, FS_Subset
<1>5. A = i .. NStages <=> \A j \in i .. NStages : row[j] # {}
  OBVIOUS
<1> QED
  BY <1>2, <1>4, <1>5 DEF Occupied

(* What crosses into each stage in a cycle, and out of the last one; each  *)
(* stage changes by what crosses its ends, and so does what is counted     *)
(* from a stage on.                                                        *)
Crossings == [1 .. NStages + 1 -> {0, 1}]

Balanced(old, new, x) ==
  \A i \in Stages : Held(new[i]) + x[i + 1] = Held(old[i]) + x[i]

Counted(old, new, x) ==
  \A i \in 1 .. NStages + 1 : Occupied(new, i) + x[NStages + 1] = Occupied(old, i) + x[i]

(* By the last stage at which the count would be wrong.                    *)
LEMMA CountCrossing ==
  ASSUME NEW old, NEW new, NEW x \in Crossings, Balanced(old, new, x)
  PROVE  Counted(old, new, x)
<1> DEFINE P(i) == Occupied(new, i) + x[NStages + 1] = Occupied(old, i) + x[i]
           Bad  == {k \in 0 .. NStages : ~P(NStages + 1 - k)}
<1>1. NStages \in Nat
  BY NStagesAssumption
<1>2. Bad = {}
  <2> SUFFICES ASSUME Bad # {} PROVE FALSE
    OBVIOUS
  <2>1. PICK k \in Bad : \A l \in Bad : k <= l
    <3>1. Bad \subseteq Nat
      BY <1>1
    <3> QED
      BY <3>1, LeastExists
  <2>2. k \in 0 .. NStages /\ ~P(NStages + 1 - k)
    OBVIOUS
  <2>3. CASE k = 0
    <3>1. ~P(NStages + 1)
      BY <1>1, <2>2, <2>3
    <3> QED
      BY <3>1, CountBeyond
  <2>4. CASE k # 0
    <3> DEFINE i == NStages + 1 - k
    <3>1. i \in Stages /\ i + 1 = NStages + 1 - (k - 1) /\ k - 1 \in 0 .. NStages
      BY <1>1, <2>2, <2>4 DEF Stages
    <3>2. k - 1 \notin Bad
      BY <1>1, <2>1, <2>2, <2>4
    <3>3. P(i + 1)
      BY <3>1, <3>2
    <3> HIDE DEF i
    <3>4. /\ Occupied(old, i) = Occupied(old, i + 1) + Held(old[i])
          /\ Occupied(new, i) = Occupied(new, i + 1) + Held(new[i])
          /\ Occupied(old, i + 1) \in Nat /\ Occupied(new, i + 1) \in Nat
      BY <3>1, CountSplit
    <3>5. Held(new[i]) + x[i + 1] = Held(old[i]) + x[i]
      BY <3>1 DEF Balanced
    <3>6. x[i] \in {0, 1} /\ x[i + 1] \in {0, 1} /\ x[NStages + 1] \in {0, 1}
      BY <1>1, <3>1 DEF Stages, Crossings
    <3>7. Held(new[i]) \in {0, 1} /\ Held(old[i]) \in {0, 1}
      BY DEF Held
    <3> HIDE DEF Bad
    <3>8. P(i)
      BY <3>3, <3>4, <3>5, <3>6, <3>7
    <3> QED
      BY <2>2, <3>8 DEF i
  <2> QED
    BY <2>3, <2>4
<1>3. ASSUME NEW i \in 1 .. NStages + 1 PROVE P(i)
  <2>1. NStages + 1 - i \in 0 .. NStages /\ NStages + 1 - (NStages + 1 - i) = i
    BY <1>1
  <2>2. NStages + 1 - i \notin Bad
    BY <1>2
  <2> QED
    BY <2>1, <2>2
<1> QED
  BY <1>3 DEF Counted

------------------------------------------------------------------------------
(* One cycle of a pipeline of any stages.                                  *)
Fed(inputs) == \A i \in Stages \ {1} : inputs[i] # {} <=> internal[i - 1] # {}

(* What crosses into each stage, and out of the last one, in either row.   *)
MessagesCross(accepts, inputs, out) ==
  [i \in 1 .. NStages + 1 |->
     One(IF i = NStages + 1 THEN out ELSE Advances(accepts, inputs, out, i))]

TracksCross(accepts, inputs, out) ==
  [i \in 1 .. NStages + 1 |->
     One(IF i = NStages + 1 THEN out
         ELSE IF i = 1 THEN Advances(accepts, inputs, out, 1) ELSE TrackShifts(out, i - 1))]

(* What leaves at the end leaves both rows.                                *)
LEMMA OutFromBoth ==
  ASSUME NEW kill, NEW take \in BOOLEAN, take => OutPeek(kill) # {}, OutTake(kill, take)
  PROVE  internal[NStages] # {} /\ vvms[NStages] # {}
<1>1. NStages \in Stages
  BY NStagesAssumption DEF Stages
<1>2. Tracked(kill)[NStages] # {} => vvms[NStages] # {}
  BY <1>1 DEF Tracked
<1> QED
  BY <1>2 DEF OutTake, Eating, OutPeek

(* The row of messages moves only forward, and only into clear registers.  *)
LEMMA MessagesKeepCount ==
  ASSUME NEW accepts, NEW inputs, NEW out \in BOOLEAN, Fed(inputs), out => internal[NStages] # {},
         NEW next, \A i \in Stages :
           next[i] = RegNext(internal[i], Leaves(accepts, inputs, out, i),
                       IF Advances(accepts, inputs, out, i) THEN inputs[i] ELSE {})
  PROVE  /\ MessagesCross(accepts, inputs, out) \in Crossings
         /\ Counted(internal, next, MessagesCross(accepts, inputs, out))
<1> DEFINE x == MessagesCross(accepts, inputs, out)
<1>1. NStages \in Nat /\ NStages >= 1
  BY NStagesAssumption
<1>2. x \in Crossings
  BY DEF MessagesCross, One, Crossings
<1>3. ASSUME NEW i \in Stages
      PROVE  Held(next[i]) + x[i + 1] = Held(internal[i]) + x[i]
  <2> DEFINE comes == Advances(accepts, inputs, out, i)
             goes  == Leaves(accepts, inputs, out, i)
  <2>1. i \in 1 .. NStages + 1 /\ i + 1 \in 1 .. NStages + 1 /\ i # NStages + 1
    BY <1>1 DEF Stages
  <2>2. x[i] = One(comes)
    BY <2>1 DEF MessagesCross
  <2>3. x[i + 1] = One(goes)
    BY <1>1, <2>1 DEF MessagesCross, Leaves
  <2>4. comes \in BOOLEAN /\ goes \in BOOLEAN
    BY DEF Advances, Leaves
  <2>5. next[i] # {} <=> comes \/ (~goes /\ internal[i] # {})
    BY DEF RegNext, Advances
  <2>6. goes => internal[i] # {}
    <3>1. CASE i = NStages
      BY <3>1 DEF Leaves
    <3>2. CASE i # NStages
      <4>1. i + 1 \in Stages \ {1} /\ (i + 1) - 1 = i
        BY <1>1, <3>2 DEF Stages
      <4> QED
        BY <3>2, <4>1 DEF Leaves, Advances, Fed
    <3> QED
      BY <3>1, <3>2
  <2>7. comes /\ internal[i] # {} => goes
    <3> SUFFICES ASSUME comes, internal[i] # {} PROVE goes
      OBVIOUS
    <3>1. CASE i = NStages
      <4>1. \A j \in i .. NStages : j = i
        BY <1>1, <3>1 DEF Stages
      <4> QED
        BY <3>1, <4>1 DEF Leaves, Advances
    <3>2. CASE i # NStages
      <4>1. i + 1 \in Stages \ {1} /\ (i + 1) - 1 = i /\ i + 1 \in i + 1 .. NStages
        BY <1>1, <3>2 DEF Stages
      <4>2. inputs[i + 1] # {}
        BY <4>1 DEF Fed
      <4>3. CASE out /\ i + 1 .. NStages \subseteq accepts
        <5>1. i + 1 + 1 .. NStages \subseteq i + 1 .. NStages
          BY <1>1 DEF Stages
        <5> QED
          BY <3>2, <4>1, <4>2, <4>3, <5>1 DEF Leaves, Advances
      <4>4. ASSUME NEW j \in i .. NStages, internal[j] = {}, i + 1 .. j \subseteq accepts
            PROVE  goes
        <5>1. j \in i + 1 .. NStages /\ i + 1 \in i + 1 .. j
          BY <1>1, <4>4 DEF Stages
        <5>2. i + 1 + 1 .. j \subseteq i + 1 .. j
          BY <1>1 DEF Stages
        <5> QED
          BY <3>2, <4>2, <4>4, <5>1, <5>2 DEF Leaves, Advances
      <4> QED
        BY <4>3, <4>4 DEF Advances
    <3> QED
      BY <3>1, <3>2
  <2> HIDE DEF comes, goes, x
  <2> QED
    BY <2>2, <2>3, <2>4, <2>5, <2>6, <2>7 DEF One, Held
<1>4. Balanced(internal, next, x)
  BY <1>3 DEF Balanced
<1> QED
  BY <1>2, <1>4, CountCrossing

(* In the row of tracking registers a mask that comes in always finds its  *)
(* register clear, because the rows are aligned: if the stages have room,  *)
(* so has the row beside them.                                             *)
TrackEnters(accepts, inputs, out, i) ==
  IF i = NStages + 1 THEN out
  ELSE IF i = 1 THEN Advances(accepts, inputs, out, 1) ELSE TrackShifts(out, i - 1)

LEMMA FirstHasRoom ==
  ASSUME Aligned, NEW accepts, NEW inputs, NEW out \in BOOLEAN,
         Advances(accepts, inputs, out, 1), vvms[1] # {}
  PROVE  TrackEnters(accepts, inputs, out, 2)
<1>1. NStages \in Nat /\ NStages >= 1 /\ 1 \in Stages
  BY NStagesAssumption DEF Stages
<1>2. CASE out
  BY <1>1, <1>2 DEF TrackEnters, TrackShifts
<1>3. CASE ~out
  <2>1. \E j \in 1 .. NStages : internal[j] = {}
    BY <1>3 DEF Advances
  <2>2. Occupied(internal, 1) # NStages - 1 + 1
    BY <1>1, <2>1, CountFull
  <2>3. PICK j \in 1 .. NStages : vvms[j] = {}
    BY <1>1, <2>2, CountFull DEF Aligned
  <2>4. j \in 2 .. NStages /\ NStages # 1
    BY <1>1, <2>3
  <2> QED
    BY <1>1, <2>3, <2>4 DEF TrackEnters, TrackShifts
<1> QED
  BY <1>2, <1>3

(* So does the row of masks.                                               *)
LEMMA TracksKeepCount ==
  ASSUME Aligned, NEW accepts, NEW inputs, NEW out \in BOOLEAN, out => vvms[NStages] # {},
         NEW next,
         \A i \in Stages :
           next[i] # {} <=> \/ TrackEnters(accepts, inputs, out, i)
                            \/ ~TrackEnters(accepts, inputs, out, i + 1) /\ vvms[i] # {}
  PROVE  /\ TracksCross(accepts, inputs, out) \in Crossings
         /\ Counted(vvms, next, TracksCross(accepts, inputs, out))
<1> DEFINE x == TracksCross(accepts, inputs, out)
<1>1. NStages \in Nat /\ NStages >= 1
  BY NStagesAssumption
<1>2. x \in Crossings
  BY DEF TracksCross, One, Crossings
<1>3. ASSUME NEW i \in Stages
      PROVE  Held(next[i]) + x[i + 1] = Held(vvms[i]) + x[i]
  <2> DEFINE comes == TrackEnters(accepts, inputs, out, i)
             goes  == TrackEnters(accepts, inputs, out, i + 1)
  <2>1. i \in 1 .. NStages + 1 /\ i + 1 \in 1 .. NStages + 1 /\ (i + 1) - 1 = i
    BY <1>1 DEF Stages
  <2>2. x[i] = One(comes)
    BY <2>1 DEF TracksCross, TrackEnters
  <2>3. x[i + 1] = One(goes)
    BY <2>1 DEF TracksCross, TrackEnters
  <2>4. comes \in BOOLEAN /\ goes \in BOOLEAN
    BY DEF TrackEnters, Advances, TrackShifts
  <2>5. goes => vvms[i] # {}
    <3>1. CASE i = NStages
      BY <3>1 DEF TrackEnters
    <3>2. CASE i # NStages
      <4>1. i + 1 # NStages + 1 /\ i + 1 # 1
        BY <1>1, <3>2 DEF Stages
      <4> QED
        BY <2>1, <4>1 DEF TrackEnters, TrackShifts
    <3> QED
      BY <3>1, <3>2
  <2>6. comes /\ vvms[i] # {} => goes
    <3> SUFFICES ASSUME comes, vvms[i] # {} PROVE goes
      OBVIOUS
    <3>1. CASE i = 1
      <4>1. Advances(accepts, inputs, out, 1)
        BY <1>1, <3>1 DEF TrackEnters
      <4> QED
        BY <3>1, <4>1, FirstHasRoom
    <3>2. CASE i # 1
      <4>1. i # NStages + 1 /\ i - 1 + 1 = i
        BY <1>1 DEF Stages
      <4>2. out \/ \E j \in i .. NStages : vvms[j] = {}
        BY <3>2, <4>1 DEF TrackEnters, TrackShifts
      <4>3. out \/ \E j \in i + 1 .. NStages : vvms[j] = {}
        <5>1. \A j \in i .. NStages : j = i \/ j \in i + 1 .. NStages
          BY <1>1 DEF Stages
        <5> QED
          BY <4>2, <5>1
      <4>4. CASE i = NStages
        <5>1. i + 1 .. NStages = {}
          BY <1>1, <4>4
        <5> QED
          BY <4>3, <4>4, <5>1 DEF TrackEnters
      <4>5. CASE i # NStages
        <5>1. i + 1 # NStages + 1 /\ i + 1 # 1
          BY <1>1, <4>5 DEF Stages
        <5> QED
          BY <2>1, <4>3, <5>1 DEF TrackEnters, TrackShifts
      <4> QED
        BY <4>4, <4>5
    <3> QED
      BY <3>1, <3>2
  <2>7. next[i] # {} <=> comes \/ (~goes /\ vvms[i] # {})
    OBVIOUS
  <2> HIDE DEF comes, goes, x
  <2> QED
    BY <2>2, <2>3, <2>4, <2>5, <2>6, <2>7 DEF One, Held
<1> HIDE DEF x
<1>4. Balanced(vvms, next, x)
  BY <1>3 DEF Balanced
<1> QED
  BY <1>2, <1>4, CountCrossing DEF x

(* No message crosses where it would get ahead of its mask.                *)
LEMMA NeverAhead ==
  ASSUME Aligned, NEW accepts, NEW inputs, NEW out \in BOOLEAN, Fed(inputs),
         NEW i \in Stages \ {1}, Advances(accepts, inputs, out, i), ~TrackShifts(out, i - 1)
  PROVE  Occupied(internal, i) < Occupied(vvms, i)
<1>1. /\ NStages \in Nat /\ i \in Stages /\ i - 1 \in Stages /\ (i - 1) + 1 = i
      /\ i \in 1 .. NStages
  BY NStagesAssumption DEF Stages
<1>2. /\ Occupied(internal, i) \in Nat /\ Occupied(vvms, i) \in Nat
      /\ Occupied(internal, i) <= Occupied(vvms, i)
      /\ Occupied(internal, i - 1) <= Occupied(vvms, i - 1)
  BY <1>1, CountSplit DEF Aligned
<1>3. SUFFICES ASSUME Occupied(internal, i) = Occupied(vvms, i) PROVE FALSE
  BY <1>2
<1>4. internal[i - 1] # {}
  BY DEF Advances, Fed
<1>5. vvms[i - 1] # {}
  <2>1. /\ Occupied(internal, i - 1) = Occupied(internal, i) + Held(internal[i - 1])
        /\ Occupied(vvms, i - 1) = Occupied(vvms, i) + Held(vvms[i - 1])
    BY <1>1, CountSplit
  <2> QED
    BY <1>2, <1>3, <1>4, <2>1 DEF Held
<1>6. ~out /\ \A j \in i .. NStages : vvms[j] # {}
  BY <1>1, <1>5 DEF TrackShifts
<1>7. Occupied(internal, i) = NStages - i + 1
  BY <1>1, <1>3, <1>6, CountFull
<1>8. \A j \in i .. NStages : internal[j] # {}
  BY <1>1, <1>7, CountFull
<1> QED
  BY <1>6, <1>8 DEF Advances

(* Whatever the stages are and whichever of them hold back, a clock cycle  *)
(* keeps the rows aligned.                                                 *)
LEMMA CycleAligned ==
  ASSUME Aligned, NEW kill, NEW accepts, NEW inputs, Fed(inputs),
         NEW take \in BOOLEAN, take => OutPeek(kill) # {},
         PipeCycle(kill, accepts, inputs, take)
  PROVE  Aligned'
<1> DEFINE out == OutTake(kill, take)
           x   == MessagesCross(accepts, inputs, out)
           y   == TracksCross(accepts, inputs, out)
<1>1. NStages \in Nat /\ NStages >= 1 /\ out \in BOOLEAN
  BY NStagesAssumption DEF OutTake, Eating
<1>2. out => internal[NStages] # {} /\ vvms[NStages] # {}
  BY OutFromBoth
<1>3. x \in Crossings /\ Counted(internal, internal', x)
  <2>1. \A i \in Stages :
          internal'[i] = RegNext(internal[i], Leaves(accepts, inputs, out, i),
                           IF Advances(accepts, inputs, out, i) THEN inputs[i] ELSE {})
    BY DEF PipeCycle
  <2> HIDE DEF out
  <2> QED
    BY <1>1, <1>2, <2>1, MessagesKeepCount
<1>4. y \in Crossings /\ Counted(vvms, vvms', y)
  <2>1. ASSUME NEW i \in Stages
        PROVE  vvms'[i] # {} <=> \/ TrackEnters(accepts, inputs, out, i)
                                 \/ ~TrackEnters(accepts, inputs, out, i + 1) /\ vvms[i] # {}
    <3> DEFINE in_take == Advances(accepts, inputs, out, 1)
               added == IF i = 1 THEN {[mask |-> m.mask, dead |-> FALSE] :
                                         m \in IF in_take THEN inputs[1] ELSE {}}
                        ELSE IF TrackShifts(out, i - 1) THEN Tracked(kill)[i - 1] ELSE {}
               taken == IF i = NStages THEN out ELSE TrackShifts(out, i)
    <3>1. vvms'[i] = RegNext(Tracked(kill)[i], taken, added)
      BY DEF PipeCycle
    <3>2. \A j \in Stages : Tracked(kill)[j] # {} <=> vvms[j] # {}
      BY DEF Tracked
    <3>3. i \in 1 .. NStages /\ i # NStages + 1 /\ i + 1 # 1 /\ (i + 1) - 1 = i
          /\ (i # 1 => i - 1 \in Stages) /\ (i + 1 = NStages + 1 <=> i = NStages)
      BY <1>1 DEF Stages
    <3>4. taken <=> TrackEnters(accepts, inputs, out, i + 1)
      BY <3>3 DEF TrackEnters
    <3>5. added # {} <=> TrackEnters(accepts, inputs, out, i)
      <4>1. CASE i = 1
        <5>1. in_take => inputs[1] # {}
          BY DEF Advances
        <5>2. added # {} <=> in_take
          BY <4>1, <5>1
        <5> QED
          BY <3>3, <4>1, <5>2 DEF TrackEnters
      <4>2. CASE i # 1
        <5>1. TrackShifts(out, i - 1) => Tracked(kill)[i - 1] # {}
          BY <3>2, <3>3, <4>2 DEF TrackShifts
        <5> QED
          BY <3>3, <4>2, <5>1 DEF TrackEnters
      <4> QED
        BY <4>1, <4>2
    <3> HIDE DEF taken, added
    <3> QED
      BY <3>1, <3>2, <3>4, <3>5 DEF RegNext
  <2> HIDE DEF out
  <2> QED
    BY <1>1, <1>2, <2>1, TracksKeepCount
<1> HIDE DEF out
<1>5. /\ x[NStages + 1] = One(out) /\ y[NStages + 1] = One(out)
      /\ x[1] = y[1]
  BY <1>1 DEF MessagesCross, TracksCross
<1>6. ASSUME NEW i \in Stages \ {1}
      PROVE  x[i] <= y[i] \/ Occupied(internal, i) < Occupied(vvms, i)
  <2>1. i \in 1 .. NStages + 1 /\ i # NStages + 1 /\ i # 1
    BY <1>1 DEF Stages
  <2>2. x[i] = One(Advances(accepts, inputs, out, i)) /\ y[i] = One(TrackShifts(out, i - 1))
    BY <2>1 DEF MessagesCross, TracksCross
  <2>3. CASE Advances(accepts, inputs, out, i) /\ ~TrackShifts(out, i - 1)
    BY <1>1, <2>3, NeverAhead
  <2>4. CASE ~(Advances(accepts, inputs, out, i) /\ ~TrackShifts(out, i - 1))
    BY <2>2, <2>4 DEF One
  <2> QED
    BY <2>3, <2>4
<1>7. \A i \in Stages :
        /\ i \in 1 .. NStages + 1
        /\ Occupied(internal, i) \in Nat /\ Occupied(vvms, i) \in Nat
        /\ Occupied(internal', i) \in Nat /\ Occupied(vvms', i) \in Nat
        /\ x[i] \in {0, 1} /\ y[i] \in {0, 1} /\ One(out) \in {0, 1}
        /\ Occupied(internal', i) + One(out) = Occupied(internal, i) + x[i]
        /\ Occupied(vvms', i) + One(out) = Occupied(vvms, i) + y[i]
  <2>1. \A i \in Stages : i \in 1 .. NStages + 1
    BY <1>1 DEF Stages
  <2> QED
    BY <1>3, <1>4, <1>5, <2>1, CountSplit DEF Counted, Crossings, One
<1> HIDE DEF x, y
<1>8. 1 \in Stages
  BY <1>1 DEF Stages
<1>9. Occupied(internal', 1) = Occupied(vvms', 1)
  BY <1>5, <1>7, <1>8 DEF Aligned
<1>10. ASSUME NEW i \in Stages PROVE Occupied(internal', i) <= Occupied(vvms', i)
  <2>1. Occupied(internal, i) <= Occupied(vvms, i)
    BY DEF Aligned
  <2>2. CASE i = 1
    BY <1>7, <1>8, <1>9, <2>2
  <2>3. CASE i # 1
    <3>1. x[i] <= y[i] \/ Occupied(internal, i) < Occupied(vvms, i)
      BY <1>6, <2>3
    <3> QED
      BY <1>7, <2>1, <3>1
  <2> QED
    BY <2>2, <2>3
<1> QED
  BY <1>9, <1>10 DEF Aligned, Occupied

(* Empty rows are aligned.                                                 *)
LEMMA InitAligned == PipeInit => Aligned
<1> SUFFICES ASSUME PipeInit PROVE Aligned
  OBVIOUS
<1>1. ASSUME NEW i \in Stages
      PROVE  Occupied(internal, i) = 0 /\ Occupied(vvms, i) = 0
  <2>1. \A j \in i .. NStages : j \in Stages
    BY NStagesAssumption DEF Stages
  <2>2. /\ {j \in i .. NStages : internal[j] # {}} = {}
        /\ {j \in i .. NStages : vvms[j] # {}} = {}
    BY <2>1 DEF PipeInit
  <2> QED
    BY <2>2, FS_EmptySet DEF Occupied
<1>2. 1 \in Stages
  BY NStagesAssumption DEF Stages
<1> QED
  BY <1>1, <1>2 DEF Aligned

(* The masks of killable_pipeline_wrapper.py never lose step with the      *)
(* messages, for every number of stages, all payloads and all broadcasts.  *)
THEOREM RowsAligned == PipelineSpec => []Aligned
<1>1. PipelineInit => Aligned
  BY InitAligned DEF PipelineInit
<1>2. Aligned /\ [PipelineNext]_<<internal, vvms, delivered>> => Aligned'
  <2> SUFFICES ASSUME Aligned, [PipelineNext]_<<internal, vvms, delivered>>
               PROVE  Aligned'
    OBVIOUS
  <2>1. CASE PipelineNext
    <3>1. PICK kill \in Broadcasts, accepts \in SUBSET Stages, take \in BOOLEAN :
            \E incoming \in Offers(kill) :
              /\ take => OutPeek(kill) # {}
              /\ PipeCycle(kill, accepts, Inputs(incoming), take)
      BY <2>1 DEF PipelineNext
    <3>2. PICK incoming \in Offers(kill) :
              /\ take => OutPeek(kill) # {}
              /\ PipeCycle(kill, accepts, Inputs(incoming), take)
      BY <3>1
    <3>3. Fed(Inputs(incoming))
      BY DEF Fed, Inputs
    <3> QED
      BY <3>2, <3>3, CycleAligned
  <2>2. CASE UNCHANGED <<internal, vvms, delivered>>
    BY <2>2 DEF Aligned, Occupied
  <2> QED
    BY <2>1, <2>2
<1> QED
  BY <1>1, <1>2, PTL DEF PipelineSpec

------------------------------------------------------------------------------
(* Selection: Nth picks the places of a finite set of numbers one by one,  *)
(* in order.                                                               *)

(* The places up to one of them.                                           *)
UpTo(P, k) == {j \in P : j <= k}

(* The rank of a place is a number up to that of places.                   *)
LEMMA RankType ==
  ASSUME NEW P \in SUBSET Int, IsFiniteSet(P), NEW k \in P
  PROVE  /\ IsFiniteSet(UpTo(P, k)) /\ Cardinality(P) \in Nat
         /\ Cardinality(UpTo(P, k)) \in 1 .. Cardinality(P)
<1>1. UpTo(P, k) \in SUBSET P /\ k \in UpTo(P, k)
  BY DEF UpTo
<1>2. /\ IsFiniteSet(UpTo(P, k)) /\ Cardinality(UpTo(P, k)) \in Nat
      /\ Cardinality(UpTo(P, k)) <= Cardinality(P) /\ Cardinality(P) \in Nat
  BY <1>1, FS_Subset, FS_CardinalityType
<1>3. Cardinality(UpTo(P, k)) # 0
  BY <1>1, <1>2, FS_EmptySet
<1> QED
  BY <1>2, <1>3

(* A later place has a higher rank.                                        *)
LEMMA RankGrows ==
  ASSUME NEW P \in SUBSET Int, IsFiniteSet(P), NEW k \in P, NEW l \in P, k < l
  PROVE  Cardinality(UpTo(P, k)) < Cardinality(UpTo(P, l))
<1>1. UpTo(P, k) \in SUBSET UpTo(P, l) /\ l \in UpTo(P, l) /\ l \notin UpTo(P, k)
  <2>1. \A j \in P : j \in Int /\ (j <= k => j <= l)
    <3>1. k \in Int /\ l \in Int /\ \A j \in P : j \in Int
      OBVIOUS
    <3> QED BY <3>1
  <2>2. l \in Int /\ k \in Int /\ l <= l /\ ~(l <= k)
    OBVIOUS
  <2> QED BY <2>1, <2>2 DEF UpTo
<1>2. /\ IsFiniteSet(UpTo(P, l)) /\ Cardinality(UpTo(P, l)) \in Nat
      /\ Cardinality(UpTo(P, k)) \in Nat
  BY RankType
<1>3. /\ Cardinality(UpTo(P, k)) <= Cardinality(UpTo(P, l))
      /\ Cardinality(UpTo(P, l)) = Cardinality(UpTo(P, k)) => UpTo(P, l) = UpTo(P, k)
  BY <1>1, <1>2, FS_Subset
<1> QED
  BY <1>1, <1>2, <1>3

(* The places have the ranks from one to their number, one each.           *)
LEMMA RankOnto ==
  ASSUME NEW P \in SUBSET Int, IsFiniteSet(P), NEW n \in 1 .. Cardinality(P)
  PROVE  \E k \in P : Cardinality(UpTo(P, k)) = n
<1> DEFINE c == Cardinality(P)
           f == [k \in P |-> Cardinality(UpTo(P, k))]
<1>1. c \in Nat
  BY FS_CardinalityType
<1>2. f \in [P -> 1 .. c]
  BY RankType
<1>3. \A k, l \in P : f[k] = f[l] => k = l
  <2> SUFFICES ASSUME NEW k \in P, NEW l \in P, k < l PROVE f[k] # f[l]
    OBVIOUS
  <2> QED
    BY RankGrows, RankType
<1> HIDE DEF f
<1>4. f \in Injection(P, 1 .. c)
  BY <1>2, <1>3, Fun_IsInj
<1>5. IsFiniteSet(1 .. c) /\ Cardinality(1 .. c) = c
  BY <1>1, FS_Interval
<1>6. f \in Surjection(P, 1 .. c)
  BY <1>4, <1>5, FS_Injection
<1>7. \E k \in P : f[k] = n
  BY <1>6, n \in 1 .. c DEF Surjection
<1> QED
  BY <1>7 DEF f

(* Nth gives every place once, in order.                                   *)
LEMMA NthIs ==
  ASSUME NEW P \in SUBSET Int, IsFiniteSet(P)
  PROVE  /\ Cardinality(P) \in Nat
         /\ \A n \in 1 .. Cardinality(P) : Nth(P, n) \in P /\ Cardinality(UpTo(P, Nth(P, n))) = n
         /\ \A k \in P : \E n \in 1 .. Cardinality(P) : Nth(P, n) = k
         /\ \A m, n \in 1 .. Cardinality(P) : m < n <=> Nth(P, m) < Nth(P, n)
<1>1. Cardinality(P) \in Nat
  BY FS_CardinalityType
<1>2. ASSUME NEW n \in 1 .. Cardinality(P)
      PROVE  Nth(P, n) \in P /\ Cardinality(UpTo(P, Nth(P, n))) = n
  <2>1. \E k \in P : Cardinality({j \in P : j <= k}) = n
    BY RankOnto DEF UpTo
  <2> QED
    BY <2>1 DEF Nth, UpTo
<1>3. \A k, l \in P : Cardinality(UpTo(P, k)) = Cardinality(UpTo(P, l)) => k = l
  <2> SUFFICES ASSUME NEW k \in P, NEW l \in P, k < l
               PROVE  Cardinality(UpTo(P, k)) # Cardinality(UpTo(P, l))
    OBVIOUS
  <2> QED
    BY RankGrows, RankType
<1>4. ASSUME NEW k \in P PROVE \E n \in 1 .. Cardinality(P) : Nth(P, n) = k
  <2> DEFINE n == Cardinality(UpTo(P, k))
  <2>1. n \in 1 .. Cardinality(P)
    BY RankType
  <2>2. Nth(P, n) \in P /\ Cardinality(UpTo(P, Nth(P, n))) = n
    BY <1>2, <2>1
  <2> HIDE DEF n
  <2>3. Cardinality(UpTo(P, k)) = n
    BY DEF n
  <2> QED
    BY <1>3, <2>1, <2>2, <2>3
<1>5. ASSUME NEW m \in 1 .. Cardinality(P), NEW n \in 1 .. Cardinality(P)
      PROVE  m < n <=> Nth(P, m) < Nth(P, n)
  <2>1. /\ Nth(P, m) \in P /\ Nth(P, n) \in P
        /\ Cardinality(UpTo(P, Nth(P, m))) = m /\ Cardinality(UpTo(P, Nth(P, n))) = n
    BY <1>2
  <2>0. m \in Int /\ n \in Int
    BY <1>1
  <2>9. Nth(P, m) \in Int /\ Nth(P, n) \in Int
    BY <2>1
  <2>2. ASSUME Nth(P, m) < Nth(P, n) PROVE m < n
    BY <2>1, <2>2, RankGrows
  <2>3. ASSUME Nth(P, n) < Nth(P, m) PROVE n < m
    BY <2>1, <2>3, RankGrows
  <2>4. Nth(P, m) = Nth(P, n) => m = n
    BY <2>1
  <2> QED
    BY <2>0, <2>9, <2>2, <2>3, <2>4
<1> QED
  BY <1>1, <1>2, <1>4, <1>5

(* An enumeration of the places in order gives their number and Nth.       *)
Enumerates(g, n, P) ==
  /\ n \in Nat /\ g \in [1 .. n -> P]
  /\ \A i, j \in 1 .. n : i < j => g[i] < g[j]
  /\ \A k \in P : \E i \in 1 .. n : g[i] = k

(* There is only one enumeration in order: what enumerates the places is   *)
(* Nth.                                                                    *)
LEMMA EnumeratesNth ==
  ASSUME NEW P \in SUBSET Int, NEW n, NEW g, Enumerates(g, n, P)
  PROVE  /\ IsFiniteSet(P) /\ Cardinality(P) = n
         /\ \A i \in 1 .. n : Nth(P, i) = g[i]
<1>1. n \in Nat /\ g \in [1 .. n -> P] /\ \A k \in P : \E i \in 1 .. n : g[i] = k
  BY DEF Enumerates
<1>0. \A i \in 1 .. n : i \in Int /\ g[i] \in Int /\ g[i] \in P
  <2>1. \A i \in 1 .. n : g[i] \in P
    BY <1>1
  <2>2. \A i \in 1 .. n : i \in Int
    BY <1>1
  <2> QED BY <2>1, <2>2
<1>g. \A i, j \in 1 .. n : i < j => g[i] < g[j]
  BY DEF Enumerates
<1>2. \A i, j \in 1 .. n : g[i] = g[j] => i = j
  <2> SUFFICES ASSUME NEW i \in 1 .. n, NEW j \in 1 .. n, i < j PROVE g[i] # g[j]
    BY <1>1
  <2> QED
    BY <1>0, <1>g
<1>3. g \in Injection(1 .. n, P) /\ g \in Surjection(1 .. n, P)
  BY <1>1, <1>2, Fun_IsInj, Fun_IsSurj
<1>4. IsFiniteSet(1 .. n) /\ Cardinality(1 .. n) = n
  BY <1>1, FS_Interval
<1>5. IsFiniteSet(P) /\ Cardinality(P) = n
  BY <1>3, <1>4, FS_Surjection
<1>6. ASSUME NEW i \in 1 .. n PROVE Cardinality(UpTo(P, g[i])) = i
  <2> DEFINE h == [j \in 1 .. i |-> g[j]]
             U == UpTo(P, g[i])
  <2>0. i \in Nat /\ \A j \in 1 .. i : j \in 1 .. n /\ (j < i \/ j = i)
    BY <1>1
  <2>1. \A j \in 1 .. i : g[j] <= g[i] /\ g[j] \in P
    BY <1>0, <1>g, <2>0
  <2>2. h \in [1 .. i -> U]
    BY <2>1 DEF UpTo
  <2>3. \A k \in U : \E j \in 1 .. i : h[j] = k
    <3> SUFFICES ASSUME NEW k \in U PROVE \E j \in 1 .. i : h[j] = k
      OBVIOUS
    <3>1. PICK j \in 1 .. n : g[j] = k
      BY <1>1 DEF UpTo
    <3>2. ~(i < j)
      BY <1>0, <1>g, <3>1 DEF UpTo
    <3> QED
      BY <1>1, <3>1, <3>2
  <2>4. \A a, b \in 1 .. i : h[a] = h[b] => a = b
    BY <1>2, <2>0
  <2> HIDE DEF h, U
  <2>5. h \in Injection(1 .. i, U) /\ h \in Surjection(1 .. i, U)
    BY <2>2, <2>3, <2>4, Fun_IsInj, Fun_IsSurj
  <2>6. IsFiniteSet(1 .. i) /\ Cardinality(1 .. i) = i
    BY <2>0, FS_Interval
  <2> QED
    BY <2>5, <2>6, FS_Surjection DEF U
<1>7. ASSUME NEW i \in 1 .. n PROVE Nth(P, i) = g[i]
  <2>1. Nth(P, i) \in P /\ Cardinality(UpTo(P, Nth(P, i))) = i
    BY <1>5, NthIs
  <2>2. PICK j \in 1 .. n : g[j] = Nth(P, i)
    BY <1>1, <2>1
  <2> QED
    BY <1>6, <2>1, <2>2
<1> QED
  BY <1>5, <1>7

(* Nth enumerates a finite set of numbers.                                 *)
LEMMA NthEnumerates ==
  ASSUME NEW P \in SUBSET Int, IsFiniteSet(P)
  PROVE  Enumerates([n \in 1 .. Cardinality(P) |-> Nth(P, n)], Cardinality(P), P)
BY NthIs DEF Enumerates

(* A part of an enumeration, selected.                                     *)
LEMMA SelectionOfSelection ==
  ASSUME NEW P \in SUBSET Int, IsFiniteSet(P), NEW Q \in SUBSET (1 .. Cardinality(P))
  PROVE  /\ IsFiniteSet(Q) /\ Cardinality(Q) \in Nat /\ Q \in SUBSET Int
         /\ Enumerates([n \in 1 .. Cardinality(Q) |-> Nth(P, Nth(Q, n))], Cardinality(Q),
                       {Nth(P, i) : i \in Q})
<1> DEFINE c == Cardinality(P)  d == Cardinality(Q)
<1>1. /\ c \in Nat
      /\ \A n \in 1 .. c : Nth(P, n) \in P
      /\ \A m, n \in 1 .. c : m < n <=> Nth(P, m) < Nth(P, n)
  BY NthIs
<1>2. Q \in SUBSET Int /\ IsFiniteSet(Q)
  <2>1. IsFiniteSet(1 .. c)
    BY <1>1, FS_Interval
  <2>2. IsFiniteSet(Q)
    BY <2>1, FS_Subset
  <2>3. 1 .. c \subseteq Int
    BY <1>1
  <2> QED
    BY <2>2, <2>3
<1>3. /\ d \in Nat
      /\ \A n \in 1 .. d : Nth(Q, n) \in Q
      /\ \A k \in Q : \E n \in 1 .. d : Nth(Q, n) = k
      /\ \A m, n \in 1 .. d : m < n <=> Nth(Q, m) < Nth(Q, n)
  BY <1>2, NthIs
<1> DEFINE g == [n \in 1 .. d |-> Nth(P, Nth(Q, n))]
           R == {Nth(P, i) : i \in Q}
<1> HIDE DEF c, d
<1>4. g \in [1 .. d -> R]
  BY <1>3
<1>5. \A i, j \in 1 .. d : i < j => g[i] < g[j]
  <2>1. SUFFICES ASSUME NEW i \in 1 .. d, NEW j \in 1 .. d, i < j PROVE g[i] < g[j]
    OBVIOUS
  <2>2. Nth(Q, i) < Nth(Q, j) /\ Nth(Q, i) \in 1 .. c /\ Nth(Q, j) \in 1 .. c
    BY <1>3, <2>1 DEF c
  <2> QED
    BY <1>1, <2>2
<1>6. \A k \in R : \E i \in 1 .. d : g[i] = k
  BY <1>3
<1> QED
  BY <1>2, <1>3, <1>4, <1>5, <1>6 DEF Enumerates, d

(* The one element of a set.                                               *)
The(S) == CHOOSE e \in S : TRUE

------------------------------------------------------------------------------
(* The wrapper is a queue.                                                 *)

(* The places of a row that are in use, counted from its end.              *)
UsedBack(row) == {k \in Stages : row[NStages + 1 - k] # {}}

(* The places in use are finitely many, and no more than the stages.       *)
LEMMA BackType ==
  ASSUME NEW row
  PROVE  /\ UsedBack(row) \in SUBSET Int /\ IsFiniteSet(UsedBack(row))
         /\ Cardinality(UsedBack(row)) \in Nat /\ Cardinality(UsedBack(row)) <= NStages
<1>1. Stages \in SUBSET Int /\ IsFiniteSet(Stages) /\ Cardinality(Stages) = NStages
  BY NStagesAssumption, FS_Interval DEF Stages
<1>2. UsedBack(row) \in SUBSET Stages
  BY DEF UsedBack
<1> QED
  BY <1>1, <1>2, FS_Subset, FS_CardinalityType

(* A row in order is given by any enumeration of its places.               *)
LEMMA InOrderIs ==
  ASSUME NEW row, NEW n, NEW g, Enumerates(g, n, UsedBack(row))
  PROVE  InOrder(row) = [i \in 1 .. n |-> The(row[NStages + 1 - g[i]])]
<1>1. Cardinality(UsedBack(row)) = n /\ \A i \in 1 .. n : Nth(UsedBack(row), i) = g[i]
  BY EnumeratesNth, BackType
<1>2. InOrder(row) = [i \in 1 .. Cardinality(UsedBack(row)) |->
                        The(row[NStages + 1 - Nth(UsedBack(row), i)])]
  BY Zenon DEF InOrder, UsedBack, The
<1> QED
  BY <1>1, <1>2, Zenon

(* It has as many entries as are counted.                                  *)
LEMMA InOrderCount == ASSUME NEW row PROVE Cardinality(UsedBack(row)) = Occupied(row, 1)
<1> DEFINE A == {j \in 1 .. NStages : row[j] # {}}
           U == UsedBack(row)
           f == [k \in U |-> NStages + 1 - k]
<1>1. \A k \in Stages : NStages + 1 - k \in Stages /\ NStages + 1 - (NStages + 1 - k) = k
  BY NStagesAssumption DEF Stages
<1>2. f \in [U -> A]
  BY <1>1 DEF UsedBack, Stages
<1>3. \A j, k \in U : f[j] = f[k] => j = k
  <2>1. \A k \in U : k \in Stages
    BY DEF UsedBack
  <2>2. \A k \in U : k = NStages + 1 - f[k]
    BY <1>1, <2>1
  <2> QED
    BY <2>2
<1>4. \A a \in A : \E k \in U : f[k] = a
  <2> SUFFICES ASSUME NEW a \in A PROVE \E k \in U : f[k] = a
    OBVIOUS
  <2>1. a \in Stages /\ row[a] # {}
    BY DEF Stages
  <2>2. NStages + 1 - a \in U /\ NStages + 1 - (NStages + 1 - a) = a
    BY <1>1, <2>1 DEF UsedBack
  <2> QED
    BY <2>2
<1> HIDE DEF f
<1>5. f \in Injection(U, A) /\ f \in Surjection(U, A)
  BY <1>2, <1>3, <1>4, Fun_IsInj, Fun_IsSurj
<1> QED
  BY <1>5, BackType, FS_Surjection DEF Occupied

(* A row in which entries move forward by one place, one enters at the     *)
(* beginning and the last may leave.                                       *)
Entering(row, moves, enter, i) ==
  IF i = 1 THEN enter ELSE IF i - 1 \in moves THEN row[i - 1] ELSE {}

Conveys(row, moves, enter, next) ==
  \A i \in Stages :
    /\ next[i] = RegNext(row[i], i \in moves, Entering(row, moves, enter, i))
    /\ Entering(row, moves, enter, i) # {} /\ row[i] # {} => i \in moves
    /\ i \in moves => row[i] # {}

Leaving(moves) == IF NStages \in moves THEN 1 ELSE 0

(* What such a move does to the row in order: the first leaves or not, one *)
(* is added at the end or not, and the rest is as it was.                  *)
LEMMA Conveyor ==
  ASSUME NEW row, NEW moves \in SUBSET Stages, NEW enter, NEW next,
         Conveys(row, moves, enter, next)
  PROVE  LET c == Cardinality(UsedBack(row))
             o == Leaving(moves)
             e == IF enter # {} THEN 1 ELSE 0
         IN  /\ o <= c /\ DOMAIN InOrder(row) = 1 .. c
             /\ Cardinality(UsedBack(next)) = c - o + e
             /\ DOMAIN InOrder(next) = 1 .. c - o + e
             /\ \A n \in 1 .. c - o : InOrder(next)[n] = InOrder(row)[n + o]
             /\ e = 1 => InOrder(next)[c - o + 1] = The(enter)
             /\ o = 1 => InOrder(row)[1] = The(row[NStages])
<1> DEFINE P == UsedBack(row)
           c == Cardinality(P)
           o == Leaving(moves)
           e == IF enter # {} THEN 1 ELSE 0
           st(k) == NStages + 1 - k
           U == UsedBack(next)
           to(k) == IF st(k) \in moves THEN k - 1 ELSE k
           g == [n \in 1 .. c - o + e |-> IF n <= c - o THEN to(Nth(P, n + o)) ELSE NStages]
<1>1. /\ P \in SUBSET Int /\ IsFiniteSet(P) /\ c \in Nat
      /\ \A n \in 1 .. c : Nth(P, n) \in P
      /\ \A k \in P : \E n \in 1 .. c : Nth(P, n) = k
      /\ \A m, n \in 1 .. c : m < n <=> Nth(P, m) < Nth(P, n)
  BY BackType, NthIs
<1>3. InOrder(row) = [n \in 1 .. c |-> The(row[st(Nth(P, n))])]
  BY Zenon DEF InOrder, UsedBack, The
<1>4. NStages \in Nat /\ NStages >= 1 /\ Stages = 1 .. NStages
  BY NStagesAssumption DEF Stages
<1>5. \A k \in P : k \in 1 .. NStages /\ row[st(k)] # {} /\ st(k) \in 1 .. NStages /\ k \in Int
  BY <1>4 DEF UsedBack
<1>6. \A i \in 1 .. NStages : row[i] # {} => st(i) \in P /\ st(st(i)) = i
  BY <1>4 DEF UsedBack
<1>7. \A i \in 1 .. NStages :
        /\ next[i] = RegNext(row[i], i \in moves, Entering(row, moves, enter, i))
        /\ Entering(row, moves, enter, i) # {} /\ row[i] # {} => i \in moves
        /\ i \in moves => row[i] # {}
  BY <1>4 DEF Conveys
<1>8. o \in {0, 1} /\ e \in {0, 1} /\ (o = 1 <=> NStages \in moves) /\ (e = 1 <=> enter # {})
  BY DEF Leaving
<1>9. ASSUME o = 1 PROVE c >= 1 /\ Nth(P, 1) = 1 /\ 1 \in P
  <2>1. row[NStages] # {} /\ NStages \in 1 .. NStages
    BY <1>4, <1>7, <1>8, <1>9
  <2>2. 1 \in P
    BY <1>4, <1>6, <2>1
  <2>3. PICK n \in 1 .. c : Nth(P, n) = 1
    BY <1>1, <2>2
  <2>4. 1 \in 1 .. c
    BY <1>1, <2>3
  <2>5. Nth(P, 1) >= 1 /\ Nth(P, 1) \in Int
    BY <1>1, <1>5, <2>4
  <2>6. ~(1 < n)
    BY <1>1, <2>3, <2>4, <2>5
  <2> QED
    BY <1>1, <2>2, <2>3, <2>4, <2>6
<1> HIDE DEF P, c, o, e, U
\* those behind the last one that leaves
<1>10. \A n \in 1 .. c - o : n + o \in 1 .. c /\ n \in Int /\ n + o \in Int
  BY <1>1, <1>8
<1>11. ASSUME NEW n \in 1 .. c - o
       PROVE  /\ Nth(P, n + o) \in P /\ Nth(P, n + o) \in Int
              /\ ~(o = 1 /\ Nth(P, n + o) = 1)
  <2>1. n + o \in 1 .. c
    BY <1>10
  <2>2. Nth(P, n + o) \in P
    BY <1>1, <2>1
  <2>3. CASE o = 1
    <3>1. 1 \in 1 .. c /\ 1 < n + o
      BY <1>1, <1>10, <2>1, <2>3
    <3>2. Nth(P, 1) < Nth(P, n + o)
      BY <1>1, <2>1, <3>1
    <3> QED
      BY <1>5, <1>9, <2>2, <2>3, <3>2
  <2> QED
    BY <1>5, <2>2, <2>3
\* where an entry goes
<1>12. ASSUME NEW k \in P, ~(o = 1 /\ k = 1)
       PROVE  /\ to(k) \in 1 .. NStages /\ to(k) \in Int
              /\ next[st(to(k))] = row[st(k)] /\ to(k) \in U
  <2>0. k \in 1 .. NStages /\ k \in Int /\ st(k) \in 1 .. NStages /\ row[st(k)] # {}
    BY <1>5
  <2>1. CASE st(k) \in moves
    <3>1. k # 1
      BY <1>4, <1>8, <1>12, <2>0, <2>1
    <3>2. /\ k - 1 \in 1 .. NStages /\ st(k - 1) \in 1 .. NStages /\ st(k - 1) # 1
          /\ st(k - 1) - 1 = st(k)
      BY <1>4, <2>0, <3>1
    <3>3. to(k) = k - 1
      BY <2>1
    <3> HIDE DEF st, to
    <3>4. Entering(row, moves, enter, st(k - 1)) = row[st(k)]
      BY <2>1, <3>2 DEF Entering
    <3>5. next[st(k - 1)] = row[st(k)]
      BY <1>7, <2>0, <3>2, <3>4 DEF RegNext
    <3>6. k - 1 \in U
      BY <1>4, <2>0, <3>2, <3>5 DEF U, UsedBack, st
    <3> QED
      BY <3>2, <3>3, <3>5, <3>6
  <2>2. CASE st(k) \notin moves
    <3>1. to(k) = k
      BY <2>2
    <3> HIDE DEF st, to
    <3>2. Entering(row, moves, enter, st(k)) = {}
      BY <1>7, <2>0, <2>2
    <3>3. next[st(k)] = row[st(k)]
      BY <1>7, <2>0, <2>2, <3>2 DEF RegNext
    <3>4. k \in U
      BY <1>4, <2>0, <3>3 DEF U, UsedBack, st
    <3> QED
      BY <2>0, <3>1, <3>3, <3>4
  <2> QED
    BY <2>1, <2>2
<1>13. ASSUME NEW k \in P, NEW l \in P, k < l PROVE to(k) < to(l)
  <2>1. k \in Int /\ l \in Int /\ st(k) \in 1 .. NStages /\ st(l) \in 1 .. NStages
        /\ row[st(k)] # {} /\ row[st(l)] # {}
    BY <1>5
  <2>2. CASE l = k + 1 /\ st(l) \in moves
    <3>1. st(k) - 1 = st(l) /\ st(k) # 1
      BY <1>4, <2>1, <2>2
    <3> HIDE DEF st, to
    <3>2. Entering(row, moves, enter, st(k)) = row[st(l)]
      BY <2>2, <3>1 DEF Entering
    <3>3. st(k) \in moves
      BY <1>7, <2>1, <3>2
    <3> QED
      BY <2>1, <2>2, <3>3 DEF to
  <2>3. CASE l = k + 1 /\ st(l) \notin moves
    BY <2>1, <2>3
  <2>4. CASE l > k + 1
    BY <2>1, <2>4
  <2> QED
    BY <1>13, <2>1, <2>2, <2>3, <2>4
<1>14. ASSUME enter # {}
       PROVE  /\ next[1] = enter /\ NStages \in U /\ st(NStages) = 1
              /\ \A k \in P : to(k) < NStages
  <2>1. 1 \in 1 .. NStages /\ Entering(row, moves, enter, 1) = enter
    BY <1>4 DEF Entering
  <2>2. next[1] = enter
    BY <1>7, <1>14, <2>1 DEF RegNext
  <2>3. NStages \in U /\ st(NStages) = 1
    BY <1>4, <1>14, <2>2 DEF U, UsedBack
  <2>4. ASSUME NEW k \in P PROVE to(k) < NStages
    <3>1. k \in 1 .. NStages /\ k \in Int
      BY <1>5
    <3>2. CASE k = NStages
      <4>1. st(k) = 1 /\ row[1] # {}
        BY <1>4, <1>5, <3>2
      <4>2. 1 \in moves
        BY <1>7, <1>14, <2>1, <4>1
      <4> QED
        BY <1>4, <3>2, <4>1, <4>2
    <3>3. CASE k # NStages
      BY <1>4, <3>1, <3>3
    <3> QED
      BY <3>2, <3>3
  <2> QED
    BY <2>2, <2>3, <2>4
<1>15. ASSUME NEW u \in U
       PROVE  \/ enter # {} /\ u = NStages
              \/ \E k \in P : to(k) = u /\ ~(o = 1 /\ k = 1)
  <2>1. u \in 1 .. NStages /\ st(u) \in 1 .. NStages /\ next[st(u)] # {} /\ u \in Int
        /\ st(st(u)) = u
    BY <1>4 DEF U, UsedBack
  <2>2. CASE Entering(row, moves, enter, st(u)) # {}
    <3>1. CASE st(u) = 1
      BY <1>4, <2>1, <2>2, <3>1 DEF Entering
    <3>2. CASE st(u) # 1
      <4>1. st(u) - 1 \in moves /\ row[st(u) - 1] # {} /\ st(u) - 1 \in 1 .. NStages
        <5> HIDE DEF st
        <5> QED
          BY <1>4, <2>1, <2>2, <3>2 DEF Entering
      <4>2. st(u) - 1 = st(u + 1) /\ u + 1 # 1
        BY <1>4, <2>1
      <4>3. u + 1 \in P
        BY <1>4, <1>6, <2>1, <4>1, <4>2
      <4>4. to(u + 1) = u
        BY <2>1, <4>1, <4>2
      <4> HIDE DEF to, st
      <4> QED
        BY <4>2, <4>3, <4>4
    <3> QED
      BY <3>1, <3>2
  <2>3. CASE Entering(row, moves, enter, st(u)) = {}
    <3>1. st(u) \notin moves /\ row[st(u)] # {}
      <4> HIDE DEF st
      <4> QED
        BY <1>7, <2>1, <2>3 DEF RegNext
    <3>2. u \in P /\ to(u) = u
      BY <1>6, <2>1, <3>1
    <3>3. ~(o = 1 /\ u = 1)
      <4>1. u = 1 => st(u) = NStages
        BY <1>4
      <4> QED
        BY <1>8, <3>1, <4>1
    <3> HIDE DEF to, st
    <3> QED
      BY <3>2, <3>3
  <2> QED
    BY <2>2, <2>3
<1> HIDE DEF to, st
<1>16. o <= c /\ c - o + e \in Nat /\ c - o \in Nat
  BY <1>1, <1>8, <1>9
<1>17. \A n \in 1 .. c - o : n \in 1 .. c - o + e /\ g[n] = to(Nth(P, n + o))
  BY <1>8, <1>16
<1>18. e = 1 => c - o + 1 \in 1 .. c - o + e /\ g[c - o + 1] = NStages
  BY <1>8, <1>16
<1>19. \A n \in 1 .. c - o + e : n \in Int /\ (n \in 1 .. c - o \/ (e = 1 /\ n = c - o + 1))
  BY <1>8, <1>16
<1> HIDE DEF g
<1>20. \A n \in 1 .. c - o + e : g[n] \in U /\ g[n] \in Int
  BY <1>4, <1>8, <1>11, <1>12, <1>14, <1>17, <1>18, <1>19
<1>21. ASSUME NEW i \in 1 .. c - o + e, NEW j \in 1 .. c - o + e, i < j PROVE g[i] < g[j]
  <2>1. i \in 1 .. c - o
    BY <1>16, <1>19, <1>21
  <2>2. CASE j \in 1 .. c - o
    <3>1. /\ i + o \in 1 .. c /\ j + o \in 1 .. c /\ i + o < j + o
      BY <1>8, <1>10, <1>21, <2>1, <2>2
    <3>2. Nth(P, i + o) < Nth(P, j + o) /\ Nth(P, i + o) \in P /\ Nth(P, j + o) \in P
      BY <1>1, <3>1
    <3> QED
      BY <1>13, <1>17, <2>1, <2>2, <3>2
  <2>3. CASE e = 1 /\ j = c - o + 1
    BY <1>8, <1>11, <1>14, <1>17, <1>18, <2>1, <2>3
  <2> QED
    BY <1>19, <2>2, <2>3
<1>22. ASSUME NEW u \in U PROVE \E n \in 1 .. c - o + e : g[n] = u
  <2>1. CASE enter # {} /\ u = NStages
    BY <1>8, <1>18, <2>1
  <2>2. ASSUME NEW k \in P, to(k) = u, ~(o = 1 /\ k = 1) PROVE \E n \in 1 .. c - o + e : g[n] = u
    <3>1. PICK m \in 1 .. c : Nth(P, m) = k
      BY <1>1
    <3>2. ~(o = 1 /\ m = 1)
      BY <1>9, <2>2, <3>1
    <3>3. m - o \in 1 .. c - o /\ (m - o) + o = m
      BY <1>1, <1>8, <3>1, <3>2
    <3> QED
      BY <1>17, <2>2, <3>1, <3>3
  <2> QED
    BY <1>15, <2>1, <2>2
<1>23. Enumerates(g, c - o + e, U)
  <2>1. g \in [1 .. c - o + e -> U]
    BY <1>20 DEF g
  <2> QED
    BY <1>16, <1>21, <1>22, <2>1 DEF Enumerates
<1>24. /\ Cardinality(U) = c - o + e
       /\ InOrder(next) = [n \in 1 .. c - o + e |-> The(next[st(g[n])])]
  BY <1>23, BackType, EnumeratesNth, InOrderIs DEF U, st
<1>25. \A n \in 1 .. c - o : InOrder(next)[n] = InOrder(row)[n + o]
  <2> SUFFICES ASSUME NEW n \in 1 .. c - o PROVE InOrder(next)[n] = InOrder(row)[n + o]
    OBVIOUS
  <2>1. next[st(g[n])] = row[st(Nth(P, n + o))]
    BY <1>11, <1>12, <1>17
  <2> QED
    BY <1>3, <1>10, <1>17, <1>24, <2>1
<1>26. e = 1 => InOrder(next)[c - o + 1] = The(enter)
  BY <1>8, <1>14, <1>18, <1>24
<1>27. o = 1 => InOrder(row)[1] = The(row[NStages])
  <2>1. st(1) = NStages
    BY <1>4 DEF st
  <2> QED
    BY <1>1, <1>3, <1>9, <2>1
<1> QED
  BY <1>3, <1>16, <1>24, <1>25, <1>26, <1>27 DEF P, c, o, e, U

(* The messages move on like that.                                         *)
MessageMoves(accepts, inputs, out) ==
  {i \in Stages : internal[i] # {} /\ Leaves(accepts, inputs, out, i)}

(* A cycle moves the messages so, whichever stages hold back.              *)
LEMMA MessagesConvey ==
  ASSUME NEW accepts, NEW incoming, NEW out, out => internal[NStages] # {},
         NEW next, \A i \in Stages :
           next[i] = RegNext(internal[i], Leaves(accepts, Inputs(incoming), out, i),
                       IF Advances(accepts, Inputs(incoming), out, i)
                       THEN Inputs(incoming)[i] ELSE {})
  PROVE  /\ Conveys(internal, MessageMoves(accepts, Inputs(incoming), out),
                    IF Advances(accepts, Inputs(incoming), out, 1) THEN incoming ELSE {}, next)
         /\ Leaving(MessageMoves(accepts, Inputs(incoming), out)) = IF out THEN 1 ELSE 0
<1> DEFINE inputs == Inputs(incoming)
           moves == MessageMoves(accepts, inputs, out)
           adv(i) == Advances(accepts, inputs, out, i)
           enter == IF adv(1) THEN incoming ELSE {}
           in(i) == IF adv(i) THEN inputs[i] ELSE {}
<1>1. NStages \in Nat /\ NStages >= 1 /\ Stages = 1 .. NStages /\ NStages \in Stages /\ 1 \in Stages
  BY NStagesAssumption DEF Stages
<1>2. /\ inputs[1] = incoming
      /\ \A i \in Stages : i # 1 => i - 1 \in Stages /\ inputs[i] = internal[i - 1]
                                      /\ (i - 1) + 1 = i /\ i - 1 # NStages
  BY <1>1 DEF Inputs
<1>3. \A i \in Stages : i # NStages => i + 1 \in Stages /\ i + 1 # 1 /\ (i + 1) - 1 = i
  BY <1>1
<1>4. ASSUME NEW i \in Stages PROVE in(i) = Entering(internal, moves, enter, i)
  <2>1. CASE i = 1
    BY <1>2, <2>1 DEF Entering
  <2>2. CASE i # 1
    <3>1. adv(i) => internal[i - 1] # {}
      BY <1>2, <2>2 DEF Advances
    <3>2. i - 1 \in moves <=> adv(i)
      BY <1>2, <2>2, <3>1 DEF MessageMoves, Leaves
    <3> HIDE DEF moves, adv, inputs
    <3> QED
      BY <1>2, <2>2, <3>2 DEF Entering
  <2> QED
    BY <2>1, <2>2
<1>5. ASSUME NEW i \in Stages, in(i) # {}, internal[i] # {} PROVE i \in moves
  <2>1. adv(i)
    BY <1>5
  <2>2. CASE i = NStages
    <3>1. out
      <4>1. \A j \in i .. NStages : j = i
        BY <1>1, <2>2
      <4> QED
        BY <1>5, <2>1, <4>1 DEF Advances
    <3> QED
      BY <1>5, <2>2, <3>1 DEF MessageMoves, Leaves
  <2>3. CASE i # NStages
    <3>1. i + 1 \in Stages /\ inputs[i + 1] = internal[i]
      BY <1>2, <1>3, <2>3
    <3>2. CASE \E j \in i .. NStages : internal[j] = {} /\ i + 1 .. j \subseteq accepts
      <4>1. PICK j \in i .. NStages : internal[j] = {} /\ i + 1 .. j \subseteq accepts
        BY <3>2
      <4>2. j # i
        BY <1>5, <4>1
      <4>3. j \in i + 1 .. NStages /\ i + 1 \in i + 1 .. j /\ (i + 1) + 1 .. j \subseteq i + 1 .. j
        BY <1>1, <4>1, <4>2
      <4>4. adv(i + 1)
        BY <1>5, <3>1, <4>1, <4>3 DEF Advances
      <4> QED
        BY <1>5, <2>3, <4>4 DEF MessageMoves, Leaves
    <3>3. CASE out /\ i + 1 .. NStages \subseteq accepts
      <4>1. i + 1 \in i + 1 .. NStages /\ (i + 1) + 1 .. NStages \subseteq i + 1 .. NStages
        BY <1>1, <3>1
      <4>2. adv(i + 1)
        BY <1>5, <3>1, <3>3, <4>1 DEF Advances
      <4> QED
        BY <1>5, <2>3, <4>2 DEF MessageMoves, Leaves
    <3> QED
      BY <2>1, <3>2, <3>3 DEF Advances
  <2> QED
    BY <2>2, <2>3
<1>6. ASSUME NEW i \in Stages
      PROVE  next[i] = RegNext(internal[i], i \in moves, Entering(internal, moves, enter, i))
  <2>1. next[i] = RegNext(internal[i], Leaves(accepts, inputs, out, i), in(i))
    OBVIOUS
  <2>2. internal[i] # {} => (i \in moves <=> Leaves(accepts, inputs, out, i))
    BY DEF MessageMoves
  <2> HIDE DEF in, moves, enter, inputs
  <2> QED
    BY <1>4, <2>1, <2>2 DEF RegNext
<1>7. Leaving(moves) = IF out THEN 1 ELSE 0
  BY <1>1 DEF Leaving, MessageMoves, Leaves
<1>8. \A i \in moves : internal[i] # {}
  BY DEF MessageMoves
<1> HIDE DEF moves, in, enter, inputs, adv
<1>9. Conveys(internal, moves, enter, next)
  BY <1>4, <1>5, <1>6, <1>8 DEF Conveys
<1> QED
  BY <1>7, <1>9 DEF moves, enter, inputs, adv

(* So do the tracking registers.                                           *)
TrackMoves(out) ==
  {i \in Stages : vvms[i] # {} /\ IF i = NStages THEN out ELSE TrackShifts(out, i)}

(* It moves the marked masks so, on their own.                             *)
LEMMA TracksConvey ==
  ASSUME Aligned, NEW kill, NEW accepts, NEW inputs, NEW out \in BOOLEAN,
         out => vvms[NStages] # {}, NEW enter, enter # {} => Advances(accepts, inputs, out, 1),
         NEW next, \A i \in Stages :
           next[i] = RegNext(Tracked(kill)[i], IF i = NStages THEN out ELSE TrackShifts(out, i),
                       IF i = 1 THEN enter
                       ELSE IF TrackShifts(out, i - 1) THEN Tracked(kill)[i - 1] ELSE {})
  PROVE  /\ Conveys(Tracked(kill), TrackMoves(out), enter, next)
         /\ Leaving(TrackMoves(out)) = IF out THEN 1 ELSE 0
<1> DEFINE row == Tracked(kill)
           moves == TrackMoves(out)
           in(i) == IF i = 1 THEN enter ELSE IF TrackShifts(out, i - 1) THEN row[i - 1] ELSE {}
           goes(i) == IF i = NStages THEN out ELSE TrackShifts(out, i)
<1>1. NStages \in Nat /\ NStages >= 1 /\ Stages = 1 .. NStages /\ NStages \in Stages /\ 1 \in Stages
  BY NStagesAssumption DEF Stages
<1>2. \A i \in Stages : row[i] # {} <=> vvms[i] # {}
  <2> SUFFICES ASSUME NEW i \in Stages PROVE row[i] # {} <=> vvms[i] # {}
    OBVIOUS
  <2> DEFINE f(v) == [mask |-> v.mask \ kill.clear_mask, dead |-> v.dead \/ ~Keep(v, kill)]
  <2>1. row[i] = {f(v) : v \in vvms[i]}
    BY Zenon DEF Tracked
  <2> HIDE DEF f, row
  <2> QED
    BY <2>1
<1>3. \A i \in Stages : i # 1 => i - 1 \in Stages /\ (i - 1) + 1 = i /\ i - 1 # NStages
  BY <1>1
<1>4. \A i \in Stages : i \in moves <=> row[i] # {} /\ goes(i)
  BY <1>2 DEF TrackMoves
<1>5. ASSUME NEW i \in Stages PROVE in(i) = Entering(row, moves, enter, i)
  <2>1. CASE i = 1
    BY <2>1 DEF Entering
  <2>2. CASE i # 1
    <3>1. i - 1 \in moves <=> row[i - 1] # {} /\ TrackShifts(out, i - 1)
      BY <1>3, <1>4, <2>2
    <3> HIDE DEF row, moves
    <3> QED
      BY <2>2, <3>1 DEF Entering
  <2> QED
    BY <2>1, <2>2
<1>6. ASSUME NEW i \in Stages, in(i) # {}, row[i] # {} PROVE i \in moves
  <2>1. vvms[i] # {}
    BY <1>2, <1>6
  <2>2. CASE i = 1
    <3>1. TrackEnters(accepts, inputs, out, 2)
      BY <1>6, <2>1, <2>2, FirstHasRoom
    <3>2. goes(1)
      BY <1>1, <3>1 DEF TrackEnters
    <3> QED
      BY <1>4, <1>6, <2>2, <3>2
  <2>3. CASE i # 1
    <3>1. TrackShifts(out, i - 1)
      BY <1>6, <2>3
    <3>2. out \/ \E j \in i .. NStages : vvms[j] = {}
      BY <1>3, <2>3, <3>1 DEF TrackShifts
    <3>3. CASE out
      BY <1>4, <1>6, <2>1, <3>3 DEF TrackShifts
    <3>4. CASE \E j \in i .. NStages : vvms[j] = {}
      <4>1. PICK j \in i .. NStages : vvms[j] = {}
        BY <3>4
      <4>2. j # i
        BY <2>1, <4>1
      <4>3. j \in i + 1 .. NStages /\ i # NStages
        BY <1>1, <4>1, <4>2
      <4> QED
        BY <1>4, <1>6, <2>1, <4>1, <4>3 DEF TrackShifts
    <3> QED
      BY <3>2, <3>3, <3>4
  <2> QED
    BY <2>2, <2>3
<1>7. ASSUME NEW i \in Stages
      PROVE  next[i] = RegNext(row[i], i \in moves, Entering(row, moves, enter, i))
  <2>1. next[i] = RegNext(row[i], goes(i), in(i))
    OBVIOUS
  <2> HIDE DEF in, moves, row, goes
  <2> QED
    BY <1>4, <1>5, <2>1 DEF RegNext
<1>8. Leaving(moves) = IF out THEN 1 ELSE 0
  BY <1>1 DEF Leaving, TrackMoves
<1> HIDE DEF moves, in, row, goes
<1>9. Conveys(row, moves, enter, next)
  BY <1>4, <1>5, <1>6, <1>7 DEF Conveys
<1> QED
  BY <1>8, <1>9 DEF moves, row

(* Two rows in order, joined without the dead.                             *)
Alive(ts, c) == {i \in 1 .. c : ~ts[i].dead}

Join(m, t) == [m EXCEPT !.mask = t.mask]

Line(ms, ts, c) ==
  [n \in 1 .. Cardinality(Alive(ts, c)) |->
     Join(ms[Nth(Alive(ts, c), n)], ts[Nth(Alive(ts, c), n)])]

Message(m) == m = [data |-> m.data, mask |-> m.mask]

(* A message with another mask.                                            *)
LEMMA WithMask ==
  ASSUME NEW m, Message(m), NEW x
  PROVE  [m EXCEPT !.mask = x] = [data |-> m.data, mask |-> x]
<1> DEFINE d == m.data  k == m.mask
<1>1. m = [data |-> d, mask |-> k]
  BY DEF Message
<1> HIDE DEF d, k
<1>2. [[data |-> d, mask |-> k] EXCEPT !.mask = x] = [data |-> d, mask |-> x]
  OBVIOUS
<1>3. [m EXCEPT !.mask = x] = [data |-> d, mask |-> x]
  BY <1>1, <1>2, Zenon
<1> QED
  BY <1>3 DEF d

(* Those alive are finitely many.                                          *)
LEMMA AliveType ==
  ASSUME NEW ts, NEW c \in Nat
  PROVE  /\ Alive(ts, c) \in SUBSET (1 .. c) /\ Alive(ts, c) \in SUBSET Int
         /\ IsFiniteSet(Alive(ts, c))
         /\ Cardinality(Alive(ts, c)) \in Nat /\ Cardinality(Alive(ts, c)) <= c
<1>1. IsFiniteSet(1 .. c) /\ Cardinality(1 .. c) = c /\ 1 .. c \in SUBSET Int
  BY FS_Interval
<1>2. Alive(ts, c) \in SUBSET (1 .. c)
  BY DEF Alive
<1> QED
  BY <1>1, <1>2, FS_Subset, FS_CardinalityType

(* A line is given by any enumeration of those alive.                      *)
LEMMA LineIs ==
  ASSUME NEW ms, NEW ts, NEW c \in Nat, NEW n, NEW g, Enumerates(g, n, Alive(ts, c))
  PROVE  Line(ms, ts, c) = [i \in 1 .. n |-> Join(ms[g[i]], ts[g[i]])]
<1>1. Cardinality(Alive(ts, c)) = n /\ \A i \in 1 .. n : Nth(Alive(ts, c), i) = g[i]
  BY EnumeratesNth, AliveType
<1> QED
  BY <1>1, Zenon DEF Line

(* What refines the queue is the line of the two rows.                     *)
LEMMA JoinedIs ==
  ASSUME DOMAIN InOrder(internal) = 1 .. Cardinality(UsedBack(internal))
  PROVE  Joined = Line(InOrder(internal), InOrder(vvms), Cardinality(UsedBack(internal)))
<1> DEFINE msgs == InOrder(internal)  tracks == InOrder(vvms)
<1>1. Joined = JoinRows(msgs, tracks)
  BY DEF Joined
<1> HIDE DEF msgs, tracks
<1>2. DOMAIN msgs = 1 .. Cardinality(UsedBack(internal))
  BY DEF msgs
<1>3. JoinRows(msgs, tracks) = Line(msgs, tracks, Cardinality(UsedBack(internal)))
  BY <1>2, Zenon DEF JoinRows, Line, Alive, Join
<1> QED
  BY <1>1, <1>3 DEF msgs, tracks

(* What a queue shows under a kill.                                        *)
Kept(q, kill) == {i \in DOMAIN q : Keep(q[i], kill)}

ShownOf(q, kill) ==
  [n \in 1 .. Cardinality(Kept(q, kill)) |-> Cleared(q[Nth(Kept(q, kill), n)], kill)]

(* The operators of the queue are those of the kill unit, and what it      *)
(* shows is what is shown of the line.                                     *)
LEMMA FifoOperators ==
  /\ \A m, kill : Fifo!Keep(m, kill) = Keep(m, kill) /\ Fifo!Cleared(m, kill) = Cleared(m, kill)
  /\ \A kill : Fifo!Shown(kill) = ShownOf(Joined, kill)
<1>1. \A m, kill : Fifo!Keep(m, kill) = Keep(m, kill) /\ Fifo!Cleared(m, kill) = Cleared(m, kill)
  BY DEF Fifo!Keep, Keep, Fifo!Cleared, Cleared
<1>2. \A S : Fifo!Cardinality(S) = Cardinality(S)
  BY Zenon DEF Fifo!Cardinality, Cardinality
<1>3. \A P, n : Fifo!Nth(P, n) = Nth(P, n)
  BY <1>2 DEF Fifo!Nth, Nth
<1>4. ASSUME NEW kill PROVE Fifo!Shown(kill) = ShownOf(Joined, kill)
  <2> DEFINE kept == {i \in DOMAIN Joined : Fifo!Keep(Joined[i], kill)}
  <2>1. kept = Kept(Joined, kill)
    BY <1>1 DEF Kept
  <2>2. Fifo!Shown(kill) = [n \in 1 .. Fifo!Cardinality(kept) |->
                              Fifo!Cleared(Joined[Fifo!Nth(kept, n)], kill)]
    BY Zenon DEF Fifo!Shown
  <2> HIDE DEF kept
  <2> QED
    BY <1>1, <1>2, <1>3, <2>1, <2>2 DEF ShownOf
<1> QED
  BY <1>1, <1>4

(* The tracking registers mark what the kill hits.                         *)
MarksHit(ms, ts, tk, c, kill) ==
  \A i \in 1 .. c : /\ Message(ms[i])
                    /\ tk[i].mask = ts[i].mask \ kill.clear_mask
                    /\ tk[i].dead <=> ts[i].dead \/ ~Keep(ts[i], kill)

(* What a kill leaves of a line is the line with the masks it has marked.  *)
LEMMA LineShown ==
  ASSUME NEW kill, NEW c \in Nat, NEW ms, NEW ts, NEW tk, MarksHit(ms, ts, tk, c, kill)
  PROVE  ShownOf(Line(ms, ts, c), kill) = Line(ms, tk, c)
<1> DEFINE A == Alive(ts, c)
           a == Cardinality(A)
           B == Alive(tk, c)
           q == Line(ms, ts, c)
           Q == Kept(q, kill)
           d == Cardinality(Q)
           g == [n \in 1 .. d |-> Nth(A, Nth(Q, n))]
<1>m. \A i \in 1 .. c : /\ Message(ms[i])
                        /\ tk[i].mask = ts[i].mask \ kill.clear_mask
                        /\ tk[i].dead <=> ts[i].dead \/ ~Keep(ts[i], kill)
  BY DEF MarksHit
<1>1. /\ A \in SUBSET Int /\ IsFiniteSet(A) /\ A \in SUBSET (1 .. c) /\ a \in Nat
      /\ \A n \in 1 .. a : Nth(A, n) \in A
      /\ \A k \in A : \E n \in 1 .. a : Nth(A, n) = k
  BY AliveType, NthIs
<1>2. DOMAIN q = 1 .. a /\ \A n \in 1 .. a : q[n] = Join(ms[Nth(A, n)], ts[Nth(A, n)])
  BY DEF Line
<1>3. \A i \in 1 .. c : /\ i \in A <=> ~ts[i].dead
                        /\ i \in B <=> ~tk[i].dead
  BY DEF Alive
<1>j. ASSUME NEW i \in 1 .. c
      PROVE  /\ Keep(Join(ms[i], ts[i]), kill) <=> Keep(ts[i], kill)
             /\ Cleared(Join(ms[i], ts[i]), kill) = Join(ms[i], tk[i])
  <2>1. Message(ms[i])
    BY <1>m
  <2>2. /\ Join(ms[i], ts[i]) = [data |-> ms[i].data, mask |-> ts[i].mask]
        /\ Join(ms[i], tk[i]) = [data |-> ms[i].data, mask |-> tk[i].mask]
    BY <2>1, WithMask DEF Join
  <2>3. Keep(Join(ms[i], ts[i]), kill) <=> Keep(ts[i], kill)
    BY <2>2 DEF Keep
  <2>4. Cleared(Join(ms[i], ts[i]), kill) = [data |-> ms[i].data, mask |-> ts[i].mask \ kill.clear_mask]
    <3> DEFINE j == Join(ms[i], ts[i])
    <3>1. Message(j) /\ j.data = ms[i].data /\ j.mask = ts[i].mask
      BY <2>2 DEF Message
    <3> HIDE DEF j
    <3>2. Cleared(j, kill) = [j EXCEPT !.mask = j.mask \ kill.clear_mask]
      BY DEF Cleared
    <3>3. Cleared(j, kill) = [data |-> j.data, mask |-> j.mask \ kill.clear_mask]
      BY <3>1, <3>2, WithMask
    <3> QED
      BY <3>1, <3>3 DEF j
  <2> QED
    BY <1>m, <2>2, <2>3, <2>4
<1> HIDE DEF A, B, a, q
<1>4. Q \in SUBSET (1 .. a) /\ \A n \in 1 .. a : n \in Q <=> Keep(ts[Nth(A, n)], kill)
  <2>1. \A n \in 1 .. a : Nth(A, n) \in 1 .. c
    BY <1>1
  <2> QED
    BY <1>2, <1>j, <2>1 DEF Kept
<1> HIDE DEF Q
<1>5. B = {Nth(A, n) : n \in Q}
  <2>1. \A n \in Q : Nth(A, n) \in B
    BY <1>1, <1>3, <1>4, <1>m
  <2>2. ASSUME NEW k \in B PROVE \E n \in Q : Nth(A, n) = k
    <3>1. k \in 1 .. c /\ k \in A /\ Keep(ts[k], kill)
      <4>1. k \in 1 .. c
        BY DEF B, Alive
      <4> QED
        BY <1>3, <1>m, <4>1
    <3>2. PICK n \in 1 .. a : Nth(A, n) = k
      BY <1>1, <3>1
    <3> QED
      BY <1>4, <3>1, <3>2
  <2> QED
    BY <2>1, <2>2
<1>6. Q \in SUBSET Int /\ IsFiniteSet(Q) /\ d \in Nat /\ Enumerates(g, d, B)
  BY <1>1, <1>4, <1>5, SelectionOfSelection DEF a
<1>7. \A n \in 1 .. d : Nth(Q, n) \in Q
  BY <1>6, NthIs
<1>8. Line(ms, tk, c) = [n \in 1 .. d |-> Join(ms[g[n]], tk[g[n]])]
  <2> HIDE DEF d, g
  <2> QED
    BY <1>6, LineIs DEF B
<1>9. ShownOf(q, kill) = [n \in 1 .. d |-> Cleared(q[Nth(Q, n)], kill)]
  BY Zenon DEF ShownOf, Q
<1>10. \A n \in 1 .. d : Cleared(q[Nth(Q, n)], kill) = Join(ms[g[n]], tk[g[n]])
  <2> SUFFICES ASSUME NEW n \in 1 .. d
               PROVE  Cleared(q[Nth(Q, n)], kill) = Join(ms[g[n]], tk[g[n]])
    OBVIOUS
  <2>1. Nth(Q, n) \in 1 .. a /\ g[n] = Nth(A, Nth(Q, n))
    BY <1>4, <1>7
  <2>2. g[n] \in 1 .. c
    BY <1>1, <2>1
  <2> QED
    BY <1>2, <1>j, <2>1, <2>2
<1> HIDE DEF d, g
<1> QED
  BY <1>8, <1>9, <1>10 DEF q

(* When both rows move on and take something in, so does what is joined.   *)
BothMove(ms, ts, new_ms, new_ts, c, o, e, m) ==
  /\ \A n \in 1 .. c - o : new_ms[n] = ms[n + o] /\ new_ts[n] = ts[n + o]
  /\ e = 1 => new_ms[c - o + 1] = m /\ ~new_ts[c - o + 1].dead

LineGoesOn(ms, ts, new_ms, new_ts, c, o, e, m) ==
  LET a    == Cardinality(Alive(ts, c))
      f    == IF o = 1 /\ ~ts[1].dead THEN 1 ELSE 0
      rest == [n \in 1 .. a - f |-> Line(ms, ts, c)[n + f]]
  IN  /\ a \in Nat /\ f <= a /\ a - f + e <= c - o + e
      /\ Line(new_ms, new_ts, c - o + e) =
           [n \in 1 .. a - f + e |-> IF n <= a - f THEN rest[n]
                                     ELSE Join(m, new_ts[c - o + 1])]
      /\ f = 1 => Line(ms, ts, c)[1] = Join(ms[1], ts[1])

(* What moves on is the line: its first leaves if that is alive, and what  *)
(* enters is added at its end.                                             *)
LEMMA LineMoves ==
  ASSUME NEW c \in Nat, NEW o \in {0, 1}, o <= c, NEW e \in {0, 1},
         NEW ms, NEW ts, NEW new_ms, NEW new_ts, NEW m,
         BothMove(ms, ts, new_ms, new_ts, c, o, e, m)
  PROVE  LineGoesOn(ms, ts, new_ms, new_ts, c, o, e, m)
<1> DEFINE A == Alive(ts, c)
           a == Cardinality(A)
           f == IF o = 1 /\ ~ts[1].dead THEN 1 ELSE 0
           N == c - o + e
           B == Alive(new_ts, N)
           g == [n \in 1 .. a - f + e |-> IF n <= a - f THEN Nth(A, n + f) - o ELSE c - o + 1]
<1>m. /\ \A n \in 1 .. c - o : new_ms[n] = ms[n + o] /\ new_ts[n] = ts[n + o]
      /\ e = 1 => new_ms[c - o + 1] = m /\ ~new_ts[c - o + 1].dead
  BY DEF BothMove
<1>1. /\ A \in SUBSET Int /\ IsFiniteSet(A) /\ A \in SUBSET (1 .. c) /\ a \in Nat
      /\ \A n \in 1 .. a : Nth(A, n) \in A
      /\ \A k \in A : \E n \in 1 .. a : Nth(A, n) = k
      /\ \A i, j \in 1 .. a : i < j <=> Nth(A, i) < Nth(A, j)
  BY AliveType, NthIs
<1>2. Line(ms, ts, c) = [n \in 1 .. a |-> Join(ms[Nth(A, n)], ts[Nth(A, n)])]
  BY DEF Line
<1>3. \A k \in 1 .. c : k \in A <=> ~ts[k].dead
  BY DEF Alive
<1>4. f \in {0, 1} /\ (f = 1 <=> o = 1 /\ ~ts[1].dead)
  OBVIOUS
<1>5. c - o \in Nat /\ N \in Nat
  OBVIOUS
<1>6. ASSUME f = 1 PROVE a >= 1 /\ Nth(A, 1) = 1
  <2>1. 1 \in 1 .. c
    BY <1>4, <1>6
  <2>2. 1 \in A
    BY <1>3, <1>4, <1>6, <2>1
  <2>3. PICK n \in 1 .. a : Nth(A, n) = 1
    BY <1>1, <2>2
  <2>4. 1 \in 1 .. a /\ Nth(A, 1) >= 1 /\ Nth(A, 1) \in Int
    BY <1>1, <2>3
  <2>5. ~(1 < n)
    BY <1>1, <2>3, <2>4
  <2> QED
    BY <1>1, <2>3, <2>4, <2>5
<1> HIDE DEF A, a, f, N
<1>7. a - f \in Nat /\ \A n \in 1 .. a - f : n \in Int /\ n + f \in 1 .. a
  BY <1>1, <1>4, <1>6
<1>8. ASSUME NEW n \in 1 .. a - f
      PROVE  /\ Nth(A, n + f) \in A /\ Nth(A, n + f) - o \in 1 .. c - o
             /\ Nth(A, n + f) \in Int /\ (Nth(A, n + f) - o) + o = Nth(A, n + f)
  <2>1. n + f \in 1 .. a /\ Nth(A, n + f) \in A /\ Nth(A, n + f) \in 1 .. c
    BY <1>1, <1>7
  <2>2. o = 1 => Nth(A, n + f) # 1
    <3>1. CASE f = 1
      <4>1. 1 \in 1 .. a /\ 1 < n + f
        <5>1. a \in Nat /\ a >= 1 /\ a - f \in Nat
          BY <1>1, <1>6, <1>7, <3>1
        <5>2. n \in Int /\ n >= 1
          BY <1>7
        <5> QED
          BY <3>1, <5>1, <5>2
      <4> QED
        BY <1>1, <1>6, <2>1, <3>1, <4>1
    <3>2. CASE f = 0
      <4>1. o = 1 /\ 1 \in 1 .. c => 1 \notin A
        BY <1>3, <1>4, <3>2
      <4> QED
        BY <2>1, <4>1
    <3> QED
      BY <1>4, <3>1, <3>2
  <2> QED
    BY <2>1, <2>2
<1>9. \A k \in 1 .. c - o : k \in 1 .. N /\ (k \in B <=> k + o \in A) /\ k + o \in 1 .. c
  <2> SUFFICES ASSUME NEW k \in 1 .. c - o
               PROVE  k \in 1 .. N /\ (k \in B <=> k + o \in A) /\ k + o \in 1 .. c
    OBVIOUS
  <2>1. k + o \in 1 .. c /\ k \in 1 .. N
    BY DEF N
  <2>2. new_ts[k] = ts[k + o]
    BY <1>m
  <2> QED
    BY <1>3, <2>1, <2>2 DEF Alive
<1>10. e = 1 => c - o + 1 \in B /\ c - o + 1 \in Int
  BY <1>5, <1>m DEF Alive, N
<1>11. \A k \in 1 .. N : k \in 1 .. c - o \/ (e = 1 /\ k = c - o + 1)
  BY DEF N
<1>12. /\ \A n \in 1 .. a - f : n \in 1 .. a - f + e /\ g[n] = Nth(A, n + f) - o
       /\ e = 1 => a - f + 1 \in 1 .. a - f + e /\ g[a - f + 1] = c - o + 1
       /\ \A n \in 1 .. a - f + e : n \in Int /\ (n \in 1 .. a - f \/ (e = 1 /\ n = a - f + 1))
  BY <1>7
<1> HIDE DEF g, B
<1>13. \A n \in 1 .. a - f : g[n] \in B /\ g[n] \in 1 .. c - o /\ g[n] \in Int
                             /\ g[n] + o = Nth(A, n + f)
  <2> SUFFICES ASSUME NEW n \in 1 .. a - f
               PROVE  g[n] \in B /\ g[n] \in 1 .. c - o /\ g[n] \in Int /\ g[n] + o = Nth(A, n + f)
    OBVIOUS
  <2>1. g[n] = Nth(A, n + f) - o
    BY <1>12
  <2>2. g[n] \in 1 .. c - o /\ g[n] + o = Nth(A, n + f) /\ Nth(A, n + f) \in A
    BY <1>8, <2>1
  <2> QED
    BY <1>9, <2>2
<1>14. \A n \in 1 .. a - f + e : g[n] \in B
  BY <1>10, <1>12, <1>13
<1>15. ASSUME NEW i \in 1 .. a - f + e, NEW j \in 1 .. a - f + e, i < j PROVE g[i] < g[j]
  <2>1. i \in 1 .. a - f
    BY <1>7, <1>12, <1>15
  <2>2. CASE j \in 1 .. a - f
    <3>1. i + f \in 1 .. a /\ j + f \in 1 .. a /\ i + f < j + f
      BY <1>4, <1>7, <1>15, <2>1, <2>2
    <3>2. Nth(A, i + f) < Nth(A, j + f)
      BY <1>1, <3>1
    <3>3. Nth(A, i + f) \in Int /\ Nth(A, j + f) \in Int
      BY <1>8, <2>1, <2>2
    <3>4. g[i] = Nth(A, i + f) - o /\ g[j] = Nth(A, j + f) - o
      BY <1>12, <2>1, <2>2
    <3> QED
      BY <3>2, <3>3, <3>4
  <2>3. CASE e = 1 /\ j = a - f + 1
    BY <1>5, <1>12, <1>13, <2>1, <2>3
  <2> QED
    BY <1>12, <2>2, <2>3
<1>16. ASSUME NEW k \in B PROVE \E n \in 1 .. a - f + e : g[n] = k
  <2>1. k \in 1 .. N
    BY DEF B, Alive
  <2>2. CASE e = 1 /\ k = c - o + 1
    BY <1>12, <2>2
  <2>3. CASE k \in 1 .. c - o
    <3>1. k + o \in A
      BY <1>9, <2>3
    <3>2. PICK n \in 1 .. a : Nth(A, n) = k + o
      BY <1>1, <3>1
    <3>3. ~(f = 1 /\ n = 1)
      BY <1>4, <1>6, <2>3, <3>2
    <3>4. n - f \in 1 .. a - f /\ (n - f) + f = n
      BY <1>1, <1>4, <3>2, <3>3
    <3>5. g[n - f] = (k + o) - o
      BY <1>12, <3>2, <3>4
    <3>6. g[n - f] = k
      BY <2>3, <3>5
    <3> QED
      BY <1>12, <3>4, <3>6
  <2> QED
    BY <1>11, <2>1, <2>2, <2>3
<1>17. a - f + e \in Nat
  BY <1>7
<1>18. Enumerates(g, a - f + e, B)
  <2>1. g \in [1 .. a - f + e -> B]
    BY <1>14 DEF g
  <2> QED
    BY <1>15, <1>16, <1>17, <2>1 DEF Enumerates
<1>19. Line(new_ms, new_ts, N) = [n \in 1 .. a - f + e |-> Join(new_ms[g[n]], new_ts[g[n]])]
  <2>1. N \in Nat
    BY <1>5 DEF N
  <2> QED
    BY <1>18, <2>1, LineIs DEF B
<1>20. a - f + e <= N
  <2>1. Cardinality(B) = a - f + e /\ Cardinality(B) <= N
    <3>1. N \in Nat /\ B \in SUBSET Int
      BY <1>5, AliveType DEF N, B
    <3> QED
      BY <1>18, <3>1, EnumeratesNth, AliveType DEF B
  <2> QED
    BY <2>1
<1> DEFINE rest == [n \in 1 .. a - f |-> Line(ms, ts, c)[n + f]]
<1>21. \A n \in 1 .. a - f : Join(new_ms[g[n]], new_ts[g[n]]) = rest[n]
  <2> SUFFICES ASSUME NEW n \in 1 .. a - f
               PROVE  Join(new_ms[g[n]], new_ts[g[n]]) = Line(ms, ts, c)[n + f]
    OBVIOUS
  <2>1. new_ms[g[n]] = ms[Nth(A, n + f)] /\ new_ts[g[n]] = ts[Nth(A, n + f)]
    BY <1>13, <1>m
  <2> QED
    BY <1>2, <1>7, <2>1
<1>22. Line(new_ms, new_ts, N) =
         [n \in 1 .. a - f + e |-> IF n <= a - f THEN rest[n] ELSE Join(m, new_ts[c - o + 1])]
  <2>1. \A n \in 1 .. a - f + e :
          Join(new_ms[g[n]], new_ts[g[n]]) =
            IF n <= a - f THEN rest[n] ELSE Join(m, new_ts[c - o + 1])
    <3> SUFFICES ASSUME NEW n \in 1 .. a - f + e
                 PROVE  Join(new_ms[g[n]], new_ts[g[n]]) =
                          IF n <= a - f THEN rest[n] ELSE Join(m, new_ts[c - o + 1])
      OBVIOUS
    <3> HIDE DEF rest
    <3>1. CASE n \in 1 .. a - f
      BY <1>7, <1>21, <3>1
    <3>2. CASE e = 1 /\ n = a - f + 1
      BY <1>7, <1>12, <1>m, <3>2
    <3> QED
      BY <1>12, <3>1, <3>2
  <2> HIDE DEF rest
  <2> QED
    BY <1>19, <2>1
<1>23. f = 1 => Line(ms, ts, c)[1] = Join(ms[1], ts[1])
  <2>1. f = 1 => 1 \in 1 .. a /\ Nth(A, 1) = 1
    BY <1>1, <1>6
  <2> QED
    BY <1>2, <2>1
<1>24. f <= a
  BY <1>1, <1>4, <1>6
<1> QED
  BY <1>1, <1>20, <1>22, <1>23, <1>24, Zenon DEF LineGoesOn, rest, a, f, A, N

(* A stage holds one message and one mask at most.                         *)
Track(t) == t = [mask |-> t.mask, dead |-> t.dead] /\ t.dead \in BOOLEAN

RowsTyped ==
  /\ \A i \in Stages : internal[i] = {} \/ \E m : internal[i] = {m} /\ Message(m)
  /\ \A i \in Stages : vvms[i] = {} \/ \E t : vvms[i] = {t} /\ Track(t)

FInv == Aligned /\ RowsTyped

(* The line, now and after a cycle, is a function of the rows in order.    *)
LEMMA JoinedRows ==
  /\ Joined = JoinRows(InOrder(internal), InOrder(vvms))
  /\ Joined' = JoinRows(InOrder(internal'), InOrder(vvms'))
<1>1. Joined = JoinRows(InOrder(internal), InOrder(vvms))
  BY Zenon DEF Joined, InOrder
<1>2. Joined' = JoinRows(InOrder(internal'), InOrder(vvms'))
  BY Zenon DEF Joined, InOrder
<1> QED
  BY <1>1, <1>2

(* The line after a cycle.                                                 *)
LEMMA JoinedAfter ==
  ASSUME DOMAIN InOrder(internal') = 1 .. Cardinality(UsedBack(internal'))
  PROVE  Joined' = Line(InOrder(internal'), InOrder(vvms'), Cardinality(UsedBack(internal')))
BY JoinedRows, Zenon DEF JoinRows, Line, Alive, Join

(* What a kill makes of a mask.                                            *)
Marked(t, kill) == [mask |-> t.mask \ kill.clear_mask, dead |-> t.dead \/ ~Keep(t, kill)]

(* Its mask, and whether it is dead.                                       *)
LEMMA MarkedIs ==
  ASSUME NEW t, NEW kill
  PROVE  /\ Marked(t, kill).mask = t.mask \ kill.clear_mask
         /\ Marked(t, kill).dead <=> t.dead \/ ~Keep(t, kill)
BY DEF Marked

(* A tracking register under a kill.                                       *)
LEMMA TrackedIs ==
  ASSUME NEW kill, NEW i \in Stages
  PROVE  /\ vvms[i] = {} => Tracked(kill)[i] = {}
         /\ \A t : vvms[i] = {t} => Tracked(kill)[i] = {Marked(t, kill)}
<1>1. Tracked(kill)[i] = {Marked(t, kill) : t \in vvms[i]}
  BY Zenon DEF Tracked, Marked
<1> QED
  BY <1>1

(* A function on the first naturals is a sequence.                         *)
LEMMA SeqForms ==
  ASSUME NEW n \in Nat, NEW q, q = [i \in 1 .. n |-> q[i]], NEW x
  PROVE  /\ Len(q) = n
         /\ Append(q, x) = [i \in 1 .. n + 1 |-> IF i <= n THEN q[i] ELSE x]
         /\ n >= 1 => /\ q # <<>> /\ Head(q) = q[1]
                      /\ Tail(q) = [i \in 1 .. n - 1 |-> q[i + 1]]
<1> DEFINE S == {q[i] : i \in 1 .. n} \cup {x}
<1>1. q \in Seq(S) /\ x \in S
  <2>1. \A i \in 1 .. n : q[i] \in S
    OBVIOUS
  <2> HIDE DEF S
  <2>2. q \in [1 .. n -> S]
    BY <2>1
  <2>3. q \in Seq(S)
    BY <2>2
  <2> QED
    BY <2>3 DEF S
<1> HIDE DEF S
<1>2. Len(q) = n
  BY <1>1
<1>3. Append(q, x) = [i \in 1 .. n + 1 |-> IF i <= n THEN q[i] ELSE x]
  <2>1. /\ Append(q, x) \in Seq(S) /\ Len(Append(q, x)) = n + 1
        /\ \A i \in 1 .. n : Append(q, x)[i] = q[i]
        /\ Append(q, x)[n + 1] = x
    BY <1>1, <1>2
  <2>2. \A i \in 1 .. n + 1 : Append(q, x)[i] = IF i <= n THEN q[i] ELSE x
    BY <2>1
  <2> QED
    BY <2>1, <2>2
<1>4. ASSUME n >= 1
      PROVE  q # <<>> /\ Head(q) = q[1] /\ Tail(q) = [i \in 1 .. n - 1 |-> q[i + 1]]
  <2>1. q # <<>>
    BY <1>1, <1>2, <1>4
  <2>2. /\ Tail(q) \in Seq(S) /\ Len(Tail(q)) = n - 1
        /\ \A i \in 1 .. n - 1 : Tail(q)[i] = q[i + 1]
    BY <1>1, <1>2, <1>4, <2>1
  <2> QED
    BY <1>1, <1>2, <2>1, <2>2
<1> QED
  BY <1>2, <1>3, <1>4

(* What may happen at the end of the queue.                                *)
Grows(rest, kill, next) ==
  \/ next = rest
  \/ /\ Len(rest) < NStages
     /\ \E m \in Payloads : Keep(m, kill) /\ next = Append(rest, Cleared(m, kill))

(* A step of the queue, spelled out.                                       *)
LEMMA FifoStep ==
  ASSUME NEW kill \in Broadcasts, NEW shown, Fifo!Shown(kill) = shown,
         \/ delivered' = {} /\ Grows(shown, kill, Joined')
         \/ /\ shown # <<>> /\ delivered' = {Head(shown)}
            /\ Grows(Tail(shown), kill, Joined')
  PROVE  Fifo!Next
<1>1. ASSUME NEW rest, Grows(rest, kill, Joined')
      PROVE  Fifo!Append1(rest, kill)
  <2> DEFINE new == {Append(rest, Fifo!Cleared(m, kill)) :
                       m \in {x \in Payloads : Fifo!Keep(x, kill)}}
  <2>1. (\E m \in Payloads : Keep(m, kill) /\ Joined' = Append(rest, Cleared(m, kill)))
          => Joined' \in new
    BY FifoOperators
  <2> HIDE DEF new
  <2>2. Joined' = rest \/ (Len(rest) < NStages /\ Joined' \in new)
    BY <1>1, <2>1 DEF Grows
  <2> QED
    BY <2>2, Zenon DEF Fifo!Append1, new
<1>2. \/ delivered' = {} /\ Fifo!Append1(shown, kill)
      \/ Fifo!Emit(shown) /\ Fifo!Append1(Tail(shown), kill)
  BY <1>1, Zenon DEF Fifo!Emit
<1> QED
  BY <1>2, Zenon DEF Fifo!Next

(* What comes in is one message that the kill does not hit.                *)
LEMMA OfferIs ==
  ASSUME NEW kill, NEW incoming \in Offers(kill), incoming # {}
  PROVE  \E m \in Payloads :
           /\ Keep(m, kill) /\ incoming = {Cleared(m, kill)} /\ Message(Cleared(m, kill))
<1>1. PICK m \in Payloads : incoming = Peek({m}, kill)
  BY DEF Offers
<1>2. Keep(m, kill) /\ incoming = {Cleared(m, kill)}
  <2>1. incoming = {Cleared(x, kill) : x \in {y \in {m} : Keep(y, kill)}}
    BY <1>1 DEF Peek
  <2> QED
    BY <2>1
<1>3. Message(m)
  BY PayloadsAssumption DEF Message
<1>4. Cleared(m, kill) = [data |-> m.data, mask |-> m.mask \ kill.clear_mask]
  BY <1>3, WithMask DEF Cleared
<1>5. Message(Cleared(m, kill))
  BY <1>4 DEF Message
<1> QED
  BY <1>2, <1>5

(* One message, or none.                                                   *)
OneMessage(S) == S = {} \/ \E m : S = {m} /\ Message(m)

(* The registers hold one of each after a cycle.                           *)
LEMMA RowsTypedAfter ==
  ASSUME RowsTyped, NEW kill, NEW accepts, NEW incoming, OneMessage(incoming),
         NEW take \in BOOLEAN,
         PipeCycle(kill, accepts, Inputs(incoming), take)
  PROVE  RowsTyped'
<1> DEFINE inputs == Inputs(incoming)
           out == OutTake(kill, take)
           enter == {[mask |-> m.mask, dead |-> FALSE] :
                       m \in IF Advances(accepts, inputs, out, 1) THEN inputs[1] ELSE {}}
           in(i) == IF Advances(accepts, inputs, out, i) THEN inputs[i] ELSE {}
           added(i) == IF i = 1 THEN enter
                       ELSE IF TrackShifts(out, i - 1) THEN Tracked(kill)[i - 1] ELSE {}
           taken(i) == IF i = NStages THEN out ELSE TrackShifts(out, i)
<1>1. NStages \in Nat /\ NStages >= 1 /\ Stages = 1 .. NStages /\ 1 \in Stages
  BY NStagesAssumption DEF Stages
<1>2. \A i \in Stages : i # 1 => i - 1 \in Stages
  BY <1>1
<1>3. \A i \in Stages : internal'[i] = RegNext(internal[i], Leaves(accepts, inputs, out, i), in(i))
  BY Zenon DEF PipeCycle
<1>4. \A i \in Stages : vvms'[i] = RegNext(Tracked(kill)[i], taken(i), added(i))
  BY Zenon DEF PipeCycle
<1>5. incoming = {} \/ \E m : incoming = {m} /\ Message(m)
  BY DEF OneMessage
<1>6. /\ inputs[1] = incoming
      /\ \A i \in Stages : i # 1 => inputs[i] = internal[i - 1]
  BY <1>1 DEF Inputs
<1>7. \A i \in Stages : inputs[i] = {} \/ \E m : inputs[i] = {m} /\ Message(m)
  BY <1>2, <1>5, <1>6 DEF RowsTyped
<1>8. \A i \in Stages : internal'[i] = {} \/ \E m : internal'[i] = {m} /\ Message(m)
  <2>1. \A i \in Stages : in(i) = {} \/ \E m : in(i) = {m} /\ Message(m)
    <3> HIDE DEF inputs
    <3> QED
      BY <1>7
  <2>2. \A i \in Stages : internal[i] = {} \/ \E m : internal[i] = {m} /\ Message(m)
    BY DEF RowsTyped
  <2> HIDE DEF in, inputs, out
  <2>3. \A i \in Stages : internal'[i] \in {{}, in(i), internal[i]}
    BY <1>3 DEF RegNext
  <2> QED
    BY <2>1, <2>2, <2>3
<1>9. \A i \in Stages : Tracked(kill)[i] = {} \/ \E t : Tracked(kill)[i] = {t} /\ Track(t)
  <2> SUFFICES ASSUME NEW i \in Stages
               PROVE  Tracked(kill)[i] = {} \/ \E t : Tracked(kill)[i] = {t} /\ Track(t)
    OBVIOUS
  <2>1. vvms[i] = {} \/ \E t : vvms[i] = {t} /\ Track(t)
    BY DEF RowsTyped
  <2>2. \A t : Track(t) => Track(Marked(t, kill))
    BY DEF Track, Marked
  <2> QED
    BY <2>1, <2>2, TrackedIs
<1>10. enter = {} \/ \E t : enter = {t} /\ Track(t)
  <2>1. CASE Advances(accepts, inputs, out, 1) /\ \E m : incoming = {m} /\ Message(m)
    <3>1. PICK m : incoming = {m} /\ Message(m)
      BY <2>1
    <3>2. enter = {[mask |-> m.mask, dead |-> FALSE]}
      BY <1>6, <2>1, <3>1
    <3>3. Track([mask |-> m.mask, dead |-> FALSE])
      BY DEF Track
    <3> HIDE DEF enter
    <3> QED
      BY <3>2, <3>3
  <2>2. CASE ~Advances(accepts, inputs, out, 1) \/ incoming = {}
    <3> HIDE DEF inputs, out
    <3> QED
      BY <1>6, <2>2
  <2> QED
    BY <1>5, <2>1, <2>2
<1>11. \A i \in Stages : vvms'[i] = {} \/ \E t : vvms'[i] = {t} /\ Track(t)
  <2> HIDE DEF enter
  <2>1. \A i \in Stages : added(i) = {} \/ \E t : added(i) = {t} /\ Track(t)
    BY <1>2, <1>9, <1>10
  <2> HIDE DEF added, taken, out
  <2>2. \A i \in Stages : vvms'[i] \in {{}, added(i), Tracked(kill)[i]}
    BY <1>4 DEF RegNext
  <2> QED
    BY <1>9, <2>1, <2>2
<1> QED
  BY <1>8, <1>11 DEF RowsTyped

(* Both rows, and the row of marked masks, have the same length, and the   *)
(* marked masks stand where the masks stand.                               *)
LEMMA SameLength ==
  ASSUME Aligned, NEW kill
  PROVE  /\ Cardinality(UsedBack(vvms)) = Cardinality(UsedBack(internal))
         /\ UsedBack(Tracked(kill)) = UsedBack(vvms)
<1>1. \A k \in Stages : NStages + 1 - k \in Stages
  BY NStagesAssumption DEF Stages
<1>2. \A i \in Stages : Tracked(kill)[i] # {} <=> vvms[i] # {}
  <2> SUFFICES ASSUME NEW i \in Stages PROVE Tracked(kill)[i] # {} <=> vvms[i] # {}
    OBVIOUS
  <2>1. Tracked(kill)[i] = {Marked(t, kill) : t \in vvms[i]}
    BY Zenon DEF Tracked, Marked
  <2> QED
    BY <2>1
<1> QED
  BY <1>1, <1>2, InOrderCount DEF Aligned, UsedBack

(* Every entry of the rows is a message and its mask, marked by the kill.  *)
LEMMA EntriesAre ==
  ASSUME Aligned, RowsTyped, NEW kill
  PROVE  LET c == Cardinality(UsedBack(internal))
         IN  \A i \in 1 .. c :
               /\ Message(InOrder(internal)[i])
               /\ InOrder(Tracked(kill))[i] = Marked(InOrder(vvms)[i], kill)
<1> DEFINE c == Cardinality(UsedBack(internal))
           st(n, row) == NStages + 1 - Nth(UsedBack(row), n)
<1>1. \A k \in Stages : NStages + 1 - k \in Stages
  BY NStagesAssumption DEF Stages
<1>2. /\ Cardinality(UsedBack(vvms)) = c /\ Cardinality(UsedBack(Tracked(kill))) = c
      /\ UsedBack(Tracked(kill)) = UsedBack(vvms)
  BY SameLength
<1>3. ASSUME NEW row
      PROVE  \A n \in 1 .. Cardinality(UsedBack(row)) :
               st(n, row) \in Stages /\ row[st(n, row)] # {}
  <2>1. \A n \in 1 .. Cardinality(UsedBack(row)) : Nth(UsedBack(row), n) \in UsedBack(row)
    BY BackType, NthIs
  <2> QED
    BY <1>1, <2>1 DEF UsedBack
<1>4. ASSUME NEW row
      PROVE  InOrder(row) = [n \in 1 .. Cardinality(UsedBack(row)) |-> The(row[st(n, row)])]
  BY Zenon DEF InOrder, UsedBack, The
<1> SUFFICES ASSUME NEW i \in 1 .. c
             PROVE  /\ Message(InOrder(internal)[i])
                    /\ InOrder(Tracked(kill))[i] = Marked(InOrder(vvms)[i], kill)
  OBVIOUS
<1>5. Message(InOrder(internal)[i])
  <2>1. PICK m : internal[st(i, internal)] = {m} /\ Message(m)
    BY <1>3 DEF RowsTyped
  <2>2. InOrder(internal)[i] = The(internal[st(i, internal)])
    BY <1>4
  <2> HIDE DEF st
  <2> QED
    BY <2>1, <2>2 DEF The
<1>6. InOrder(Tracked(kill))[i] = Marked(InOrder(vvms)[i], kill)
  <2>1. st(i, vvms) \in Stages /\ vvms[st(i, vvms)] # {}
    BY <1>2, <1>3
  <2>2. PICK t : vvms[st(i, vvms)] = {t}
    BY <2>1 DEF RowsTyped
  <2>3. st(i, Tracked(kill)) = st(i, vvms)
    BY <1>2
  <2>4. /\ InOrder(vvms)[i] = The(vvms[st(i, vvms)])
        /\ InOrder(Tracked(kill))[i] = The(Tracked(kill)[st(i, vvms)])
    BY <1>2, <1>4, <2>3
  <2> HIDE DEF st
  <2>5. Tracked(kill)[st(i, vvms)] = {Marked(t, kill)}
    BY <2>1, <2>2, TrackedIs
  <2> QED
    BY <2>2, <2>4, <2>5 DEF The
<1> QED
  BY <1>5, <1>6

(* What is shown is the first of what the queue shows.                     *)
LEMMA PeekIs ==
  ASSUME RowsTyped, NEW kill, internal[NStages] # {}, vvms[NStages] # {}
  PROVE  LET m == The(internal[NStages])
             t == The(Tracked(kill)[NStages])
         IN  /\ OutPeek(kill) = IF t.dead THEN {} ELSE {Join(m, t)}
             /\ Eating(kill) <=> t.dead
             /\ t.dead \in BOOLEAN
<1>1. NStages \in Stages
  BY NStagesAssumption DEF Stages
<1>2. PICK m : internal[NStages] = {m} /\ Message(m)
  BY <1>1 DEF RowsTyped
<1>3. PICK u : vvms[NStages] = {u} /\ Track(u)
  BY <1>1 DEF RowsTyped
<1> DEFINE t == Marked(u, kill)
<1>4. Tracked(kill)[NStages] = {t}
  BY <1>1, <1>3, TrackedIs
<1>5. The(internal[NStages]) = m /\ The(Tracked(kill)[NStages]) = t
  BY <1>2, <1>4 DEF The
<1>6. t.dead \in BOOLEAN
  BY <1>3 DEF Marked, Track
<1> HIDE DEF t
<1>7. Eating(kill) <=> t.dead
  BY <1>2, <1>4 DEF Eating
<1>8. OutPeek(kill) = {[x EXCEPT !.mask = v.mask] : x \in {m}, v \in {y \in {t} : ~y.dead}}
  <2> DEFINE R == internal[NStages]
             T == Tracked(kill)[NStages]
  <2>1. OutPeek(kill) = {[x EXCEPT !.mask = v.mask] : x \in R, v \in {y \in T : ~y.dead}}
    BY DEF OutPeek
  <2>2. R = {m} /\ T = {t}
    BY <1>2, <1>4
  <2> HIDE DEF R, T
  <2> QED
    BY <2>1, <2>2
<1>9. t.dead => OutPeek(kill) = {}
  <2>1. t.dead => {y \in {t} : ~y.dead} = {}
    OBVIOUS
  <2> QED
    BY <1>8, <2>1
<1>10. ~t.dead => OutPeek(kill) = {Join(m, t)}
  <2>1. ~t.dead => {y \in {t} : ~y.dead} = {t}
    OBVIOUS
  <2> QED
    BY <1>8, <2>1 DEF Join
<1> QED
  BY <1>5, <1>6, <1>7, <1>9, <1>10

(* The queue under a kill is the line with the masks it has marked.        *)
LEMMA ShownIs ==
  ASSUME Aligned, RowsTyped, NEW kill
  PROVE  ShownOf(Joined, kill) =
           Line(InOrder(internal), InOrder(Tracked(kill)), Cardinality(UsedBack(internal)))
<1> DEFINE ms == InOrder(internal)
           ts == InOrder(vvms)
           tk == InOrder(Tracked(kill))
           c  == Cardinality(UsedBack(internal))
<1>1. DOMAIN ms = 1 .. c
  BY DEF InOrder, UsedBack
<1>2. Joined = Line(ms, ts, c)
  BY <1>1, JoinedIs
<1>3. \A i \in 1 .. c : Message(ms[i]) /\ tk[i] = Marked(ts[i], kill)
  BY EntriesAre
<1>4. c \in Nat
  BY BackType
<1> HIDE DEF ms, tk, ts, c
<1>5. MarksHit(ms, ts, tk, c, kill)
  BY <1>3, MarkedIs DEF MarksHit
<1> QED
  BY <1>2, <1>4, <1>5, LineShown DEF ms, ts, tk, c

(* The first of some places is the first place, if it is one of them.      *)
LEMMA FirstPlace ==
  ASSUME NEW n \in Nat, NEW P \in SUBSET (1 .. n), 1 \in P
  PROVE  /\ IsFiniteSet(P) /\ Cardinality(P) \in Nat /\ Cardinality(P) >= 1
         /\ Nth(P, 1) = 1
<1>1. IsFiniteSet(1 .. n)
  BY FS_Interval
<1>0. \A j \in P : j \in Int /\ j >= 1
  OBVIOUS
<1>2. IsFiniteSet(P) /\ P \in SUBSET Int /\ Cardinality(P) \in Nat
  <2>1. P \in SUBSET Int
    BY <1>0
  <2>2. IsFiniteSet(P)
    BY <1>1, FS_Subset
  <2> QED
    BY <2>1, <2>2, FS_CardinalityType
<1>3. UpTo(P, 1) = {1}
  <2>1. \A j \in P : j <= 1 <=> j = 1
    BY <1>0
  <2> QED
    BY <2>1 DEF UpTo
<1>4. Cardinality(UpTo(P, 1)) = 1
  BY <1>3, FS_Singleton
<1>5. Cardinality(UpTo(P, 1)) \in 1 .. Cardinality(P)
  BY <1>2, RankType
<1>6. PICK i \in 1 .. Cardinality(P) : Nth(P, i) = 1
  BY <1>2, NthIs
<1>7. Cardinality(UpTo(P, Nth(P, i))) = i
  BY <1>2, <1>6, NthIs
<1> QED
  BY <1>2, <1>4, <1>5, <1>6, <1>7

(* What is shown at the end of the rows is the first of the queue.         *)
LEMMA ShownFirst ==
  ASSUME FInv, NEW kill, OutPeek(kill) # {}
  PROVE  ShownOf(Joined, kill) # <<>> /\ OutPeek(kill) = {Head(ShownOf(Joined, kill))}
<1> DEFINE c  == Cardinality(UsedBack(internal))
           ms == InOrder(internal)
           tk == InOrder(Tracked(kill))
           shown == Line(ms, tk, c)
<1>1. NStages \in Nat /\ NStages >= 1 /\ NStages \in Stages /\ Stages = 1 .. NStages
      /\ Aligned /\ RowsTyped
  BY NStagesAssumption DEF Stages, FInv
<1>2. internal[NStages] # {} /\ vvms[NStages] # {}
  <2>1. PICK m \in internal[NStages], v \in Tracked(kill)[NStages] : TRUE
    BY DEF OutPeek
  <2> QED
    BY <1>1, <2>1, TrackedIs
<1>3. Tracked(kill)[NStages] # {}
  <2>1. PICK t : vvms[NStages] = {t}
    BY <1>1, <1>2 DEF RowsTyped
  <2>2. Tracked(kill)[NStages] = {Marked(t, kill)}
    BY <1>1, <2>1, TrackedIs
  <2> QED
    BY <2>2
<1>4. ASSUME NEW row, row[NStages] # {}
      PROVE  Cardinality(UsedBack(row)) >= 1 /\ InOrder(row)[1] = The(row[NStages])
  <2>1. UsedBack(row) \in SUBSET (1 .. NStages) /\ 1 \in UsedBack(row)
    BY <1>1, <1>4 DEF UsedBack
  <2>2. Cardinality(UsedBack(row)) \in Nat /\ Cardinality(UsedBack(row)) >= 1
        /\ Nth(UsedBack(row), 1) = 1
    BY <1>1, <2>1, FirstPlace
  <2>3. InOrder(row) = [i \in 1 .. Cardinality(UsedBack(row)) |->
                          The(row[NStages + 1 - Nth(UsedBack(row), i)])]
    BY Zenon DEF InOrder, UsedBack, The
  <2>4. 1 \in 1 .. Cardinality(UsedBack(row)) /\ NStages + 1 - 1 = NStages
    BY <1>1, <2>2
  <2> QED
    BY <2>2, <2>3, <2>4
<1>5. c \in Nat /\ c >= 1 /\ ms[1] = The(internal[NStages]) /\ tk[1] = The(Tracked(kill)[NStages])
  BY <1>2, <1>3, <1>4, BackType
<1>6. ~tk[1].dead /\ OutPeek(kill) = {Join(ms[1], tk[1])}
  BY <1>1, <1>2, <1>5, PeekIs
<1>7. ShownOf(Joined, kill) = shown
  BY <1>1, ShownIs
<1> HIDE DEF ms, tk, c
<1> DEFINE A == Alive(tk, c)
<1>8. A \in SUBSET (1 .. c) /\ 1 \in A
  BY <1>5, <1>6 DEF Alive
<1>9. Cardinality(A) \in Nat /\ Cardinality(A) >= 1 /\ Nth(A, 1) = 1
  BY <1>5, <1>8, FirstPlace
<1>10. shown = [n \in 1 .. Cardinality(A) |-> shown[n]] /\ shown[1] = Join(ms[1], tk[1])
  BY <1>9 DEF Line
<1> HIDE DEF A, shown
<1>11. shown # <<>> /\ Head(shown) = shown[1]
  BY <1>9, <1>10, SeqForms
<1> QED
  BY <1>6, <1>7, <1>10, <1>11

(* A cycle of the queue: what is taken is its first, and what enters is    *)
(* added at its end.                                                       *)
Rest(shown, take) == IF take THEN Tail(shown) ELSE shown

QueueMoves(kill, take, entering) ==
  /\ take => /\ ShownOf(Joined, kill) # <<>>
             /\ OutPeek(kill) = {Head(ShownOf(Joined, kill))}
  /\ entering = {} => Joined' = Rest(ShownOf(Joined, kill), take)
  /\ entering # {} =>
       /\ Len(Rest(ShownOf(Joined, kill), take)) < NStages
       /\ Joined' = Append(Rest(ShownOf(Joined, kill), take), The(entering))

Admitted(accepts, inputs, out, incoming) ==
  IF Advances(accepts, inputs, out, 1) THEN incoming ELSE {}

(* A clock cycle of the wrapper is one of the queue.                       *)
LEMMA CycleMovesQueue ==
  ASSUME FInv, NEW kill, NEW accepts, NEW take \in BOOLEAN,
         NEW incoming, OneMessage(incoming), take => OutPeek(kill) # {},
         PipeCycle(kill, accepts, Inputs(incoming), take)
  PROVE  QueueMoves(kill, take,
                    Admitted(accepts, Inputs(incoming), OutTake(kill, take), incoming))
<1> DEFINE inputs == Inputs(incoming)
           out == OutTake(kill, take)
           in_take == Advances(accepts, inputs, out, 1)
           enter == IF in_take THEN incoming ELSE {}
           tenter == {[mask |-> m.mask, dead |-> FALSE] :
                        m \in IF in_take THEN inputs[1] ELSE {}}
           moves == MessageMoves(accepts, inputs, out)
           tmoves == TrackMoves(out)
           c  == Cardinality(UsedBack(internal))
           o  == IF out THEN 1 ELSE 0
           e  == IF enter # {} THEN 1 ELSE 0
           ms == InOrder(internal)
           tk == InOrder(Tracked(kill))
           nms == InOrder(internal')
           nts == InOrder(vvms')
           shown == Line(ms, tk, c)
           m1 == The(enter)
\* the two rows move
<1>1. NStages \in Nat /\ NStages >= 1 /\ 1 \in Stages /\ NStages \in Stages /\ Aligned /\ RowsTyped
  BY NStagesAssumption DEF Stages, FInv
<1>2. out \in BOOLEAN /\ (out => internal[NStages] # {} /\ vvms[NStages] # {})
  BY OutFromBoth DEF OutTake, Eating
<1>3. /\ \A i \in Stages : internal'[i] = RegNext(internal[i], Leaves(accepts, inputs, out, i),
                              IF Advances(accepts, inputs, out, i) THEN inputs[i] ELSE {})
      /\ \A i \in Stages : vvms'[i] =
           RegNext(Tracked(kill)[i], IF i = NStages THEN out ELSE TrackShifts(out, i),
             IF i = 1 THEN tenter
             ELSE IF TrackShifts(out, i - 1) THEN Tracked(kill)[i - 1] ELSE {})
  BY Zenon DEF PipeCycle
<1>4. inputs[1] = incoming
  BY <1>1 DEF Inputs
<1>5. tenter # {} <=> enter # {}
  <2> HIDE DEF inputs
  <2> QED
    BY <1>4
<1>6. enter # {} => in_take
  OBVIOUS
<1> HIDE DEF out, in_take, tenter
<1>7. Conveys(internal, moves, enter, internal') /\ Leaving(moves) = o
  BY <1>2, <1>3, MessagesConvey DEF in_take
<1>8. Conveys(Tracked(kill), tmoves, tenter, vvms') /\ Leaving(tmoves) = o
  BY <1>1, <1>2, <1>3, <1>5, <1>6, TracksConvey DEF in_take
<1>9. moves \in SUBSET Stages /\ tmoves \in SUBSET Stages
  BY DEF MessageMoves, TrackMoves
<1>10. Cardinality(UsedBack(Tracked(kill))) = c
  BY <1>1, SameLength
<1> HIDE DEF inputs, enter, moves, tmoves
<1>11. /\ o <= c /\ DOMAIN ms = 1 .. c
       /\ Cardinality(UsedBack(internal')) = c - o + e /\ DOMAIN nms = 1 .. c - o + e
       /\ \A n \in 1 .. c - o : nms[n] = ms[n + o]
       /\ e = 1 => nms[c - o + 1] = m1
       /\ o = 1 => ms[1] = The(internal[NStages])
  BY <1>7, <1>9, Conveyor
<1>12. /\ \A n \in 1 .. c - o : nts[n] = tk[n + o]
       /\ e = 1 => nts[c - o + 1] = The(tenter)
       /\ o = 1 => tk[1] = The(Tracked(kill)[NStages])
  <2>1. e = IF tenter # {} THEN 1 ELSE 0
    BY <1>5
  <2> HIDE DEF e, o
  <2> QED
    BY <1>8, <1>9, <1>10, <2>1, Conveyor
\* what comes in
<1>13. ASSUME e = 1
       PROVE  /\ in_take /\ enter = incoming /\ enter = {m1} /\ Message(m1)
              /\ ~nts[c - o + 1].dead /\ Join(m1, nts[c - o + 1]) = m1
  <2>1. in_take /\ incoming # {} /\ enter = incoming
    BY <1>13 DEF enter
  <2>2. PICK x : incoming = {x} /\ Message(x)
    BY <2>1 DEF OneMessage
  <2> DEFINE t == [mask |-> x.mask, dead |-> FALSE]
  <2>3. m1 = x
    BY <2>1, <2>2 DEF The
  <2>4. The(tenter) = t
    <3>1. tenter = {[mask |-> y.mask, dead |-> FALSE] : y \in {x}}
      BY <1>4, <2>1, <2>2 DEF tenter
    <3>2. tenter = {t}
      BY <3>1
    <3> QED
      BY <3>2 DEF The
  <2>5. Join(x, t) = x
    <3>1. Join(x, t) = [data |-> x.data, mask |-> x.mask]
      BY <2>2, WithMask DEF Join
    <3> QED
      BY <2>2, <3>1 DEF Message
  <2>6. nts[c - o + 1] = t /\ ~t.dead
    BY <1>12, <1>13, <2>4
  <2> HIDE DEF t
  <2>7. Join(m1, nts[c - o + 1]) = x /\ ~nts[c - o + 1].dead
    BY <2>3, <2>5, <2>6
  <2> QED
    BY <2>1, <2>2, <2>3, <2>7
\* the joined row
<1>14. c \in Nat /\ c - o + e <= NStages /\ o \in {0, 1} /\ e \in {0, 1}
  <2>1. Cardinality(UsedBack(internal')) <= NStages
    BY BackType
  <2> QED
    BY <1>11, <2>1, BackType
<1>15. ShownOf(Joined, kill) = shown
  BY <1>1, ShownIs
<1>16. Joined' = Line(nms, nts, c - o + e)
  BY <1>11, JoinedAfter
<1> DEFINE a == Cardinality(Alive(tk, c))
           f == IF o = 1 /\ ~tk[1].dead THEN 1 ELSE 0
           rest == [n \in 1 .. a - f |-> shown[n + f]]
           last == Join(m1, nts[c - o + 1])
<1> HIDE DEF ms, tk, nms, nts, c, e, m1, o
<1>17. /\ a \in Nat /\ f <= a /\ a - f + e <= c - o + e
       /\ Joined' = [n \in 1 .. a - f + e |-> IF n <= a - f THEN rest[n] ELSE last]
       /\ f = 1 => shown[1] = Join(ms[1], tk[1])
  <2>1. BothMove(ms, tk, nms, nts, c, o, e, m1)
    BY <1>11, <1>12, <1>13 DEF BothMove
  <2>2. o <= c
    BY <1>11
  <2>3. /\ a \in Nat /\ f <= a /\ a - f + e <= c - o + e
        /\ Line(nms, nts, c - o + e) =
             [n \in 1 .. a - f + e |-> IF n <= a - f THEN rest[n] ELSE last]
        /\ f = 1 => shown[1] = Join(ms[1], tk[1])
    <3>1. LineGoesOn(ms, tk, nms, nts, c, o, e, m1)
      BY <1>14, <2>1, <2>2, LineMoves
    <3> QED
      BY <3>1, Zenon DEF LineGoesOn
  <2> HIDE DEF shown, rest, a, f, last
  <2> QED
    BY <1>16, <2>3
<1>18. shown = [n \in 1 .. a |-> shown[n]]
  BY DEF Line
<1>19. f \in {0, 1} /\ (f = 1 <=> o = 1 /\ ~tk[1].dead)
  OBVIOUS
<1> HIDE DEF shown, a, f, last
<1>20. /\ e = 0 => Joined' = rest
       /\ e = 1 => Len(rest) < NStages /\ Joined' = Append(rest, m1)
  <2>1. a - f \in Nat
    BY <1>17, <1>19
  <2>2. rest = [n \in 1 .. a - f |-> rest[n]]
    OBVIOUS
  <2> HIDE DEF rest
  <2>3. Len(rest) = a - f /\ Append(rest, last) =
          [n \in 1 .. a - f + 1 |-> IF n <= a - f THEN rest[n] ELSE last]
    BY <2>1, <2>2, SeqForms
  <2>4. CASE e = 0
    <3>1. Joined' = [n \in 1 .. a - f |-> IF n <= a - f THEN rest[n] ELSE last]
      BY <1>17, <2>1, <2>4
    <3>2. \A n \in 1 .. a - f : n <= a - f
      BY <2>1
    <3> QED
      BY <2>2, <2>4, <3>1, <3>2
  <2>5. CASE e = 1
    <3>1. Joined' = Append(rest, last)
      BY <1>17, <2>3, <2>5
    <3>2. Len(rest) < NStages
      BY <1>1, <1>14, <1>17, <2>1, <2>3, <2>5
    <3>3. last = m1
      BY <1>13, <2>5 DEF last
    <3> QED
      BY <2>5, <3>1, <3>2, <3>3
  <2> QED
    BY <1>14, <2>4, <2>5
<1>21. /\ take <=> f = 1
       /\ rest = Rest(shown, take)
       /\ take => shown # <<>> /\ OutPeek(kill) = {Head(shown)}
  <2>1. CASE f = 1
    <3>1. shown # <<>> /\ Head(shown) = shown[1] /\ Tail(shown) = rest
      BY <1>17, <1>18, <2>1, SeqForms
    <3>2. out /\ o = 1 /\ ~tk[1].dead
      BY <1>19, <2>1 DEF o
    <3>3. OutPeek(kill) = {Join(ms[1], tk[1])} /\ ~Eating(kill)
      BY <1>1, <1>2, <1>11, <1>12, <3>2, PeekIs
    <3>4. take
      BY <3>2, <3>3 DEF out, OutTake
    <3> HIDE DEF rest
    <3> QED
      BY <1>17, <2>1, <3>1, <3>3, <3>4 DEF Rest
  <2>2. CASE f = 0
    <3>1. rest = shown
      BY <1>17, <1>18, <2>2
    <3>2. ~take
      <4> SUFFICES ASSUME take PROVE FALSE
        OBVIOUS
      <4>1. out /\ o = 1 /\ OutPeek(kill) # {}
        BY DEF out, OutTake, o
      <4>2. ~tk[1].dead
        BY <1>1, <1>2, <1>11, <1>12, <4>1, PeekIs
      <4> QED
        BY <1>19, <2>2, <4>1, <4>2
    <3> HIDE DEF rest
    <3> QED
      BY <2>2, <3>1, <3>2 DEF Rest
  <2> QED
    BY <1>19, <2>1, <2>2
<1>22. /\ enter = {} <=> e = 0
       /\ enter # {} => The(enter) = m1
       /\ enter = Admitted(accepts, Inputs(incoming), OutTake(kill, take), incoming)
  <2>1. enter = {} <=> e = 0
    <3> HIDE DEF enter
    <3> QED
      BY DEF e
  <2>2. The(enter) = m1
    BY DEF m1
  <2>3. enter = Admitted(accepts, Inputs(incoming), OutTake(kill, take), incoming)
    BY Zenon DEF enter, in_take, inputs, out, Admitted
  <2> QED
    BY <2>1, <2>2, <2>3
<1> HIDE DEF rest
<1> QED
  BY <1>14, <1>15, <1>20, <1>21, <1>22 DEF QueueMoves

(* A clock cycle of the wrapper is a step of the queue.                    *)
LEMMA CycleIsFifoStep ==
  ASSUME FInv, NEW kill \in Broadcasts, NEW accepts, NEW take \in BOOLEAN,
         NEW incoming \in Offers(kill), take => OutPeek(kill) # {},
         PipeCycle(kill, accepts, Inputs(incoming), take),
         delivered' = IF take THEN OutPeek(kill) ELSE {}
  PROVE  Fifo!Next
<1> DEFINE entering == Admitted(accepts, Inputs(incoming), OutTake(kill, take), incoming)
           shown == ShownOf(Joined, kill)
<1>1. OneMessage(incoming)
  BY OfferIs DEF OneMessage
<1>2. QueueMoves(kill, take, entering)
  BY <1>1, CycleMovesQueue
<1>3. entering # {} => \E m \in Payloads : Keep(m, kill) /\ The(entering) = Cleared(m, kill)
  BY OfferIs DEF Admitted, The
<1> HIDE DEF entering
<1>4. Grows(Rest(shown, take), kill, Joined')
  BY <1>2, <1>3 DEF QueueMoves, Grows
<1>5. /\ take => shown # <<>> /\ OutPeek(kill) = {Head(shown)}
  BY <1>2 DEF QueueMoves
<1>6. Fifo!Shown(kill) = shown
  BY FifoOperators
<1> HIDE DEF shown
<1> QED
  BY <1>4, <1>5, <1>6, FifoStep DEF Rest

(* Empty rows are an empty queue.                                          *)
LEMMA EmptyQueue == PipeInit => FInv /\ Joined = <<>>
<1> SUFFICES ASSUME PipeInit PROVE FInv /\ Joined = <<>>
  OBVIOUS
<1>1. internal = [i \in Stages |-> {}] /\ vvms = [i \in Stages |-> {}]
  BY DEF PipeInit
<1>2. FInv
  <2>1. Aligned
    BY InitAligned
  <2>2. RowsTyped
    BY <1>1 DEF RowsTyped
  <2> QED
    BY <2>1, <2>2 DEF FInv
<1>3. Cardinality(UsedBack(internal)) = 0
  <2>1. \A k \in Stages : NStages + 1 - k \in Stages
    BY NStagesAssumption DEF Stages
  <2>2. UsedBack(internal) = {}
    BY <1>1, <2>1 DEF UsedBack
  <2> QED
    BY <2>2, FS_EmptySet
<1>4. DOMAIN InOrder(internal) = 1 .. Cardinality(UsedBack(internal))
  BY DEF InOrder, UsedBack
<1>5. Joined = Line(InOrder(internal), InOrder(vvms), 0)
  BY <1>3, <1>4, JoinedIs
<1>6. Alive(InOrder(vvms), 0) = {}
  BY DEF Alive
<1>7. Line(InOrder(internal), InOrder(vvms), 0) = <<>>
  <2>1. Cardinality(Alive(InOrder(vvms), 0)) = 0
    BY <1>6, FS_EmptySet
  <2>2. 1 .. 0 = {}
    OBVIOUS
  <2>3. DOMAIN Line(InOrder(internal), InOrder(vvms), 0) = {}
    BY <2>1, <2>2 DEF Line
  <2>4. Line(InOrder(internal), InOrder(vvms), 0) =
          [n \in {} |-> Line(InOrder(internal), InOrder(vvms), 0)[n]]
    BY <2>1, <2>2, <2>3 DEF Line
  <2> HIDE DEF Line
  <2> QED
    BY <2>4
<1> QED
  BY <1>2, <1>5, <1>7

(* So they are for the queue that the wrapper refines.                     *)
LEMMA FifoInit == PipelineInit => FInv /\ Fifo!Init
  BY EmptyQueue DEF PipelineInit, Fifo!Init

(* The queue is as long as there are stages with a mask that is not dead.  *)
LEMMA QueueLength ==
  ASSUME FInv
  PROVE  Len(Joined) = Cardinality({i \in Stages : \E v \in vvms[i] : ~v.dead})
<1> DEFINE U  == UsedBack(vvms)
           ms == InOrder(internal)
           ts == InOrder(vvms)
           c  == Cardinality(UsedBack(internal))
           A  == Alive(ts, c)
           S  == {i \in Stages : \E v \in vvms[i] : ~v.dead}
           st(n) == NStages + 1 - Nth(U, n)
           f  == [n \in A |-> st(n)]
<1>1. Aligned /\ RowsTyped /\ c \in Nat /\ NStages \in Nat /\ NStages >= 1 /\ Stages = 1 .. NStages
  BY BackType, NStagesAssumption DEF FInv, Stages
<1>2. c = Cardinality(U)
  BY <1>1, SameLength
<1>3. U \in SUBSET Int /\ IsFiniteSet(U) /\ U \in SUBSET Stages
  BY BackType DEF UsedBack
<1>4. ts = [n \in 1 .. Cardinality(U) |-> The(vvms[st(n)])]
  BY Zenon DEF InOrder, UsedBack, The
<1> HIDE DEF ts
<1>5. ASSUME NEW n \in 1 .. c
      PROVE  /\ st(n) \in Stages /\ Nth(U, n) \in Int
             /\ (\E v \in vvms[st(n)] : ~v.dead) <=> ~ts[n].dead
  <2>1. Nth(U, n) \in U
    BY <1>2, <1>3, NthIs
  <2>2. st(n) \in Stages /\ vvms[st(n)] # {}
    <3>1. \A k \in Stages : NStages + 1 - k \in Stages
      BY <1>1
    <3>2. \A k \in U : NStages + 1 - k \in Stages /\ vvms[NStages + 1 - k] # {}
      BY <3>1 DEF UsedBack
    <3> QED
      BY <2>1, <3>2
  <2>3. PICK v : vvms[st(n)] = {v}
    BY <1>1, <2>2 DEF RowsTyped
  <2>4. ts[n] = v
    <3>1. ts[n] = The(vvms[st(n)])
      BY <1>2, <1>4
    <3> HIDE DEF st
    <3> QED
      BY <2>3, <3>1 DEF The
  <2> QED
    BY <1>3, <2>1, <2>2, <2>3, <2>4
<1>6. A \in SUBSET (1 .. c) /\ IsFiniteSet(A) /\ Cardinality(A) \in Nat
  BY <1>1, AliveType
<1>7. \A n \in A : n \in 1 .. c /\ ~ts[n].dead
  BY DEF Alive
<1>8. f \in [A -> S]
  <2>1. \A n \in A : st(n) \in S
    BY <1>5, <1>7
  <2> HIDE DEF S, st, A
  <2> QED
    BY <2>1
<1>9. \A m, n \in A : f[m] = f[n] => m = n
  <2> SUFFICES ASSUME NEW m \in A, NEW n \in A, f[m] = f[n] PROVE m = n
    OBVIOUS
  <2>1. m \in 1 .. c /\ n \in 1 .. c /\ st(m) = st(n)
    BY <1>7
  <2>2. Nth(U, m) = Nth(U, n)
    BY <1>1, <1>5, <2>1
  <2>3. Cardinality(UpTo(U, Nth(U, m))) = m /\ Cardinality(UpTo(U, Nth(U, n))) = n
    BY <1>2, <1>3, <2>1, NthIs
  <2> QED
    BY <2>2, <2>3
<1>10. \A i \in S : \E n \in A : f[n] = i
  <2> SUFFICES ASSUME NEW i \in S PROVE \E n \in A : f[n] = i
    OBVIOUS
  <2>1. i \in Stages /\ (\E v \in vvms[i] : ~v.dead) /\ NStages + 1 - (NStages + 1 - i) = i
    BY <1>1
  <2>2. NStages + 1 - i \in U
    BY <1>1, <2>1 DEF UsedBack
  <2>3. PICK n \in 1 .. c : Nth(U, n) = NStages + 1 - i
    BY <1>2, <1>3, <2>2, NthIs
  <2>4. st(n) = i
    BY <2>1, <2>3
  <2>5. n \in A
    BY <1>5, <2>1, <2>4 DEF Alive
  <2> QED
    BY <2>4, <2>5
<1> HIDE DEF f, A, S
<1>11. f \in Injection(A, S) /\ f \in Surjection(A, S)
  BY <1>8, <1>9, <1>10, Fun_IsInj, Fun_IsSurj
<1>12. Cardinality(S) = Cardinality(A)
  BY <1>6, <1>11, FS_Surjection
<1>13. Joined = Line(ms, ts, c)
  <2>1. DOMAIN ms = 1 .. c
    BY DEF InOrder, UsedBack
  <2> QED
    BY <2>1, JoinedIs DEF ts
<1> HIDE DEF ms, c
<1>14. Joined = [n \in 1 .. Cardinality(A) |-> Joined[n]]
  BY <1>13 DEF Line, A
<1>15. Len(Joined) = Cardinality(A)
  BY <1>6, <1>14, SeqForms
<1> QED
  BY <1>12, <1>15 DEF S

(* The wrapper is a bounded queue, for any number of stages, any payloads  *)
(* and any broadcasts.                                                     *)
THEOREM WrapperImplementsFifo == PipelineSpec => ImplementsFifo
<1>1. PipelineInit => FInv /\ Fifo!Init
  BY FifoInit
<1>2. FInv /\ [PipelineNext]_<<internal, vvms, delivered>> => FInv' /\ [Fifo!Next]_<<Joined, delivered>>
  <2> SUFFICES ASSUME FInv, [PipelineNext]_<<internal, vvms, delivered>>
               PROVE  FInv' /\ [Fifo!Next]_<<Joined, delivered>>
    OBVIOUS
  <2>1. CASE PipelineNext
    <3>1. PICK kill \in Broadcasts, accepts \in SUBSET Stages, take \in BOOLEAN :
            \E incoming \in Offers(kill) :
              /\ take => OutPeek(kill) # {}
              /\ PipeCycle(kill, accepts, Inputs(incoming), take)
              /\ delivered' = IF take THEN OutPeek(kill) ELSE {}
      BY <2>1 DEF PipelineNext
    <3>2. PICK incoming \in Offers(kill) :
              /\ take => OutPeek(kill) # {}
              /\ PipeCycle(kill, accepts, Inputs(incoming), take)
              /\ delivered' = IF take THEN OutPeek(kill) ELSE {}
      BY <3>1
    <3>3. Fed(Inputs(incoming))
      BY DEF Fed, Inputs
    <3>4. Aligned'
      BY <3>2, <3>3, CycleAligned DEF FInv
    <3>5. RowsTyped'
      <4>1. OneMessage(incoming)
        BY OfferIs DEF OneMessage
      <4> QED
        BY <3>2, <4>1, RowsTypedAfter DEF FInv
    <3>6. Fifo!Next
      BY <3>2, CycleIsFifoStep
    <3> QED
      BY <3>4, <3>5, <3>6 DEF FInv
  <2>2. CASE UNCHANGED <<internal, vvms, delivered>>
    <3>1. internal' = internal /\ vvms' = vvms /\ delivered' = delivered
      BY <2>2
    <3>2. FInv'
      BY <3>1 DEF FInv, Aligned, Occupied, RowsTyped
    <3>3. Joined' = Joined
      BY <3>1, JoinedRows
    <3> QED
      BY <3>1, <3>2, <3>3
  <2> QED
    BY <2>1, <2>2
<1> QED
  BY <1>1, <1>2, PTL DEF PipelineSpec, ImplementsFifo, Fifo!Spec
=============================================================================
