------------------------------ MODULE Frontend ------------------------------
(***************************************************************************)
(* Fetch (core/rtl/frontend/fetch.py with its drop unit), the register     *)
(* behind decode, the branch target buffer, and the instruction port of    *)
(* the memory.  One step is one clock cycle.                               *)
(*                                                                         *)
(* The back end is the environment.  It takes what decode shows, executes  *)
(* the branches it has taken, in any order, which writes the buffer, and   *)
(* redirects fetch: after reset, because of a branch that was predicted    *)
(* wrongly, which may kill any of the others, or because of an instruction *)
(* at the head, which kills them all.                                      *)
(***************************************************************************)
EXTENDS Naturals, Sequences, FiniteSets

CONSTANTS NPcs,      \* the program counters wrap around after these
          BtbSize,   \* BTB_SIZE
          Delays,    \* of the memory
          MaxTaken   \* how many branches the back end may hold

ASSUME FrontendAssumption ==
  NPcs \in Nat /\ NPcs >= 1 /\ Delays \subseteq Nat /\ MaxTaken \in Nat

Pcs == 0 .. NPcs - 1

Succ(p) == (p + 1) % NPcs

VARIABLES pc, in_flight,
          drop_pending,   \* of the drop unit
          fetched,        \* fetch_val and fetch_msg
          decoded,        \* the output register of decode
          imem,           \* the request that the memory is working on
          imem_delay,     \* how long the memory takes
          entries, overwrite_counter,  \* the branch target buffer
          reset_redirect, \* the first cycle redirects to the reset vector
          branches,       \* where the program in memory has branches
          modified,       \* it was changed, and no FENCE.I came since
          executing,      \* the branches that the back end has; one that is there
                          \* twice, with the same prediction, counts once
          backend_busy,   \* it has an instruction
          redirected      \* it redirected fetch in the last cycle

fetch == <<pc, in_flight, drop_pending, fetched>>

vars == <<fetch, decoded, imem, imem_delay, entries, overwrite_counter,
          reset_redirect, branches, modified, executing, backend_busy, redirected>>

Btb == INSTANCE Cam WITH NRegs <- BtbSize, Keys <- Pcs, Values <- Pcs

Init ==
  /\ pc = 0 /\ in_flight = FALSE /\ drop_pending = FALSE /\ fetched = {}
  /\ decoded = {} /\ imem = {} /\ imem_delay \in Delays /\ Btb!CamInit
  /\ reset_redirect = TRUE /\ branches \in SUBSET Pcs /\ modified = FALSE
  /\ executing = {} /\ backend_busy = FALSE /\ redirected = FALSE

------------------------------------------------------------------------------
(* What each part shows during a cycle; redirect holds the target, if      *)
(* fetch is redirected.  The memory answers once the delay has passed.     *)
InputRdy == \E r \in imem : r.delay <= 1

PendingOnly(redirect) == drop_pending

(* DropUnit.handle_drop                                                    *)
DropPendingCurr(redirect) == drop_pending \/ (redirect # {} /\ in_flight)

DropOccurred(redirect) == DropPendingCurr(redirect) /\ InputRdy

OutputRdy(redirect) == ~DropPendingCurr(redirect) /\ InputRdy

(* Fetch.handle_f1, and the drop controller of decode: nothing is shown in *)
(* the cycle of a redirect.                                                *)
FetchPeek(redirect) == IF redirect = {} THEN fetched ELSE {}

DecodePeek(redirect) == IF redirect = {} THEN decoded ELSE {}

(* Decode takes what fetch shows when its register is clear.               *)
DecodeTakes(redirect, taken) ==
  IF DecodePeek(redirect) = {} \/ taken THEN FetchPeek(redirect) ELSE {}

(* Plausible slips, kept to measure the properties against.                *)
AdvanceAlways(redirect, took) == OutputRdy(redirect)

StallAfterDrop(redirect, took) == ~in_flight \/ (OutputRdy(redirect) /\ took # {})

(* handle_advance                                                          *)
AdvanceF1(redirect, took) == OutputRdy(redirect) /\ (fetched = {} \/ took # {})

AdvanceF0(redirect, took) ==
  ~in_flight \/ DropOccurred(redirect) \/ AdvanceF1(redirect, took)

(* handle_redirect: the next program counter.                              *)
Target(redirect) ==
  IF redirect # {} THEN CHOOSE t \in redirect : TRUE
  ELSE IF Btb!Read(pc) # {} THEN CHOOSE t \in Btb!Read(pc) : TRUE ELSE Succ(pc)

(* The answer that is there, joined with the program counter.              *)
FetchMsgs(redirect) ==
  {[pc |-> pc, pc_succ |-> Target(redirect), addr |-> r.addr, branch |-> r.branch] : r \in imem}

FetchedNext(redirect, took) ==
  IF redirect # {} THEN {}
  ELSE IF AdvanceF1(redirect, took) THEN FetchMsgs(redirect)
  ELSE IF took # {} THEN {} ELSE fetched

DecodedNext(redirect, took, taken) ==
  IF took # {} THEN took ELSE IF taken \/ redirect # {} THEN {} ELSE decoded

(* handle_f0: whether the memory takes the request is not looked at.       *)
ImemNext(redirect, took) ==
  LET received == DropOccurred(redirect) \/ (redirect = {} /\ AdvanceF1(redirect, took))
      send_rdy == imem = {} \/ received
  IN  IF AdvanceF0(redirect, took) /\ send_rdy
        THEN {[addr |-> Target(redirect), branch |-> Target(redirect) \in branches,
               delay |-> imem_delay]}
      ELSE IF received THEN {}
      ELSE {[addr |-> r.addr, branch |-> r.branch,
             delay |-> IF r.delay = 0 THEN 0 ELSE r.delay - 1] : r \in imem}

(* One cycle of the front end.  taken: decode's output is taken; write and *)
(* clear: the calls on the branch target buffer.                           *)
FrontendCycle(redirect, taken, write, clear) ==
  LET took == DecodeTakes(redirect, taken)
  IN  /\ taken => DecodePeek(redirect) # {}
      /\ pc' = IF redirect # {} \/ AdvanceF0(redirect, took) THEN Target(redirect) ELSE pc
      /\ in_flight' = (in_flight \/ AdvanceF0(redirect, took))
      /\ drop_pending' = (DropPendingCurr(redirect) /\ ~InputRdy)
      /\ fetched' = FetchedNext(redirect, took)
      /\ decoded' = DecodedNext(redirect, took, taken)
      /\ imem' = ImemNext(redirect, took) /\ UNCHANGED imem_delay
      /\ Btb!CamCycle(write, clear)

------------------------------------------------------------------------------
(* What the back end can do with the branches it holds: one of them is     *)
(* executed, and whatever way it went is written to the buffer.            *)
Optional(S) == {{}} \cup {{s} : s \in S}

Resolved(b) == {[branch |-> b, target |-> t, taken |-> k] : t \in Pcs, k \in BOOLEAN}

Resolutions ==
  {r \in UNION {Resolved(b) : b \in executing} : ~r.taken => r.target = Succ(r.branch.pc)}

Mispredicted(r) == r.target # r.branch.pc_succ

WritesOf(resolved) ==
  {[key |-> r.branch.pc, value |-> r.target, remove |-> ~r.taken] : r \in resolved}

Accepted(redirect, taken) ==
  {[pc |-> m.pc, pc_succ |-> m.pc_succ] : m \in {x \in DecodePeek(redirect) : taken /\ x.branch}}

(* One cycle of both.  clear: a fence retires.                             *)
Cycle(redirect, taken, resolved, killed, clear) ==
  /\ FrontendCycle(redirect, taken, WritesOf(resolved), clear)
  /\ executing' = (executing \ ({r.branch : r \in resolved} \cup killed))
                    \cup Accepted(redirect, taken)
  /\ Cardinality(executing') <= MaxTaken
  /\ reset_redirect' = FALSE /\ redirected' = (redirect # {})

(* No redirect.  A store may change the program.                           *)
Run ==
  /\ ~reset_redirect
  /\ backend_busy' \in BOOLEAN
  /\ \E taken, clear \in BOOLEAN,
        resolved \in Optional({r \in Resolutions : ~Mispredicted(r)}) :
       /\ clear => backend_busy
       /\ Cycle({}, taken, resolved, {}, clear)
       /\ backend_busy' => backend_busy \/ taken
       /\ taken \/ executing' # {} => backend_busy'
  /\ \/ UNCHANGED <<branches, modified>>
     \/ /\ backend_busy /\ modified' = TRUE
        /\ \E p \in Pcs : branches' \in {branches \cup {p}, branches \ {p}}

(* The first cycle after reset.                                            *)
ResetRedirect(target) ==
  /\ reset_redirect /\ target = 0
  /\ Cycle({target}, FALSE, {}, {}, FALSE)
  /\ UNCHANGED <<branches, modified, backend_busy>>

(* A branch was predicted wrongly; the younger ones are killed.            *)
BranchRedirect(target) ==
  /\ ~reset_redirect
  /\ \E r \in Resolutions, clear \in BOOLEAN :
       /\ Mispredicted(r) /\ r.target = target
       /\ \E killed \in SUBSET (executing \ {r.branch}) : Cycle({target}, FALSE, {r}, killed, clear)
  /\ UNCHANGED <<branches, modified, backend_busy>>

(* The head redirects: an exception, or a FENCE.I, before which all stores *)
(* have reached the memory.  A branch may be resolved in the same cycle.   *)
CommitRedirect(target) ==
  /\ ~reset_redirect /\ backend_busy /\ backend_busy' = FALSE
  /\ \E fence_i \in BOOLEAN, resolved \in Optional(Resolutions) :
       /\ Cycle({target}, FALSE, resolved, executing, fence_i)
       /\ modified' = (modified /\ ~fence_i)
  /\ UNCHANGED branches

Redirect(target) ==
  ResetRedirect(target) \/ BranchRedirect(target) \/ CommitRedirect(target)

Next == Run \/ \E target \in Pcs : Redirect(target)

Spec == Init /\ [][Next]_vars

(* The clock goes on.  The back end can always do something, so this is    *)
(* weak fairness of Next, in a form that is cheaper to check.              *)
FairSpec == Spec /\ []<><<TRUE>>_vars

------------------------------------------------------------------------------
(* in_flight says that the memory has a request.  Fetch never looks at     *)
(* whether the memory takes a request: if the two disagreed, the request   *)
(* would be lost and fetch would wait for its answer for ever.             *)
RequestOutstanding == in_flight <=> imem # {}

(* The instruction in every message is the one at its program counter,     *)
(* although fetch changes the counter while a request is outstanding and   *)
(* the answer says nothing about its address.                              *)
AddressIsPc == \A m \in fetched \cup decoded : m.addr = m.pc

(* Only a branch is ever predicted to be followed by anything but the next *)
(* instruction, since nobody checks this for the others, until the program *)
(* is modified and again once a FENCE.I has retired.                       *)
PredictsOnlyBranches ==
  ~modified => \A m \in fetched \cup decoded : m.pc_succ # Succ(m.pc) => m.branch

(* The abstract stream: what decode and fetch hold, and where it goes on.  *)
Holding(messages) ==
  IF messages = {} THEN <<>>
  ELSE LET m == CHOOSE m \in messages : TRUE IN <<[pc |-> m.pc, pc_succ |-> m.pc_succ]>>

Stream == Holding(decoded) \o Holding(fetched)

S == INSTANCE InstructionStream WITH
  Capacity <- 2,
  slow     <- imem_delay > 1,
  dropping <- drop_pending,
  held     <- Stream,
  next     <- pc

(* No instruction is skipped or fetched twice, and a redirect drops all    *)
(* that is held and goes on at its target; but if the memory takes more    *)
(* than a cycle, it may go on after its target, once an answer that was    *)
(* outstanding has been dropped.                                           *)
ImplementsStream == S!Spec

(* Unless it is redirected again and again, fetch delivers.                *)
FetchesOn ==
  []<>redirected \/ []<>(fetched # {})
=============================================================================
