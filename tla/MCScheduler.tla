----------------------------- MODULE MCScheduler -----------------------------
(* Instances of Scheduler: what may be renamed.                            *)
EXTENDS Scheduler, TLC

Plain == [unit |-> "other", rs1 |-> FALSE, rs2 |-> FALSE, rd |-> FALSE,
          branch |-> FALSE, faults |-> FALSE]

Alu    == [Plain EXCEPT !.unit = "alu", !.rs1 = TRUE, !.rd = TRUE]
Imm    == [Alu EXCEPT !.rs1 = FALSE]
Csr    == [Plain EXCEPT !.rd = TRUE, !.faults = TRUE]
Branch == [Plain EXCEPT !.rs1 = TRUE, !.branch = TRUE]
Jump   == [Plain EXCEPT !.branch = TRUE]
Load   == [Plain EXCEPT !.unit = "load", !.rs1 = TRUE, !.rd = TRUE]
LoadX0 == [Load EXCEPT !.rd = FALSE]
Store  == [Plain EXCEPT !.unit = "store", !.rs1 = TRUE, !.rs2 = TRUE]

Renaming == Permutations(Tags)

(* Chains of dependent instructions, both bypasses, and a producer that    *)
(* raises an exception.                                                    *)
WakeupOps == {Imm, Alu, Load, Branch, Jump, Csr}

(* What the two queues and the pipes may block each other with.            *)
ProgressOps == {LoadX0, Store, Csr}
==============================================================================
