------------------------------ MODULE MCBackend ------------------------------
(* Instances of Backend: the instructions decode may offer.                *)
EXTENDS Backend, TLC

CONSTANTS p0, p1

MCPcs == {p0, p1}

Plain == [src |-> {}, dst |-> {}, speculative |-> FALSE, store |-> FALSE,
          serialize |-> FALSE, results |-> {"valid"}]

LoadVia(s, d) == [Plain EXCEPT !.src = {s}, !.dst = {d}, !.results = {"valid", "exception"}]
Branch        == [Plain EXCEPT !.speculative = TRUE]
Jump(d)       == [Branch EXCEPT !.dst = {d}]
Store         == [Plain EXCEPT !.store = TRUE, !.results = {"valid", "exception"}]
Csr(d)        == [Plain EXCEPT !.dst = {d}, !.serialize = TRUE, !.results = {"valid", "exception"}]
System        == [Plain EXCEPT !.results = {"fence", "replay"}]

Targets == Permutations(MCPcs)

(* Registers that are allocated, flushed, rolled back and retired.         *)
RegisterInstrs == {LoadVia(1, 1), Jump(1)}

(* Everything that makes the back end wait or start over.                  *)
ProgressInstrs == {Branch, System, Store, Csr(0)}
==============================================================================
