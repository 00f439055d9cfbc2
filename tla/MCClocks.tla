-------------------------------- MODULE MCClocks --------------------------------
(* An injected clock that is ahead of the system's. *)
EXTENDS Clocks, TLC

MCOffset == [c \in {"time.Now", "injected"} |-> IF c = "injected" THEN 10 ELSE 0]
MCSymmetry == Permutations(Goroutines)
===============================================================================
