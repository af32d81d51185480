----------------------------- MODULE SlotCircuit -----------------------------
(***************************************************************************)
(* The circuit breaker of one agent slot (maju-acp, src/lib.rs,            *)
(* SlotCircuit).  crash_times is kept as the number of crashes that may    *)
(* still be inside CIRCUIT_BREAKER_WINDOW: how many of them a crash finds  *)
(* too old is a choice.  open_until is "closed" (None), "open" (in the     *)
(* future) or "cooled" (passed).                                           *)
(***************************************************************************)
EXTENDS Naturals

CONSTANT CIRCUIT_BREAKER_THRESHOLD

ASSUME CircuitAssumption == CIRCUIT_BREAKER_THRESHOLD \in Nat \ {0}

Circuit == [crashes : 0..CIRCUIT_BREAKER_THRESHOLD,
            open_until : {"closed", "open", "cooled"}]

Closed == [crashes |-> 0, open_until |-> "closed"]

\* A probe must prove itself: one more crash opens the circuit again.
HalfOpen == [crashes |-> CIRCUIT_BREAKER_THRESHOLD - 1, open_until |-> "closed"]

\* The outcomes of record_crash: whether to respawn, and the new circuit.
record_crash(c) ==
  CASE c.open_until = "cooled" -> {[respawn |-> TRUE, circuit |-> HalfOpen]}
    [] c.open_until = "open"   -> {[respawn |-> FALSE, circuit |-> c]}
    [] c.open_until = "closed" ->
         {LET trips == kept + 1 >= CIRCUIT_BREAKER_THRESHOLD IN
          [respawn |-> ~trips,
           circuit |-> [crashes |-> kept + 1,
                        open_until |-> IF trips THEN "open" ELSE "closed"]]
            : kept \in {n \in 0..c.crashes : n < CIRCUIT_BREAKER_THRESHOLD}}

mark_spawn_failed(c) == [c EXCEPT !.open_until = "open"]

\* Whether maintenance may refill an empty slot, and what that does.
can_refill(c) == c.open_until # "open"
refilled(c) == IF c.open_until = "cooled" THEN HalfOpen ELSE c

Cooled(c) == [c EXCEPT !.open_until = "cooled"]
=============================================================================
