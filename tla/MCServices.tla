----------------------------- MODULE MCServices -----------------------------
(* Small instances of Services for TLC: who runs beside whom. *)
EXTENDS Services

CONSTANTS a, b, c

Cast(x, y, z) == [p \in {a, b, c} |-> IF p = a THEN x ELSE IF p = b THEN y ELSE z]

Pairs == {Cast("config", "setup", "start"),
          Cast("start", "start", "stop"), Cast("config", "start", "start"),
          Cast("setup", "update", "start")}

=============================================================================
