--------------------------- MODULE ProviderCircuit ---------------------------
(***************************************************************************)
(* messaging_cp/adapters/_circuit.py: the circuit breaker a router keeps   *)
(* for each of its providers.  A circuit is a record                       *)
(*   state     closed, open or half_open                                   *)
(*   failures  failures recorded since the last success; counting stops at *)
(*             Threshold, the only value the code compares it with         *)
(*   age       ticks since _opened_at while it is open, up to ResetAfter,  *)
(*             the only age the code compares it with; 0 otherwise         *)
(***************************************************************************)
EXTENDS Integers

CONSTANTS Threshold,   \* failure_threshold
          ResetAfter   \* reset_after_seconds, in ticks of the model's clock

ASSUME CircuitAssumption == Threshold \in Nat \ {0} /\ ResetAfter \in Nat

Circuit == [state    : {"closed", "open", "half_open"},
            failures : 0..Threshold,
            age      : 0..ResetAfter]

NewCircuit == [state |-> "closed", failures |-> 0, age |-> 0]

(* is_open() as a predicate, and what calling it leaves behind: an open    *)
(* circuit that is due becomes half_open.                                  *)
Due(cb) == cb.age >= ResetAfter

(* Mutant of IsOpen: reset_after_seconds is not looked at.                 *)
IsOpenForGood(cb) == cb.state = "open"

IsOpen(cb) == cb.state = "open" /\ ~Due(cb)

(* Mutant of Asked: the state is misspelt.                                 *)
AskedMisspelt(cb) == IF cb.state = "open" /\ Due(cb)
                     THEN [cb EXCEPT !.state = "half-open", !.age = 0]
                     ELSE cb

Asked(cb) == IF cb.state = "open" /\ Due(cb)
             THEN [cb EXCEPT !.state = "half_open", !.age = 0]
             ELSE cb

(* Mutant of Succeeded: the failures of the past are not forgotten.        *)
SucceededKeepsCount(cb) == [cb EXCEPT !.state = "closed", !.age = 0]

(* record_success().                                                       *)
Succeeded(cb) == NewCircuit

(* record_failure(), in whatever state it finds the circuit.               *)
Failed(cb) ==
    LET n == IF cb.failures < Threshold THEN cb.failures + 1 ELSE Threshold
    IN IF n >= Threshold
       THEN [state |-> "open", failures |-> n, age |-> 0]
       ELSE [cb EXCEPT !.failures = n]

Older(cb) == IF cb.state = "open" /\ ~Due(cb)
             THEN [cb EXCEPT !.age = @ + 1]
             ELSE cb
=============================================================================
