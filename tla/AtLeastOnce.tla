----------------------------- MODULE AtLeastOnce ----------------------------
(***************************************************************************)
(* What asynchronous sending promises a tenant: a message that was         *)
(* accepted is held until it has been settled, that is, until a provider   *)
(* accepted it or the platform gave it up.  A settled message may come     *)
(* back (at-least-once delivery), an unsettled one may not go away.        *)
(***************************************************************************)
CONSTANT Msgs

VARIABLES accepted,  \* messages handed to the platform
          held,      \* messages some queue still holds
          settled    \* messages sent or given up at least once

vars == <<accepted, held, settled>>

Init ==
    /\ accepted = {}
    /\ held = {}
    /\ settled = {}

Accept(m) ==
    /\ m \notin accepted
    /\ accepted' = accepted \cup {m}
    /\ held' = held \cup {m}
    /\ UNCHANGED settled

(* A process that has read the message may settle it after the message     *)
(* left the queues by the hand of another.                                 *)
Settle(m) ==
    /\ m \in accepted \ settled
    /\ settled' = settled \cup {m}
    /\ UNCHANGED <<accepted, held>>

Release(m) ==
    /\ m \in held \cap settled
    /\ held' = held \ {m}
    /\ UNCHANGED <<accepted, settled>>

(* Giving a message up settles and releases it at once.                    *)
GiveUp(m) ==
    /\ m \in held
    /\ settled' = settled \cup {m}
    /\ held' = held \ {m}
    /\ UNCHANGED accepted

(* A process that was slower than its lease puts a copy back.              *)
Reopen(m) ==
    /\ m \in settled \ held
    /\ held' = held \cup {m}
    /\ UNCHANGED <<accepted, settled>>

Next == \E m \in Msgs :
            Accept(m) \/ Settle(m) \/ Release(m) \/ GiveUp(m) \/ Reopen(m)

Spec == Init /\ [][Next]_vars
=============================================================================
