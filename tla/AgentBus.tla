------------------------------- MODULE AgentBus -------------------------------
(***************************************************************************)
(* beacon/agents/agent_bus_client.py, AgentBusClient.invoke(), calling the *)
(* endpoint of AgentInvoke.  The reply to an attempt can be lost, a        *)
(* gateway in between can answer in the server's place, and an attempt the *)
(* client has given up on may still reach the handler.  The headers other  *)
(* than the idempotency key are left out: nothing here depends on them.    *)
(***************************************************************************)
EXTENDS AgentInvoke

CONSTANTS Anchored,   \* keys of the calls whose result has an audit_chain_hash
          NoRef

ASSUME BusAssumption == Anchored \subseteq Keys /\ NoRef \notin Keys

VARIABLES at,       \* what each call is at
          attempt,  \* attempt of the loop
          last,     \* last_exc: a refusal or another failure, or "none"
          chain     \* last_audit_chain_ref: the key whose result it hashes

clientVars == <<at, attempt, last, chain>>
vars == <<invokeVars, clientVars>>

Endings == {"returned", "raised", "escaped"}

Causes == {"refused", "failed"}

Init ==
    /\ InvokeInit
    /\ at = [c \in Calls |-> "idle"]
    /\ attempt = [c \in Calls |-> 0]
    /\ last = [c \in Calls |-> "none"]
    /\ chain = NoRef

Goto(c, step) == at' = [at EXCEPT ![c] = step]

Current(c) == <<c, attempt[c]>>

(* client.post(), of the first attempt or of one after a delay.            *)
Post(c, s) ==
    /\ at[c] \in {"idle", "sleeping"}
    /\ Goto(c, "waiting")
    /\ post' = [post EXCEPT ![Current(c)] = s]
    /\ UNCHANGED <<remembered, stored, ran, attempt, last, chain>>

(* A reply with status 200 is returned whatever it says; one with a hash   *)
(* becomes the reference of the calls to come.                             *)
Return(c) ==
    /\ at[c] = "waiting"
    /\ post[Current(c)] \in {"ok", "error"}
    /\ Goto(c, "returned")
    /\ chain' = IF post[Current(c)] = "ok" /\ KeyOf[c] \in Anchored
                THEN KeyOf[c] ELSE chain
    /\ UNCHANGED <<invokeVars, attempt, last>>

(* Mutant of HasRetries: one retry too many.                               *)
HasOneMore(c) == attempt[c] <= MaxRetries

HasRetries(c) == attempt[c] < MaxRetries

(* Mutant of NextAttempt: "attempt += 1" is missing.                       *)
SameAttempt(c) == Goto(c, "sleeping") /\ UNCHANGED attempt

NextAttempt(c) ==
    /\ Goto(c, "sleeping")
    /\ attempt' = [attempt EXCEPT ![c] = @ + 1]

(* The except branch: back to the loop, or out of it and raise.            *)
Except(c, cause) ==
    /\ last' = [last EXCEPT ![c] = cause]
    /\ \/ HasRetries(c) /\ NextAttempt(c)
       \/ ~HasRetries(c) /\ Goto(c, "raised") /\ UNCHANGED attempt

(* 401, or any other status that is not 2xx, 429 or 5xx: what the code     *)
(* raises is caught by its own except.                                     *)
Refused(c) ==
    /\ at[c] = "waiting"
    /\ post[Current(c)] = "refused"
    /\ Except(c, "refused")
    /\ UNCHANGED <<invokeVars, chain>>

(* A timeout or a broken connection, before or after the server answered.  *)
Lost(c) ==
    /\ at[c] = "waiting"
    /\ Except(c, "failed")
    /\ UNCHANGED <<invokeVars, chain>>

(* Mutant of Unavailable: the status is retried without looking at attempt *)
(* and the loop's own condition ends it.                                   *)
UnavailableAlways(c) ==
    /\ at[c] = "waiting"
    /\ \/ HasRetries(c) /\ NextAttempt(c)
       \/ ~HasRetries(c) /\ Goto(c, "raised") /\ UNCHANGED attempt
    /\ UNCHANGED <<invokeVars, last, chain>>

(* 429 or 5xx, from a gateway or the server: "continue" while there are    *)
(* retries, else a status like any other.                                  *)
Unavailable(c) ==
    /\ at[c] = "waiting"
    /\ \/ HasRetries(c) /\ NextAttempt(c) /\ UNCHANGED last
       \/ ~HasRetries(c) /\ Except(c, "failed")
    /\ UNCHANGED <<invokeVars, chain>>

(* A body that is not JSON, or a Retry-After that is no number: an         *)
(* exception the loop does not catch.                                      *)
Garbled(c) ==
    /\ at[c] = "waiting"
    /\ Goto(c, "escaped")
    /\ UNCHANGED <<invokeVars, attempt, last, chain>>

Outcome(c) == Return(c) \/ Refused(c) \/ Lost(c) \/ Unavailable(c) \/ Garbled(c)

Next ==
    \/ \E c \in Calls : Outcome(c) \/ \E s \in Servers : Post(c, s)
    \/ \E s \in Servers : AgentInvokeStep(s) /\ UNCHANGED clientVars

Spec == Init /\ [][Next]_vars

(* The HTTP client's timeout ends every wait, and asyncio.sleep returns.   *)
Fairness ==
    \A c \in Calls : /\ WF_vars(Outcome(c))
                     /\ WF_vars(at[c] = "sleeping" /\ \E s \in Servers : Post(c, s))

FairSpec == Spec /\ Fairness
-----------------------------------------------------------------------------

TypeOK ==
    /\ remembered \in [Servers -> Seq(Keys)]
    /\ post \in [Calls \X Attempts -> Servers \cup Fates]
    /\ stored \in [Servers -> Seq(Keys)]
    /\ ran \in SUBSET Keys
    /\ at \in [Calls -> {"idle", "waiting", "sleeping"} \cup Endings]
    /\ attempt \in [Calls -> Attempts]
    /\ last \in [Calls -> Causes \cup {"none"}]
    /\ chain \in Keys \cup {NoRef}

(* A key does not run again while it is remembered.  Whatever attempts of  *)
(* overlapping calls arrive late, twice or out of order, between two runs  *)
(* of one key in a server's lifetime lie at least Capacity runs of others. *)
OnceWhileRemembered ==
    \A s \in Servers : \A i, j \in 1..Len(stored[s]) :
        i < j /\ stored[s][i] = stored[s][j] => j - i > Capacity

(* No success is made up: an answer "ok", first-hand or replayed, and the  *)
(* audit reference the client carries on are of a key whose handler ran.   *)
AnswersAreReal ==
    /\ \A c \in Calls, a \in Attempts : post[<<c, a>>] = "ok" => KeyOf[c] \in ran
    /\ chain # NoRef => chain \in ran

(* A call that fails says why: the loop never runs out without a cause,    *)
(* which is the RuntimeError("agent_bus_exhausted") at its end.            *)
RaisesTheCause == \A c \in Calls : at[c] = "raised" => last[c] # "none"

(* Whatever the network and the servers do, every call ends.               *)
EveryCallEnds ==
    \A c \in Calls : at[c] = "waiting" ~> at[c] \in Endings

(* agent_bus_client.py:13-14: "no retry on 4xx except 429".  A call that   *)
(* has been refused is over.                                               *)
RefusalIsFinal == \A c \in Calls : last[c] = "refused" => at[c] \in Endings
=============================================================================
