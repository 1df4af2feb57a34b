----------------------------- MODULE AgentInvoke -----------------------------
(***************************************************************************)
(* beacon/agents/agent_invoke_router.py: POST /agent/v1/invoke, by which   *)
(* one service runs a capability of another.  A server is one process; its *)
(* idempotency cache is a dict in its memory.                              *)
(*                                                                         *)
(* The endpoint awaits the validation of the token.  After that it awaits  *)
(* only the handler, and the handlers of handlers.py never suspend, so all *)
(* from the budget check to the store is one step.                         *)
(***************************************************************************)
EXTENDS Integers, Sequences

CONSTANTS Servers,
          Calls,      \* invoke() calls the model makes, once each
          Keys,       \* X-Rewire-Idempotency-Keys
          KeyOf,      \* the key of each call; a caller may give one of its
                      \* own again
          Capacity,   \* _IDEMPOTENCY_MAX
          MaxRetries  \* max_retries of the client

Attempts == 0..MaxRetries

(* An attempt nobody has was not sent yet, or its server has died.         *)
Fates == {"nowhere", "ok", "error", "refused"}

ASSUME InvokeAssumption == /\ KeyOf \in [Calls -> Keys]
                           /\ Capacity \in Nat \ {0}
                           /\ MaxRetries \in Nat
                           /\ Servers \cap Fates = {}

VARIABLES remembered,  \* _INMEM_IDEMPOTENCY of each server: its keys, oldest first
          post,        \* each attempt of a call: the server that has it, or
                       \* what became of it
          stored,      \* history: the keys each server has stored since its start
          ran          \* history: the keys whose handler has returned

invokeVars == <<remembered, post, stored, ran>>

InvokeInit ==
    /\ remembered = [s \in Servers |-> <<>>]
    /\ post = [ca \in Calls \X Attempts |-> "nowhere"]
    /\ stored = [s \in Servers |-> <<>>]
    /\ ran = {}

Reply(c, a, fate) == post' = [post EXCEPT ![<<c, a>>] = fate]

Knows(s, key) == \E i \in 1..Len(remembered[s]) : remembered[s][i] = key

(* At its limit the cache forgets its oldest key.                          *)
Evicted(keys) == IF Len(keys) >= Capacity THEN Tail(keys) ELSE keys

(* Mutant of Kept: it stores first and evicts then.                        *)
KeptThenEvicted(keys, key) == Evicted(Append(keys, key))

(* _idempotency_store.  The key was not found a moment ago, so it is new.  *)
Kept(keys, key) == Append(Evicted(keys), key)

(* An HTTPException: 401, 403, 404 or 400.                                 *)
Refuse(s, c, a) ==
    /\ post[<<c, a>>] = s
    /\ Reply(c, a, "refused")
    /\ UNCHANGED <<remembered, stored, ran>>

(* BUDGET_EXCEEDED, a reply with status 200, before the cache is asked.    *)
(* Like Refuse it is decided anew for every attempt: servers of different  *)
(* versions have different registries.                                     *)
OverBudget(s, c, a) ==
    /\ post[<<c, a>>] = s
    /\ Reply(c, a, "error")
    /\ UNCHANGED <<remembered, stored, ran>>

Replay(s, c, a) ==
    /\ post[<<c, a>>] = s
    /\ Knows(s, KeyOf[c])
    /\ Reply(c, a, "ok")
    /\ UNCHANGED <<remembered, stored, ran>>

(* The handler returns its result, which is kept.  Those of handlers.py    *)
(* set no error.                                                           *)
Run(s, c, a) ==
    /\ post[<<c, a>>] = s
    /\ ~Knows(s, KeyOf[c])
    /\ remembered' = [remembered EXCEPT ![s] = Kept(@, KeyOf[c])]
    /\ stored' = [stored EXCEPT ![s] = Append(@, KeyOf[c])]
    /\ ran' = ran \cup {KeyOf[c]}
    /\ Reply(c, a, "ok")

(* Mutant of HandlerRaises: the failure is kept like a result.             *)
HandlerRaisesKept(s, c, a) ==
    /\ post[<<c, a>>] = s
    /\ ~Knows(s, KeyOf[c])
    /\ remembered' = [remembered EXCEPT ![s] = Kept(@, KeyOf[c])]
    /\ stored' = [stored EXCEPT ![s] = Append(@, KeyOf[c])]
    /\ Reply(c, a, "error")
    /\ UNCHANGED ran

(* HANDLER_EXCEPTION, with status 200: nothing is kept.                    *)
HandlerRaises(s, c, a) ==
    /\ post[<<c, a>>] = s
    /\ ~Knows(s, KeyOf[c])
    /\ Reply(c, a, "error")
    /\ UNCHANGED <<remembered, stored, ran>>

(* The process is restarted: the cache is empty, and the requests it was   *)
(* validating are gone.                                                    *)
Restart(s) ==
    /\ remembered' = [remembered EXCEPT ![s] = <<>>]
    /\ stored' = [stored EXCEPT ![s] = <<>>]
    /\ post' = [ca \in Calls \X Attempts |->
                   IF post[ca] = s THEN "nowhere" ELSE post[ca]]
    /\ UNCHANGED ran

AgentInvokeStep(s) ==
    \/ \E c \in Calls, a \in Attempts :
           \/ Refuse(s, c, a) \/ OverBudget(s, c, a) \/ Replay(s, c, a)
           \/ Run(s, c, a) \/ HandlerRaises(s, c, a)
    \/ Restart(s)
=============================================================================
