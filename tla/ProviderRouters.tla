--------------------------- MODULE ProviderRouters ---------------------------
(***************************************************************************)
(* The routers of messaging_cp/adapters: email/router.py tries Postal and  *)
(* then Resend, sms/router.py has Zenvia alone, push/router.py has APNs    *)
(* for iOS and FCM for Android.  A route is the sequence of providers a    *)
(* router tries, each behind a circuit of its own.                         *)
(*                                                                         *)
(* The API keeps one router per process, so the requests it serves at the  *)
(* same time share the circuits.  They run on one event loop: a call only  *)
(* gives way to another where it awaits a provider, and everything between *)
(* two awaits is one step here.                                            *)
(***************************************************************************)
EXTENDS ProviderCircuit, ProviderAdapters, Sequences, FiniteSets

CONSTANTS Calls,      \* send() calls under way at the same time
          Routes      \* the routes the routers have

ASSUME RouterAssumption == Routes \subseteq Seq(Providers) \ {<<>>}

VARIABLES circuit,   \* the circuit of each provider
          call       \* what each call is at:
                     \*   at     idle, waiting for a provider, or how it ended
                     \*   route  the route it takes, leg its place on it
                     \*   taken  providers that took the message
                     \*   lost   those whose answer did not get through

vars == <<circuit, call>>

(* routed: send() returned a result, and a provider has the message.       *)
(* skipped: it returned one although none has, for push.  refused: it      *)
(* raised the router's own error.  raised: an exception of the client came *)
(* through.                                                                *)
Ends == {"routed", "skipped", "refused", "raised"}

(* Providers behind an "except Exception".  The push router only catches   *)
(* the adapter's subclass of the client's error, which nothing raises.     *)
CatchAll == {"postal", "resend", "zenvia"}

IdleCall == [at |-> "idle", route |-> <<>>, leg |-> 0, taken |-> 0, lost |-> 0]

Init ==
    /\ circuit = [p \in Providers |-> NewCircuit]
    /\ call = [c \in Calls |-> IdleCall]

ProviderOf(c) == call[c].route[call[c].leg]

InFlight(p) == {c \in Calls : call[c].at = "waiting" /\ ProviderOf(c) = p}

(* send() from one leg of its route on: the first provider whose circuit   *)
(* is not open is called, and without one the router raises.               *)
Advance(c, cl, cbs) ==
    \/ /\ \A i \in cl.leg + 1 .. Len(cl.route) : IsOpen(cbs[cl.route[i]])
       /\ call' = [call EXCEPT ![c] = [cl EXCEPT !.at = "refused"]]
       /\ circuit' = cbs
    \/ \E i \in cl.leg + 1 .. Len(cl.route) :
           /\ \A j \in cl.leg + 1 .. i - 1 : IsOpen(cbs[cl.route[j]])
           /\ ~IsOpen(cbs[cl.route[i]])
           /\ call' = [call EXCEPT ![c] = [cl EXCEPT !.at = "waiting", !.leg = i]]
           /\ circuit' = [cbs EXCEPT ![cl.route[i]] = Asked(@)]

Send(c, route) ==
    /\ call[c].at # "waiting"
    /\ Advance(c, [IdleCall EXCEPT !.route = route], circuit)

(* The provider replies to call c, and the status of what its adapter      *)
(* makes of that decides how send() goes on.                               *)
Hears(c, reply) == call[c].at = "waiting" /\ reply \in RepliesOf(ProviderOf(c))

Status(c, reply) == StatusOf(ProviderOf(c), reply)

(* Mutant of Answered: success does not end the call.                      *)
AnsweredAndGoesOn(c, reply) ==
    /\ Hears(c, reply)
    /\ Status(c, reply) # "raised"
    /\ Advance(c, [call[c] EXCEPT !.taken = @ + reply.took],
               [circuit EXCEPT ![ProviderOf(c)] = Succeeded(@)])

(* The adapter returned a result, whatever its status.                     *)
Answered(c, reply) ==
    /\ Hears(c, reply)
    /\ Status(c, reply) # "raised"
    /\ call' = [call EXCEPT ![c].at = IF Status(c, reply) \in Delivering
                                      THEN "routed" ELSE "skipped",
                            ![c].taken = @ + reply.took]
    /\ circuit' = [circuit EXCEPT ![ProviderOf(c)] = Succeeded(@)]

(* It raised an exception that the router catches.  The provider may still *)
(* have taken the message.                                                 *)
Errs(c, reply) ==
    /\ Hears(c, reply)
    /\ Status(c, reply) = "raised"
    /\ ProviderOf(c) \in CatchAll
    /\ Advance(c,
               [call[c] EXCEPT !.taken = @ + reply.took,
                               !.lost = @ + reply.took],
               [circuit EXCEPT ![ProviderOf(c)] = Failed(@)])

(* It raised one the push router does not catch: the exception leaves      *)
(* send() and the circuit hears nothing of it.                             *)
Escapes(c, reply) ==
    /\ Hears(c, reply)
    /\ Status(c, reply) = "raised"
    /\ ProviderOf(c) \notin CatchAll
    /\ call' = [call EXCEPT ![c].at = "raised", ![c].taken = @ + reply.took,
                            ![c].lost = @ + reply.took]
    /\ UNCHANGED circuit

Ended(c) ==
    \E reply \in UNION {RepliesOf(p) : p \in Providers} :
        Answered(c, reply) \/ Errs(c, reply) \/ Escapes(c, reply)

Tick ==
    /\ circuit' = [p \in Providers |-> Older(circuit[p])]
    /\ UNCHANGED call

Next ==
    \/ \E c \in Calls, route \in Routes : Send(c, route)
    \/ \E c \in Calls : Ended(c)
    \/ Tick

Spec == Init /\ [][Next]_vars

(* Time passes, the HTTP client's timeout ends every call to a provider,   *)
(* and requests keep coming for every route.                               *)
Fairness ==
    /\ WF_vars(Tick)
    /\ \A c \in Calls : WF_vars(Ended(c))
    /\ \A route \in Routes : SF_vars(\E c \in Calls : Send(c, route))

FairSpec == Spec /\ Fairness
-----------------------------------------------------------------------------

CallType == [at : {"idle", "waiting"} \cup Ends, route : Routes \cup {<<>>},
             leg : Nat, taken : Nat, lost : Nat]

TypeOK ==
    /\ circuit \in [Providers -> Circuit]
    /\ call \in [Calls -> CallType]
    /\ \A c \in Calls : call[c].at = "waiting" =>
           call[c].leg \in 1..Len(call[c].route)

(* The counter and the state of a circuit agree, whatever outcomes of      *)
(* overlapping calls were recorded on it and in which order: it is closed  *)
(* exactly while it has recorded fewer than Threshold failures in a row.   *)
(* So no failure can be the one too many without opening it, and a probe   *)
(* of a half-open circuit that fails opens it again at once.               *)
ClosedIffBelowThreshold ==
    \A p \in Providers :
        circuit[p].state = "closed" <=> circuit[p].failures < Threshold

(* The fallback never doubles a message by itself: a call hands it to a    *)
(* second provider only if the answer of the first one was lost, and a     *)
(* result with the status of a success stands for exactly one message that *)
(* a provider has and said so.  (SenderWorker!MayEnd relies on this.)      *)
OneTakerUnlessLost ==
    \A c \in Calls :
        call[c].taken = call[c].lost + (IF call[c].at = "routed" THEN 1 ELSE 0)

(* A provider is not given up for ever: as long as requests come, the open *)
(* circuit of a route's first provider is left again, and that of a        *)
(* fallback too while the providers before it stay down, although late     *)
(* failures of older calls restart the timer.                              *)
Reprobed ==
    \A route \in Routes : \A i \in 1..Len(route) :
        [](\A j \in 1..i-1 : circuit[route[j]].state # "closed") =>
            (circuit[route[i]].state = "open" ~> circuit[route[i]].state # "open")

(* _circuit.py:9 says that a half-open circuit tries one request.  While   *)
(* it stays half open nobody else is sent to the provider.                 *)
HalfOpenTriesOne ==
    [][\A p \in Providers :
           circuit[p].state = "half_open" /\ circuit'[p].state = "half_open" =>
               InFlight(p)' \subseteq InFlight(p)]_vars
=============================================================================
