---------------------------- MODULE CanonicalSend ----------------------------
(***************************************************************************)
(* The synchronous send of messaging_cp/api/v1/{emails,sms,push}.py behind *)
(* beacon/middleware/idempotency.py, as create_app() stacks them: the      *)
(* requests under way at the same time share the tables and Redis, and     *)
(* each await is a point where another request, another process or a fault *)
(* gets in between.  The provider router is external here: see             *)
(* ProviderRouters for what it does.  A client that retries makes a new    *)
(* request with the same content.                                          *)
(***************************************************************************)
EXTENDS SendGuards

CONSTANTS Requests,  \* the HTTP requests the model serves, once each
          Asks,      \* what they may ask
          Faults     \* what may go wrong, of FaultKinds

FaultKinds == {"redis", "db", "provider", "crash", "expiry"}

ASSUME SendAssumption ==
    /\ IsFiniteSet(Requests)
    /\ Asks \subseteq {a \in Request : a.to # <<>>}
    /\ Faults \subseteq FaultKinds

VARIABLES handler,  \* what each request is at; see Handler
          replies,  \* Redis: the reply the middleware kept for each request
          mail,     \* the messages router calls got a provider to take,
                    \* oldest first
          day       \* today

vars == <<guardVars, handler, replies, mail, day>>

Statuses == {202, 409, 410, 429, 500, 502}

Reply == [status : Statuses, id : Nat]

Ongoing == {"lookup", "guard", "check", "consume", "route", "emit", "store",
            "remember"}

(* at        the await the request is in; answered or lost in the end      *)
(* guarded   the middleware will keep the reply                            *)
(* checked   recipients looked up so far                                   *)
(* barred    recipients that have been suppressed ever since it arrived    *)
(* unseen    those whose lookup failed                                     *)
(* paid      its quota was taken                                           *)
Handler == [at : Ongoing \cup {"idle", "answered", "lost"},
            ask : Asks \cup {Nothing}, key : Keys \cup {Nothing},
            guarded : BOOLEAN, checked : Nat, barred : SUBSET Addresses,
            unseen : SUBSET Addresses, paid : BOOLEAN, answer : Reply]

NoReply == [status |-> 500, id |-> 0]

NewHandler == [at |-> "idle", ask |-> Nothing, key |-> Nothing,
               guarded |-> FALSE, checked |-> 0, barred |-> {}, unseen |-> {},
               paid |-> FALSE, answer |-> NoReply]

Message == [ask : Asks, key : Keys, answered : BOOLEAN]

Init ==
    /\ GuardInit
    /\ handler = [r \in Requests |-> NewHandler]
    /\ replies = [a \in Asks |-> Nothing]
    /\ mail = <<>>
    /\ day \in Days

Recipients(ask) == {ask.to[i] : i \in 1..Len(ask.to)}

Become(r, h) == handler' = [handler EXCEPT ![r] = h]

(* The handler ends with a reply, which the middleware keeps below 500.    *)
End(r, h, status, id) ==
    Become(r, [h EXCEPT !.at = IF h.guarded /\ status < 500
                               THEN "remember" ELSE "answered",
                        !.answer = [status |-> status, id |-> id]])

(* An exception leaves the handler: 500, and the middleware keeps nothing. *)
Raise(r, h) == End(r, h, 500, 0)

(* The handler is entered: it works out its key before the first await.    *)
Enter(r, h, guarded) ==
    Become(r, [h EXCEPT !.at = "guard", !.guarded = guarded,
                        !.key = KeyOf(h.ask, day)])

Arrive(r, ask) ==
    LET h == [NewHandler EXCEPT
                 !.ask = ask,
                 !.barred = {a \in Recipients(ask) : Suppressed(ask, a)}]
    IN /\ handler[r].at = "idle"
       /\ IF ask.header = NoHeader
          THEN Enter(r, h, FALSE)
          ELSE Become(r, [h EXCEPT !.at = "lookup"])
       /\ UNCHANGED <<guardVars, replies, mail, day>>

(* The middleware looks the request up: tenant, path, header and body.     *)
Lookup(r) ==
    LET h == handler[r]
        cached == replies[h.ask]
    IN /\ h.at = "lookup"
       /\ \/ /\ cached # Nothing
             /\ Become(r, [h EXCEPT !.at = "answered", !.answer = cached])
          \/ cached = Nothing /\ Enter(r, h, TRUE)
          \/ "redis" \in Faults /\ (Enter(r, h, FALSE) \/ Raise(r, h))
       /\ UNCHANGED <<guardVars, replies, mail, day>>

(* Whether the kept response of one endpoint has the fields of another's:  *)
(* those of emails are part of the others.                                 *)
Fits(response, channel) == channel \in {response.channel, "email"}

Unseen(r) == [handler[r] EXCEPT !.at = "check"]

(* Mutant of Guard: the key is reserved with a placeholder at once.        *)
GuardReserves(r) ==
    LET h == handler[r]
    IN /\ h.at = "guard"
       /\ \/ kept[h.key] # Nothing /\ End(r, h, 202, kept[h.key].id)
             /\ UNCHANGED kept
          \/ /\ kept[h.key] = Nothing
             /\ Become(r, Unseen(r))
             /\ kept' = [kept EXCEPT ![h.key] =
                             [id |-> Len(mail) + 1, channel |-> h.ask.channel]]
       /\ UNCHANGED <<suppressed, quota, replies, mail, day>>

(* idempotency_guard, and the replay of what it finds.                     *)
Guard(r) ==
    LET h == handler[r]
        response == kept[h.key]
    IN /\ h.at = "guard"
       /\ \/ /\ response # Nothing
             /\ IF Fits(response, h.ask.channel)
                THEN End(r, h, 202, response.id)
                ELSE Raise(r, h)
          \/ response = Nothing /\ Become(r, Unseen(r))
          \/ "redis" \in Faults /\ (Become(r, Unseen(r)) \/ Raise(r, h))
       /\ UNCHANGED <<guardVars, replies, mail, day>>

(* Mutant of CheckedNow: the first recipient stands for all of them.       *)
CheckedNowFirstOnly(h) == [h EXCEPT !.checked = Len(h.ask.to), !.at = "consume"]

(* One more recipient has been looked up without being refused.            *)
CheckedNow(h) ==
    [h EXCEPT !.checked = @ + 1,
              !.at = IF h.checked + 1 = Len(h.ask.to) THEN "consume" ELSE "check"]

(* ensure_not_suppressed for the next recipient.  A failed lookup lets the *)
(* recipient pass.                                                         *)
CheckSuppression(r) ==
    LET h == handler[r]
        address == h.ask.to[h.checked + 1]
    IN /\ h.at = "check"
       /\ \/ Suppressed(h.ask, address) /\ End(r, h, 409, 0)
          \/ ~Suppressed(h.ask, address) /\ Become(r, CheckedNow(h))
          \/ /\ "db" \in Faults
             /\ Become(r, [CheckedNow(h) EXCEPT !.unseen = @ \cup {address}])
       /\ UNCHANGED <<guardVars, replies, mail, day>>

(* check_and_consume_quota.  An error, before or after the commit took     *)
(* effect, lets the send pass.                                             *)
ConsumeQuota(r) ==
    LET h == handler[r]
    IN /\ h.at = "consume"
       /\ \/ /\ HasQuota(h.ask)
             /\ Consume(h.ask)
             /\ Become(r, [h EXCEPT !.at = "route", !.paid = TRUE])
          \/ /\ ~HasQuota(h.ask)
             /\ End(r, h, 429, 0)
             /\ UNCHANGED quota
          \/ /\ "db" \in Faults
             /\ Become(r, [h EXCEPT !.at = "route"])
             /\ UNCHANGED quota
       /\ UNCHANGED <<suppressed, kept, replies, mail, day>>

Taken(h, answered) ==
    mail' = Append(mail, [ask |-> h.ask, key |-> h.key, answered |-> answered])

(* The router returned a result.                                           *)
Routed(r) ==
    LET h == handler[r]
    IN /\ h.at = "route"
       /\ Taken(h, TRUE)
       /\ Become(r, [h EXCEPT !.at = "emit", !.answer.id = Len(mail) + 1])
       /\ UNCHANGED <<guardVars, replies, day>>

(* It raised: no provider took the message or said so (502, for push also  *)
(* 503, which differ in nothing here), the exception is not one the        *)
(* handler knows (500), or web push is not there yet (410).                *)
NotRouted(r) ==
    LET h == handler[r]
    IN /\ h.at = "route"
       /\ \/ /\ "provider" \in Faults
             /\ \E status \in {500, 502} : End(r, h, status, 0)
             /\ mail' = mail \/ Taken(h, FALSE)
          \/ /\ h.ask.channel = "push"
             /\ End(r, h, 410, 0)
             /\ UNCHANGED mail
       /\ UNCHANGED <<guardVars, replies, day>>

(* Credits and Lago: two awaits that swallow every exception.              *)
Emit(r) ==
    /\ handler[r].at = "emit"
    /\ Become(r, [handler[r] EXCEPT !.at = "store"])
    /\ UNCHANGED <<guardVars, replies, mail, day>>

StoreAndEnd(r) ==
    LET h == handler[r]
    IN /\ h.at = "store"
       /\ \/ /\ Store(h.key, [id |-> h.answer.id, channel |-> h.ask.channel])
             /\ End(r, h, 202, h.answer.id)
          \/ /\ "redis" \in Faults
             /\ End(r, h, 202, h.answer.id) \/ Raise(r, h)
             /\ UNCHANGED kept
       /\ UNCHANGED <<suppressed, quota, replies, mail, day>>

(* The middleware keeps the reply and returns it.                          *)
Remember(r) ==
    LET h == handler[r]
    IN /\ h.at = "remember"
       /\ \/ /\ replies' = [replies EXCEPT ![h.ask] = h.answer]
             /\ Become(r, [h EXCEPT !.at = "answered"])
          \/ /\ "redis" \in Faults
             /\ Become(r, [h EXCEPT !.at = "answered", !.answer = NoReply])
             /\ UNCHANGED replies
       /\ UNCHANGED <<guardVars, mail, day>>

(* The process that serves the request dies.  What the provider made of a  *)
(* call under way is then as open as in NotRouted, and nobody is told.     *)
Crash(r) ==
    /\ "crash" \in Faults
    /\ handler[r].at \in Ongoing
    /\ Become(r, [handler[r] EXCEPT !.at = "lost"])
    /\ UNCHANGED <<guardVars, replies, mail, day>>

Serve(r) ==
    \/ Lookup(r) \/ Guard(r) \/ CheckSuppression(r) \/ ConsumeQuota(r)
    \/ Routed(r) \/ NotRouted(r) \/ Emit(r) \/ StoreAndEnd(r) \/ Remember(r)

ExpireKept ==
    /\ "expiry" \in Faults
    /\ Expire
    /\ UNCHANGED <<handler, replies, mail, day>>

ExpireReply ==
    /\ "expiry" \in Faults
    /\ \E ask \in Asks : /\ replies[ask] # Nothing
                         /\ replies' = [replies EXCEPT ![ask] = Nothing]
    /\ UNCHANGED <<guardVars, handler, mail, day>>

(* Somebody opts out, or an entry ends, while requests are under way.      *)
OptOut(tenant, address) ==
    /\ <<tenant, address>> \in Contacts \ suppressed
    /\ suppressed' = suppressed \cup {<<tenant, address>>}
    /\ UNCHANGED <<quota, kept, handler, replies, mail, day>>

Lapse(tenant, address) ==
    /\ <<tenant, address>> \in suppressed
    /\ suppressed' = suppressed \ {<<tenant, address>>}
    /\ handler' = [r \in Requests |->
                      IF handler[r].at # "idle" /\ handler[r].ask.tenant = tenant
                      THEN [handler[r] EXCEPT !.barred = @ \ {address}]
                      ELSE handler[r]]
    /\ UNCHANGED <<quota, kept, replies, mail, day>>

Midnight ==
    /\ day + 1 \in Days
    /\ day' = day + 1
    /\ UNCHANGED <<guardVars, handler, replies, mail>>

Next ==
    \/ \E r \in Requests : Serve(r) \/ Crash(r) \/ \E ask \in Asks : Arrive(r, ask)
    \/ \E tenant \in Tenants, address \in Addresses :
           OptOut(tenant, address) \/ Lapse(tenant, address)
    \/ ExpireKept \/ ExpireReply \/ Midnight

Spec == Init /\ [][Next]_vars
-----------------------------------------------------------------------------

TypeOK ==
    /\ suppressed \subseteq Contacts
    /\ quota \in [Organisations \X Channels -> 0..MonthlyQuota]
    /\ kept \in [Keys -> Response \cup {Nothing}]
    /\ handler \in [Requests -> Handler]
    /\ replies \in [Asks -> Reply \cup {Nothing}]
    /\ mail \in Seq(Message)
    /\ day \in Days

Payers(tenant, channel) ==
    {r \in Requests : handler[r].paid /\ handler[r].ask.tenant = tenant
                                      /\ handler[r].ask.channel = channel}

(* Every unit that left a quota was taken for exactly one request, however *)
(* the requests overlap, fail or die, so that concurrent sends cannot      *)
(* spend more than there is (send_guards.py:96-98).                        *)
QuotaConserved ==
    \A tc \in Organisations \X Channels :
        quota[tc] + Cardinality(Payers(tc[1], tc[2])) = MonthlyQuota

(* A recipient who opted out before the request came and stays opted out   *)
(* gets past the guards only through a lookup that failed, whichever place *)
(* it has among the recipients of the request.                             *)
OptOutRespected ==
    \A r \in Requests :
        handler[r].at \in {"consume", "route", "emit", "store"} =>
            handler[r].barred \subseteq handler[r].unseen

Sent(id, key) ==
    /\ id \in 1..Len(mail)
    /\ mail[id].answered
    /\ mail[id].key = key

(* Nobody is told of a message that does not exist: whatever is kept for a *)
(* replay, and every 202, first-hand or replayed, names a message that a   *)
(* provider took, and one sent under the key of the request.               *)
ReplayIsReal ==
    /\ \A k \in Keys : kept[k] # Nothing => Sent(kept[k].id, k)
    /\ \A a \in Asks : replies[a] # Nothing /\ replies[a].status = 202 =>
           \E d \in Days : Sent(replies[a].id, KeyOf(a, d))
    /\ \A r \in Requests :
           handler[r].at \in {"remember", "answered"}
           /\ handler[r].answer.status = 202 =>
               \E d \in Days : Sent(handler[r].answer.id, KeyOf(handler[r].ask, d))

(* Replays agree with one another: what is kept under a key stays the same *)
(* for as long as it is kept, though overlapping sends finish in any order *)
(* and each comes to store a response of its own.                          *)
ReplaysAgree ==
    [][\A k \in Keys : kept[k] # Nothing => kept'[k] \in {kept[k], Nothing}]_vars

(* send_guards.py:15: "a retried send returns the cached response instead  *)
(* of double-sending".                                                     *)
OneMessagePerKey ==
    \A i, j \in 1..Len(mail) : mail[i].key = mail[j].key => i = j

(* emails.py:86: the default key "dedups identical sends": a reply without *)
(* an Idempotency-Key is about a message of the same content.              *)
ReplayOfTheSameSend ==
    \A r \in Requests :
        handler[r].at = "answered" /\ handler[r].answer.status = 202
        /\ handler[r].ask.header = NoHeader =>
            mail[handler[r].answer.id].ask = handler[r].ask
=============================================================================
