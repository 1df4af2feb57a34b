------------------------- MODULE CanonicalSendProofs -------------------------
(***************************************************************************)
(* Theorems about CanonicalSend, for any requests, tenants, recipients and *)
(* faults.                                                                 *)
(***************************************************************************)
EXTENDS CanonicalSend, FiniteSetTheorems, TLAPS

(* What holds of a handler h, given the suppressions S and the messages M. *)

SentIn(M, id, key) == id \in 1..Len(M) /\ M[id].answered /\ M[id].key = key

SentFor(M, id, ask) == \E d \in Days : SentIn(M, id, KeyOf(ask, d))

(* Its key is that of its request, on the day it was worked out.           *)
HasItsKey(h) ==
    h.at \in {"guard", "check", "consume", "route", "emit", "store"} =>
        \E d \in Days : h.key = KeyOf(h.ask, d)

Unpaid(h) ==
    h.at \in {"idle", "lookup", "guard", "check", "consume"} => ~h.paid

(* The recipients it has looked up so far.                                 *)
Counts(h) ==
    /\ h.at \in {"lookup", "guard"} => h.checked = 0
    /\ h.at = "check" => h.checked < Len(h.ask.to)

(* Until it is past the lookups, who is barred is suppressed and among its *)
(* recipients; those it has looked up are barred only if it did not see;   *)
(* after the lookups that is all of them.                                  *)
BarredAhead(h, S) ==
    h.at \in {"lookup", "guard", "check"} =>
        \A a \in h.barred : a \in Recipients(h.ask) /\ <<h.ask.tenant, a>> \in S

PassedUnseen(h) ==
    h.at = "check" =>
        \A i \in 1..h.checked : h.ask.to[i] \in h.barred => h.ask.to[i] \in h.unseen

Cleared(h) ==
    h.at \in {"consume", "route", "emit", "store"} => h.barred \subseteq h.unseen

Truthful(h, M) ==
    /\ h.at \in {"emit", "store"} => SentIn(M, h.answer.id, h.key)
    /\ h.at \in {"remember", "answered"} /\ h.answer.status = 202 =>
           SentFor(M, h.answer.id, h.ask)

Fine(h, S, M) ==
    /\ h.at # "idle" => h.ask \in Asks
    /\ HasItsKey(h)
    /\ Unpaid(h)
    /\ Counts(h)
    /\ BarredAhead(h, S)
    /\ PassedUnseen(h)
    /\ Cleared(h)
    /\ Truthful(h, M)

HandlersFine == \A r \in Requests : Fine(handler[r], suppressed, mail)

KeptReal == \A k \in Keys : kept[k] # Nothing => SentIn(mail, kept[k].id, k)

RepliesReal ==
    \A a \in Asks : replies[a] # Nothing /\ replies[a].status = 202 =>
        SentFor(mail, replies[a].id, a)

Inv == TypeOK /\ QuotaConserved /\ HandlersFine /\ KeptReal /\ RepliesReal
-----------------------------------------------------------------------------
(* Handlers as records: one field changes, then several.                   *)

Places == Ongoing \cup {"idle", "answered", "lost"}

LEMMA OneField ==
    ASSUME NEW h \in Handler
    PROVE  /\ \A v \in Places : [h EXCEPT !.at = v] \in Handler
           /\ \A v \in Asks \cup {Nothing} : [h EXCEPT !.ask = v] \in Handler
           /\ \A v \in Keys \cup {Nothing} : [h EXCEPT !.key = v] \in Handler
           /\ \A v \in BOOLEAN : [h EXCEPT !.guarded = v] \in Handler
           /\ \A v \in Nat : [h EXCEPT !.checked = v] \in Handler
           /\ \A v \in SUBSET Addresses : [h EXCEPT !.barred = v] \in Handler
           /\ \A v \in SUBSET Addresses : [h EXCEPT !.unseen = v] \in Handler
           /\ \A v \in BOOLEAN : [h EXCEPT !.paid = v] \in Handler
           /\ \A v \in Reply : [h EXCEPT !.answer = v] \in Handler
  <1>1. \A v \in Places : [h EXCEPT !.at = v] \in Handler
    BY DEF Handler, Places
  <1>2. \A v \in Asks \cup {Nothing} : [h EXCEPT !.ask = v] \in Handler
    BY DEF Handler
  <1>3. \A v \in Keys \cup {Nothing} : [h EXCEPT !.key = v] \in Handler
    BY DEF Handler
  <1>4. \A v \in BOOLEAN : [h EXCEPT !.guarded = v] \in Handler
    BY DEF Handler
  <1>5. \A v \in Nat : [h EXCEPT !.checked = v] \in Handler
    BY DEF Handler
  <1>6. \A v \in SUBSET Addresses : [h EXCEPT !.barred = v] \in Handler
    BY DEF Handler
  <1>7. \A v \in SUBSET Addresses : [h EXCEPT !.unseen = v] \in Handler
    BY DEF Handler
  <1>8. \A v \in BOOLEAN : [h EXCEPT !.paid = v] \in Handler
    BY DEF Handler
  <1>9. \A v \in Reply : [h EXCEPT !.answer = v] \in Handler
    BY DEF Handler
  <1>10. QED
    BY <1>1, <1>2, <1>3, <1>4, <1>5, <1>6, <1>7, <1>8, <1>9

LEMMA ReplyFacts ==
    /\ NoReply \in Reply
    /\ \A status \in Statuses, id \in Nat : [status |-> status, id |-> id] \in Reply
    /\ \A a \in Reply, id \in Nat : [a EXCEPT !.id = id] \in Reply
  BY DEF NoReply, Reply, Statuses

LEMMA NewHandlerType == NewHandler \in Handler
  BY ReplyFacts DEF NewHandler, Handler

LEMMA HandlerFields ==
    ASSUME NEW h \in Handler
    PROVE  /\ h.at \in Places
           /\ h.ask \in Asks \cup {Nothing}
           /\ h.key \in Keys \cup {Nothing}
           /\ h.checked \in Nat
           /\ h.barred \in SUBSET Addresses
           /\ h.unseen \in SUBSET Addresses
           /\ h.paid \in BOOLEAN
           /\ h.answer \in Reply
  BY DEF Handler, Places

LEMMA AskFacts ==
    ASSUME NEW ask \in Asks
    PROVE  /\ ask.tenant \in Tenants /\ ask.channel \in Channels
           /\ ask.to \in Seq(Addresses) /\ Len(ask.to) \in Nat \ {0}
           /\ \A i \in 1..Len(ask.to) : ask.to[i] \in Addresses
           /\ Recipients(ask) \subseteq Addresses
           /\ \A d \in Days : KeyOf(ask, d) \in Keys
  <1>1. ask \in Request /\ ask.to # <<>>
    BY SendAssumption
  <1>2. /\ ask.tenant \in Tenants /\ ask.channel \in Channels
        /\ ask.template \in Templates /\ ask.header \in Headers \cup {NoHeader}
        /\ ask.to \in Seq(Addresses)
    BY <1>1 DEF Request
  <1>3. Len(ask.to) \in Nat \ {0} /\ \A i \in 1..Len(ask.to) : ask.to[i] \in Addresses
    BY <1>1, <1>2
  <1>4. \A d \in Days : KeyOf(ask, d) \in Keys
    BY <1>2, <1>3 DEF KeyOf, Keys, DefaultKeys
  <1>5. QED
    BY <1>2, <1>3, <1>4 DEF Recipients

LEMMA NewHandlerFine ==
    ASSUME NEW S, NEW M PROVE Fine(NewHandler, S, M)
  BY DEF NewHandler, NoReply, Fine, HasItsKey, Unpaid, Counts, BarredAhead,
         PassedUnseen, Cleared, Truthful

(* What Enter makes of a handler that has looked up nothing yet.           *)
LEMMA Entering ==
    ASSUME NEW S, NEW M, NEW h \in Handler, h.ask \in Asks, ~h.paid, h.checked = 0,
           \A a \in h.barred : a \in Recipients(h.ask) /\ <<h.ask.tenant, a>> \in S,
           NEW d \in Days, NEW g \in BOOLEAN
    PROVE  LET h2 == [h EXCEPT !.at = "guard", !.guarded = g, !.key = KeyOf(h.ask, d)]
           IN h2 \in Handler /\ Fine(h2, S, M) /\ ~h2.paid
  <1> DEFINE one == [h EXCEPT !.at = "guard"]
             two == [one EXCEPT !.guarded = g]
             h2 == [h EXCEPT !.at = "guard", !.guarded = g, !.key = KeyOf(h.ask, d)]
  <1>1. one \in Handler
    BY OneField DEF Places, Ongoing
  <1>2. two \in Handler
    BY <1>1, OneField
  <1>3. KeyOf(h.ask, d) \in Keys
    BY AskFacts
  <1>4. h2 = [two EXCEPT !.key = KeyOf(h.ask, d)]
    BY Zenon
  <1>5. h2 \in Handler
    BY <1>2, <1>3, <1>4, OneField
  <1>6. /\ h2.at = "guard" /\ h2.ask = h.ask /\ h2.key = KeyOf(h.ask, d)
        /\ h2.checked = h.checked /\ h2.barred = h.barred /\ h2.paid = h.paid
    BY DEF Handler
  <1> HIDE DEF h2
  <1>7. Fine(h2, S, M)
    BY <1>6 DEF Fine, HasItsKey, Unpaid, Counts, BarredAhead, PassedUnseen, Cleared,
                Truthful
  <1>8. QED
    BY <1>5, <1>6, <1>7 DEF h2

(* A handler at its end: its answer is final.                              *)
LEMMA EndedFine ==
    ASSUME NEW S, NEW M, NEW h \in Handler, h.at \in {"remember", "answered"},
           h.ask \in Asks, h.answer.status = 202 => SentFor(M, h.answer.id, h.ask)
    PROVE  Fine(h, S, M)
  BY DEF Fine, HasItsKey, Unpaid, Counts, BarredAhead, PassedUnseen, Cleared, Truthful

(* What a handler becomes by moving on without an answer.                  *)
LEMMA MovingOn ==
    ASSUME NEW S, NEW M, NEW h \in Handler, Fine(h, S, M), NEW place \in Places,
           \/ h.at = "guard" /\ place = "check"
           \/ h.at = "consume" /\ place = "route"
           \/ h.at = "emit" /\ place = "store"
           \/ h.at = "remember" /\ place = "answered"
           \/ h.at \in Ongoing /\ place = "lost"
    PROVE  LET h2 == [h EXCEPT !.at = place]
           IN /\ h2 \in Handler /\ Fine(h2, S, M)
              /\ h2.paid = h.paid /\ h2.ask = h.ask
  <1> DEFINE h2 == [h EXCEPT !.at = place]
  <1>1. h2 \in Handler
    BY OneField
  <1>2. /\ h2.at = place /\ h2.ask = h.ask /\ h2.key = h.key
        /\ h2.checked = h.checked /\ h2.barred = h.barred /\ h2.unseen = h.unseen
        /\ h2.paid = h.paid /\ h2.answer = h.answer
    BY DEF Handler
  <1> HIDE DEF h2
  <1>3. h.ask \in Asks
    BY DEF Fine, Ongoing
  <1>4. Len(h.ask.to) \in Nat \ {0}
    BY <1>3, AskFacts
  <1>5. HasItsKey(h2) /\ Unpaid(h2) /\ Cleared(h2) /\ Truthful(h2, M)
    BY <1>2 DEF Fine, HasItsKey, Unpaid, Cleared, Truthful
  <1>6. Counts(h2) /\ BarredAhead(h2, S) /\ PassedUnseen(h2)
    BY <1>2, <1>4 DEF Fine, Counts, BarredAhead, PassedUnseen
  <1>7. QED
    BY <1>1, <1>2, <1>3, <1>5, <1>6 DEF Fine, h2

(* A recipient passes: it is not suppressed, or its lookup failed.         *)
LEMMA Passing ==
    ASSUME NEW S, NEW M, NEW h \in Handler, Fine(h, S, M), h.at = "check",
           NEW h2 \in Handler,
           h2.at = (IF h.checked + 1 = Len(h.ask.to) THEN "consume" ELSE "check"),
           h2.checked = h.checked + 1,
           h2.ask = h.ask, h2.key = h.key, h2.barred = h.barred, h2.paid = h.paid,
           h.unseen \subseteq h2.unseen,
           \/ <<h.ask.tenant, h.ask.to[h.checked + 1]>> \notin S
           \/ h.ask.to[h.checked + 1] \in h2.unseen
    PROVE  Fine(h2, S, M)
  <1> DEFINE address == h.ask.to[h.checked + 1]
  <1>1. h.ask \in Asks /\ h.checked \in Nat /\ h.checked < Len(h.ask.to)
    BY HandlerFields DEF Fine, Counts
  <1>2. Len(h.ask.to) \in Nat
    BY <1>1, AskFacts
  <1>3. \A a \in h.barred : a \in Recipients(h.ask) /\ <<h.ask.tenant, a>> \in S
    BY DEF Fine, BarredAhead
  <1>4. \A i \in 1..h.checked : h.ask.to[i] \in h.barred => h.ask.to[i] \in h.unseen
    BY DEF Fine, PassedUnseen
  <1>5. address \in h.barred => address \in h2.unseen
    BY <1>3
  <1>6. \A i \in 1..h.checked + 1 : h.ask.to[i] \in h.barred => h.ask.to[i] \in h2.unseen
    <2>1. TAKE i \in 1..h.checked + 1
    <2>2. CASE i \in 1..h.checked
      BY <2>2, <1>4
    <2>3. CASE i = h.checked + 1
      BY <2>3, <1>5
    <2>4. QED
      BY <1>1, <2>2, <2>3
  <1>7. HasItsKey(h2) /\ Unpaid(h2) /\ Truthful(h2, M)
    BY DEF Fine, HasItsKey, Unpaid, Truthful
  <1>8. Counts(h2) /\ BarredAhead(h2, S) /\ PassedUnseen(h2)
    BY <1>1, <1>2, <1>3, <1>6 DEF Counts, BarredAhead, PassedUnseen
  <1>9. Cleared(h2)
    <2>1. CASE h.checked + 1 = Len(h.ask.to)
      <3>1. \A a \in h.barred : a \in h2.unseen
        <4>1. TAKE a \in h.barred
        <4>2. PICK i \in 1..Len(h.ask.to) : a = h.ask.to[i]
          BY <1>3 DEF Recipients
        <4>3. QED
          BY <2>1, <4>2, <1>6
      <3>2. QED
        BY <3>1 DEF Cleared
    <2>2. CASE h.checked + 1 # Len(h.ask.to)
      BY <2>2 DEF Cleared
    <2>3. QED
      BY <2>1, <2>2
  <1>10. QED
    BY <1>1, <1>7, <1>8, <1>9 DEF Fine

LEMMA Checking ==
    ASSUME NEW S, NEW M, NEW h \in Handler, Fine(h, S, M), h.at = "check"
    PROVE  LET address == h.ask.to[h.checked + 1]
               seen == CheckedNow(h)
               blind == [CheckedNow(h) EXCEPT !.unseen = @ \cup {address}]
           IN /\ <<h.ask.tenant, address>> \notin S =>
                     seen \in Handler /\ Fine(seen, S, M)
              /\ seen.paid = h.paid /\ seen.ask = h.ask
              /\ blind \in Handler /\ Fine(blind, S, M)
              /\ blind.paid = h.paid /\ blind.ask = h.ask
  <1> DEFINE address == h.ask.to[h.checked + 1]
             seen == CheckedNow(h)
             blind == [seen EXCEPT !.unseen = @ \cup {address}]
             place == IF h.checked + 1 = Len(h.ask.to) THEN "consume" ELSE "check"
             one == [h EXCEPT !.checked = h.checked + 1]
  <1>1. h.ask \in Asks /\ h.checked \in Nat /\ h.checked < Len(h.ask.to)
    BY HandlerFields DEF Fine, Counts
  <1>2. Len(h.ask.to) \in Nat /\ address \in Addresses
    BY <1>1, AskFacts
  <1>3. one \in Handler
    <2>1. h.checked + 1 \in Nat
      BY <1>1
    <2>2. QED
      BY <2>1, OneField, Zenon
  <1>4. seen = [one EXCEPT !.at = place]
    BY DEF CheckedNow
  <1>5. seen \in Handler
    <2>1. place \in Places
      BY DEF Places, Ongoing
    <2> HIDE DEF one, place, seen
    <2>2. QED
      BY <1>3, <1>4, <2>1, OneField
  <1>6. /\ seen.at = place /\ seen.checked = h.checked + 1
        /\ seen.ask = h.ask /\ seen.key = h.key /\ seen.barred = h.barred
        /\ seen.unseen = h.unseen /\ seen.paid = h.paid
    <2>1. /\ one.checked = h.checked + 1
          /\ one.ask = h.ask /\ one.key = h.key /\ one.barred = h.barred
          /\ one.unseen = h.unseen /\ one.paid = h.paid
      BY DEF Handler
    <2> HIDE DEF one, place, seen
    <2>2. QED
      BY <1>3, <1>4, <2>1 DEF Handler
  <1>7. <<h.ask.tenant, address>> \notin S => Fine(seen, S, M)
    <2> HIDE DEF seen
    <2>1. QED
      BY <1>5, <1>6, Passing
  <1>8. seen.unseen \cup {address} \in SUBSET Addresses
    BY <1>2, <1>5, HandlerFields
  <1>9. blind \in Handler
    <2> HIDE DEF seen
    <2>1. QED
      BY <1>5, <1>8, OneField
  <1>10. /\ blind.at = place /\ blind.checked = h.checked + 1
         /\ blind.ask = h.ask /\ blind.key = h.key /\ blind.barred = h.barred
         /\ blind.unseen = h.unseen \cup {address} /\ blind.paid = h.paid
    <2> HIDE DEF seen
    <2>1. QED
      BY <1>5, <1>6 DEF Handler
  <1>11. Fine(blind, S, M)
    <2> HIDE DEF blind
    <2>1. QED
      BY <1>9, <1>10, Passing
  <1>12. QED
    BY <1>5, <1>6, <1>7, <1>9, <1>10, <1>11

LEMMA PaidFine ==
    ASSUME NEW S, NEW M, NEW h \in Handler, Fine(h, S, M), h.at = "consume",
           NEW h2 \in Handler, h2.at = "route", h2.ask = h.ask, h2.key = h.key,
           h2.barred = h.barred, h2.unseen = h.unseen
    PROVE  Fine(h2, S, M)
  BY DEF Fine, HasItsKey, Unpaid, Counts, BarredAhead, PassedUnseen, Cleared, Truthful

(* A provider took the message.                                            *)
LEMMA RoutedFine ==
    ASSUME NEW S, NEW M, NEW h \in Handler, Fine(h, S, M), h.at = "route",
           NEW h2 \in Handler, h2.at = "emit", h2.ask = h.ask, h2.key = h.key,
           h2.barred = h.barred, h2.unseen = h.unseen,
           NEW N, SentIn(N, h2.answer.id, h.key)
    PROVE  Fine(h2, S, N)
  BY DEF Fine, HasItsKey, Unpaid, Counts, BarredAhead, PassedUnseen, Cleared, Truthful

-----------------------------------------------------------------------------
(* What is true of messages stays true as more are sent.                   *)

Grows(M, N) == N = M \/ \E m \in Message : N = Append(M, m)

LEMMA SentStays ==
    ASSUME NEW M \in Seq(Message), NEW N, Grows(M, N), NEW id, NEW key, SentIn(M, id, key)
    PROVE  SentIn(N, id, key)
  <1>1. CASE N = M
    BY <1>1
  <1>2. ASSUME NEW m \in Message, N = Append(M, m) PROVE SentIn(N, id, key)
    <2>1. id \in 1..Len(M)
      BY DEF SentIn
    <2>2. id \in 1..Len(N) /\ N[id] = M[id]
      BY <1>2, <2>1
    <2>3. QED
      BY <2>2 DEF SentIn
  <1>3. QED
    BY <1>1, <1>2 DEF Grows

LEMMA NewMessage ==
    ASSUME NEW M \in Seq(Message), NEW m \in Message
    PROVE  /\ Append(M, m) \in Seq(Message)
           /\ Grows(M, Append(M, m))
           /\ Len(M) + 1 \in Nat \ {0}
           /\ m.answered => SentIn(Append(M, m), Len(M) + 1, m.key)
  BY DEF Grows, SentIn

LEMMA FineStays ==
    ASSUME NEW M \in Seq(Message), NEW N, Grows(M, N),
           NEW S, NEW T, S \subseteq T, NEW h \in Handler, Fine(h, S, M)
    PROVE  Fine(h, T, N)
  <1>1. Truthful(h, N)
    <2>1. \A id, key : SentIn(M, id, key) => SentIn(N, id, key)
      BY SentStays
    <2>2. QED
      BY <2>1 DEF Fine, Truthful, SentFor
  <1>2. BarredAhead(h, T)
    BY DEF Fine, BarredAhead
  <1>3. QED
    BY <1>1, <1>2 DEF Fine

(* The caches, if only messages were added.                                *)
LEMMA CachesStay ==
    ASSUME Inv, Grows(mail, mail')
    PROVE  /\ UNCHANGED kept => KeptReal'
           /\ UNCHANGED replies => RepliesReal'
  <1>1. \A id, key : SentIn(mail, id, key) => SentIn(mail', id, key)
    BY SentStays DEF Inv, TypeOK
  <1>2. UNCHANGED kept => KeptReal'
    BY <1>1 DEF Inv, KeptReal
  <1>3. UNCHANGED replies => RepliesReal'
    BY <1>1 DEF Inv, RepliesReal, SentFor
  <1>4. QED
    BY <1>2, <1>3

(* A request moves on as h, and no other does.                             *)
LEMMA OneMoves ==
    ASSUME Inv, NEW r \in Requests, NEW h \in Handler, Become(r, h),
           Fine(h, suppressed', mail'), Grows(mail, mail'), suppressed \subseteq suppressed'
    PROVE  handler' \in [Requests -> Handler] /\ HandlersFine'
  <1>1. handler \in [Requests -> Handler] /\ mail \in Seq(Message)
    BY DEF Inv, TypeOK
  <1>2. handler' \in [Requests -> Handler]
    BY <1>1 DEF Become
  <1>3. \A q \in Requests : Fine(handler[q], suppressed', mail')
    BY <1>1, FineStays DEF Inv, HandlersFine
  <1>4. \A q \in Requests : Fine(handler'[q], suppressed', mail')
    BY <1>1, <1>3 DEF Become
  <1>5. QED
    BY <1>2, <1>4 DEF HandlersFine

LEMMA PayersStay ==
    ASSUME Inv, NEW r \in Requests, NEW h \in Handler, Become(r, h),
           h.paid = handler[r].paid, h.paid => h.ask = handler[r].ask, UNCHANGED quota
    PROVE  QuotaConserved'
  <1>1. handler \in [Requests -> Handler]
    BY DEF Inv, TypeOK
  <1>2. \A t, c : Payers(t, c)' = Payers(t, c)
    BY <1>1 DEF Payers, Become
  <1>3. QED
    BY <1>2 DEF Inv, QuotaConserved

Moves(r) ==
    \E h \in Handler :
        /\ Become(r, h)
        /\ Fine(h, suppressed', mail')
        /\ h.paid = handler[r].paid
        /\ h.paid => h.ask = handler[r].ask

LEMMA ServeStep ==
    ASSUME Inv, NEW r \in Requests, Moves(r), UNCHANGED <<suppressed, quota, day>>,
           mail' \in Seq(Message), Grows(mail, mail'),
           kept' \in [Keys -> Response \cup {Nothing}], KeptReal',
           replies' \in [Asks -> Reply \cup {Nothing}], RepliesReal'
    PROVE  Inv'
  <1>1. PICK h \in Handler : /\ Become(r, h)
                             /\ Fine(h, suppressed', mail')
                             /\ h.paid = handler[r].paid
                             /\ h.paid => h.ask = handler[r].ask
    BY DEF Moves
  <1>2. handler' \in [Requests -> Handler] /\ HandlersFine'
    BY <1>1, OneMoves
  <1>3. QuotaConserved'
    BY <1>1, PayersStay
  <1>4. TypeOK'
    BY <1>2 DEF Inv, TypeOK
  <1>5. QED
    BY <1>2, <1>3, <1>4 DEF Inv

(* The same, when the tables, the caches and the messages stay as they are.*)
LEMMA QuietStep ==
    ASSUME Inv, NEW r \in Requests, Moves(r), UNCHANGED <<guardVars, replies, mail, day>>
    PROVE  Inv'
  <1>1. Grows(mail, mail')
    BY DEF Grows
  <1>2. KeptReal' /\ RepliesReal'
    BY <1>1, CachesStay DEF guardVars
  <1>3. QED
    BY <1>1, <1>2, ServeStep DEF Inv, TypeOK, guardVars

LEMMA Here ==
    ASSUME Inv, NEW r \in Requests
    PROVE  /\ handler[r] \in Handler
           /\ Fine(handler[r], suppressed, mail)
           /\ handler[r].at # "idle" => handler[r].ask \in Asks
           /\ \A k \in Keys : kept[k] \in Response \cup {Nothing}
           /\ \A a \in Asks : replies[a] \in Reply \cup {Nothing}
           /\ mail \in Seq(Message)
           /\ day \in Days
  BY DEF Inv, TypeOK, HandlersFine, Fine

LEMMA AnswerMoves ==
    ASSUME Inv, NEW r \in Requests, handler[r].at \in Ongoing,
           NEW place \in {"remember", "answered"}, NEW answer \in Reply,
           answer.status = 202 => SentFor(mail', answer.id, handler[r].ask),
           Become(r, [handler[r] EXCEPT !.at = place, !.answer = answer])
    PROVE  Moves(r)
  <1>1. PICK h \in Handler : h = handler[r] /\ h.ask \in Asks
    BY Here DEF Ongoing
  <1> DEFINE one == [h EXCEPT !.at = place]
             h2 == [h EXCEPT !.at = place, !.answer = answer]
  <1>2. one \in Handler
    BY OneField DEF Places, Ongoing
  <1>3. h2 = [one EXCEPT !.answer = answer]
    BY Zenon
  <1>4. h2 \in Handler
    BY <1>2, <1>3, OneField
  <1>5. /\ h2.at = place /\ h2.ask = h.ask /\ h2.answer = answer /\ h2.paid = h.paid
    BY DEF Handler
  <1>6. Become(r, h2)
    BY <1>1
  <1> HIDE DEF h2
  <1>7. Fine(h2, suppressed', mail')
    BY <1>1, <1>4, <1>5, EndedFine
  <1>8. QED
    BY <1>1, <1>4, <1>5, <1>6, <1>7 DEF Moves

LEMMA EndMoves ==
    ASSUME Inv, NEW r \in Requests, handler[r].at \in Ongoing,
           NEW status \in Statuses, NEW id \in Nat,
           status = 202 => SentFor(mail', id, handler[r].ask),
           End(r, handler[r], status, id)
    PROVE  Moves(r)
  <1>1. [status |-> status, id |-> id] \in Reply
    BY ReplyFacts
  <1>2. CASE handler[r].guarded /\ status < 500
    BY <1>1, <1>2, AnswerMoves DEF End
  <1>3. CASE ~(handler[r].guarded /\ status < 500)
    BY <1>1, <1>3, AnswerMoves DEF End
  <1>4. QED
    BY <1>2, <1>3

LEMMA RaiseMoves ==
    ASSUME Inv, NEW r \in Requests, handler[r].at \in Ongoing, Raise(r, handler[r])
    PROVE  Moves(r)
  BY EndMoves DEF Raise, Statuses

(* Enter, from the lookup of the middleware.                               *)
LEMMA EnterMoves ==
    ASSUME Inv, NEW r \in Requests, handler[r].at = "lookup", NEW g \in BOOLEAN,
           Enter(r, handler[r], g), UNCHANGED suppressed
    PROVE  Moves(r)
  <1> DEFINE h == handler[r]
             h2 == [h EXCEPT !.at = "guard", !.guarded = g, !.key = KeyOf(h.ask, day)]
  <1>1. h \in Handler /\ Fine(h, suppressed, mail) /\ h.ask \in Asks /\ day \in Days
    BY Here
  <1>2. ~h.paid /\ h.checked = 0
    BY <1>1 DEF Fine, Unpaid, Counts
  <1>3. \A a \in h.barred : a \in Recipients(h.ask) /\ <<h.ask.tenant, a>> \in suppressed'
    BY <1>1 DEF Fine, BarredAhead
  <1>4. h2 \in Handler /\ Fine(h2, suppressed', mail') /\ ~h2.paid
    BY <1>1, <1>2, <1>3, Entering
  <1>5. Become(r, h2)
    BY DEF Enter
  <1>6. h2.paid = h.paid
    BY <1>2, <1>4, HandlerFields
  <1>7. QED
    BY <1>4, <1>5, <1>6 DEF Moves

LEMMA OnwardMoves ==
    ASSUME Inv, NEW r \in Requests, UNCHANGED <<suppressed, mail>>, NEW place \in Places,
           LET at == handler[r].at
           IN \/ at = "guard" /\ place = "check"
              \/ at = "consume" /\ place = "route"
              \/ at = "emit" /\ place = "store"
              \/ at = "remember" /\ place = "answered"
              \/ at \in Ongoing /\ place = "lost",
           Become(r, [handler[r] EXCEPT !.at = place])
    PROVE  Moves(r)
  <1> DEFINE h2 == [handler[r] EXCEPT !.at = place]
  <1>1. handler[r] \in Handler /\ Fine(handler[r], suppressed, mail)
    BY Here
  <1>2. Fine(handler[r], suppressed', mail')
    BY <1>1
  <1>3. /\ h2 \in Handler /\ Fine(h2, suppressed', mail')
        /\ h2.paid = handler[r].paid /\ h2.ask = handler[r].ask
    BY <1>1, <1>2, MovingOn
  <1>4. QED
    BY <1>3 DEF Moves
-----------------------------------------------------------------------------
(* One lemma per action.                                                   *)

LEMMA ArriveInv == \A r \in Requests, ask \in Asks : Inv /\ Arrive(r, ask) => Inv'
  <1> SUFFICES ASSUME NEW r \in Requests, NEW ask \in Asks, Inv, Arrive(r, ask)
               PROVE  Inv'
    OBVIOUS
  <1> DEFINE barred == {a \in Recipients(ask) : Suppressed(ask, a)}
             one == [NewHandler EXCEPT !.ask = ask]
             h == [NewHandler EXCEPT !.ask = ask, !.barred = barred]
  <1>1. handler[r].at = "idle" /\ UNCHANGED <<guardVars, replies, mail, day>>
    BY DEF Arrive
  <1>2. ~handler[r].paid /\ handler[r].paid \in BOOLEAN /\ day \in Days
    BY <1>1, Here, HandlerFields DEF Fine, Unpaid
  <1>3. one \in Handler
    BY NewHandlerType, OneField
  <1>4. h = [one EXCEPT !.barred = barred]
    BY Zenon
  <1>5. barred \in SUBSET Addresses
    BY AskFacts
  <1>6. h \in Handler
    <2> HIDE DEF one, barred
    <2>1. QED
      BY <1>3, <1>4, <1>5, OneField
  <1>7. /\ h.at = "idle" /\ h.ask = ask /\ h.barred = barred
        /\ ~h.paid /\ h.paid = FALSE /\ h.checked = 0
    BY DEF NewHandler
  <1>8. \A a \in barred : a \in Recipients(ask) /\ <<ask.tenant, a>> \in suppressed
    BY DEF Suppressed
  <1>9. IF ask.header = NoHeader THEN Enter(r, h, FALSE)
                                 ELSE Become(r, [h EXCEPT !.at = "lookup"])
    BY DEF Arrive
  <1> HIDE DEF h, barred
  <1>10. CASE Enter(r, h, FALSE)
    <2> DEFINE h2 == [h EXCEPT !.at = "guard", !.guarded = FALSE, !.key = KeyOf(h.ask, day)]
    <2>1. h2 \in Handler /\ Fine(h2, suppressed, mail) /\ ~h2.paid
      BY <1>2, <1>6, <1>7, <1>8, Entering
    <2>2. Become(r, h2) /\ h2.paid = handler[r].paid
      BY <1>2, <1>10, <2>1, HandlerFields DEF Enter
    <2>3. Moves(r)
      BY <1>1, <2>1, <2>2 DEF Moves, guardVars
    <2>4. QED
      BY <1>1, <2>3, QuietStep
  <1>11. CASE Become(r, [h EXCEPT !.at = "lookup"])
    <2> DEFINE h2 == [h EXCEPT !.at = "lookup"]
    <2>1. h2 \in Handler
      BY <1>6, OneField DEF Places, Ongoing
    <2>2. /\ h2.at = "lookup" /\ h2.ask = ask /\ h2.barred = barred
          /\ h2.paid = FALSE /\ h2.checked = 0
      BY <1>6, <1>7 DEF Handler
    <2> HIDE DEF h2
    <2>3. Fine(h2, suppressed, mail)
      BY <1>8, <2>2 DEF Fine, HasItsKey, Unpaid, Counts, BarredAhead, PassedUnseen,
                        Cleared, Truthful
    <2>4. Moves(r)
      BY <1>1, <1>2, <1>11, <2>1, <2>2, <2>3 DEF Moves, h2, guardVars
    <2>5. QED
      BY <1>1, <2>4, QuietStep
  <1>12. QED
    BY <1>9, <1>10, <1>11

LEMMA LookupInv == \A r \in Requests : Inv /\ Lookup(r) => Inv'
  <1> SUFFICES ASSUME NEW r \in Requests, Inv, Lookup(r) PROVE Inv'
    OBVIOUS
  <1> DEFINE h == handler[r]
  <1>1. h.at = "lookup" /\ UNCHANGED <<guardVars, replies, mail, day>>
    BY DEF Lookup
  <1>2. h.ask \in Asks /\ h.at \in Ongoing
    BY <1>1, Here DEF Ongoing
  <1>3. CASE replies[h.ask] # Nothing
             /\ Become(r, [h EXCEPT !.at = "answered", !.answer = replies[h.ask]])
    <2>1. PICK answer \in Reply : answer = replies[h.ask]
      BY <1>2, <1>3, Here
    <2>2. answer.status = 202 => SentFor(mail', answer.id, h.ask)
      BY <1>1, <1>2, <1>3, <2>1 DEF Inv, RepliesReal
    <2>3. Become(r, [h EXCEPT !.at = "answered", !.answer = answer])
      BY <1>3, <2>1
    <2>4. Moves(r)
      BY <1>2, <2>2, <2>3, AnswerMoves
    <2>5. QED
      BY <1>1, <2>4, QuietStep
  <1>4. ASSUME NEW g \in BOOLEAN, Enter(r, h, g) PROVE Inv'
    BY <1>1, <1>4, EnterMoves, QuietStep DEF guardVars
  <1>5. CASE Raise(r, h)
    BY <1>1, <1>2, <1>5, RaiseMoves, QuietStep
  <1>6. QED
    BY <1>3, <1>4, <1>5 DEF Lookup

LEMMA GuardInv == \A r \in Requests : Inv /\ Guard(r) => Inv'
  <1> SUFFICES ASSUME NEW r \in Requests, Inv, Guard(r) PROVE Inv'
    OBVIOUS
  <1> DEFINE h == handler[r]
  <1>1. h.at = "guard" /\ UNCHANGED <<guardVars, replies, mail, day>>
    BY DEF Guard
  <1>2. h.ask \in Asks /\ h.at \in Ongoing
    BY <1>1, Here DEF Ongoing
  <1>3. PICK d \in Days : h.key = KeyOf(h.ask, d)
    BY <1>1, Here DEF Fine, HasItsKey
  <1>4. h.key \in Keys
    BY <1>2, <1>3, AskFacts
  <1>5. CASE kept[h.key] # Nothing /\ End(r, h, 202, kept[h.key].id)
    <2>1. PICK id \in Nat : id = kept[h.key].id
      BY <1>4, <1>5, Here DEF Response
    <2>2. SentFor(mail', id, h.ask)
      BY <1>1, <1>3, <1>4, <1>5, <2>1 DEF Inv, KeptReal, SentFor
    <2>3. End(r, h, 202, id)
      BY <1>5, <2>1
    <2>4. Moves(r)
      BY <1>2, <2>2, <2>3, EndMoves DEF Statuses
    <2>5. QED
      BY <1>1, <2>4, QuietStep
  <1>6. CASE Raise(r, h)
    BY <1>1, <1>2, <1>6, RaiseMoves, QuietStep
  <1>7. CASE Become(r, Unseen(r))
    <2>1. Become(r, [h EXCEPT !.at = "check"])
      BY <1>7 DEF Unseen
    <2>2. Moves(r)
      BY <1>1, <2>1, OnwardMoves DEF Places, Ongoing, guardVars
    <2>3. QED
      BY <1>1, <2>2, QuietStep
  <1>8. QED
    BY <1>5, <1>6, <1>7 DEF Guard

LEMMA CheckInv == \A r \in Requests : Inv /\ CheckSuppression(r) => Inv'
  <1> SUFFICES ASSUME NEW r \in Requests, Inv, CheckSuppression(r) PROVE Inv'
    OBVIOUS
  <1>1. PICK h \in Handler : h = handler[r] /\ Fine(h, suppressed, mail)
    BY Here
  <1> DEFINE address == h.ask.to[h.checked + 1]
             seen == CheckedNow(h)
             blind == [CheckedNow(h) EXCEPT !.unseen = @ \cup {address}]
  <1>2. h.at = "check" /\ UNCHANGED <<guardVars, replies, mail, day>>
    BY <1>1 DEF CheckSuppression
  <1>3. /\ Fine(h, suppressed', mail') /\ suppressed' = suppressed
    BY <1>1, <1>2 DEF guardVars
  <1>4. /\ <<h.ask.tenant, address>> \notin suppressed' =>
               seen \in Handler /\ Fine(seen, suppressed', mail')
        /\ seen.paid = h.paid /\ seen.ask = h.ask
        /\ blind \in Handler /\ Fine(blind, suppressed', mail')
        /\ blind.paid = h.paid /\ blind.ask = h.ask
    BY <1>2, <1>3, Checking
  <1>5. CASE End(r, h, 409, 0)
    BY <1>1, <1>2, <1>5, EndMoves, QuietStep DEF Statuses, Ongoing
  <1>6. CASE ~Suppressed(h.ask, address) /\ Become(r, seen)
    <2>1. Moves(r)
      BY <1>1, <1>3, <1>4, <1>6 DEF Moves, Suppressed
    <2>2. QED
      BY <1>2, <2>1, QuietStep
  <1>7. CASE Become(r, blind)
    <2>1. Moves(r)
      BY <1>1, <1>4, <1>7 DEF Moves
    <2>2. QED
      BY <1>2, <2>1, QuietStep
  <1>8. QED
    BY <1>1, <1>5, <1>6, <1>7 DEF CheckSuppression

(* One more request has paid: its channel of its tenant has one payer more.*)
LEMMA OnePayerMore ==
    ASSUME Inv, NEW r \in Requests, NEW h \in Handler, Become(r, h), h.paid,
           ~handler[r].paid, h.ask = handler[r].ask,
           h.ask.tenant \in Organisations, h.ask.channel \in Channels, Consume(h.ask),
           quota[<<h.ask.tenant, h.ask.channel>>] > 0
    PROVE  quota' \in [Organisations \X Channels -> 0..MonthlyQuota] /\ QuotaConserved'
  <1> DEFINE mine == <<h.ask.tenant, h.ask.channel>>
  <1>1. /\ handler \in [Requests -> Handler]
        /\ quota \in [Organisations \X Channels -> 0..MonthlyQuota]
        /\ mine \in Organisations \X Channels
    BY DEF Inv, TypeOK
  <1>2. quota' = [quota EXCEPT ![mine] = quota[mine] - 1]
    BY DEF Consume
  <1>3. quota' \in [Organisations \X Channels -> 0..MonthlyQuota]
    <2>1. quota[mine] - 1 \in 0..MonthlyQuota
      BY <1>1, GuardAssumption
    <2>2. QED
      BY <1>1, <1>2, <2>1
  <1>4. ASSUME NEW tc \in Organisations \X Channels
        PROVE  quota'[tc] + Cardinality(Payers(tc[1], tc[2])') = MonthlyQuota
    <2> DEFINE before == Payers(tc[1], tc[2])
               after == Payers(tc[1], tc[2])'
    <2>1. quota[tc] + Cardinality(before) = MonthlyQuota
      BY DEF Inv, QuotaConserved
    <2>2. IsFiniteSet(before) /\ r \notin before
      <3>1. before \subseteq Requests
        BY DEF Payers
      <3>2. QED
        BY <3>1, SendAssumption, FS_Subset DEF Payers
    <2>3. CASE tc = mine
      <3>1. after = before \cup {r}
        BY <1>1, <2>3 DEF Payers, Become
      <3>2. Cardinality(after) = Cardinality(before) + 1
        BY <2>2, <3>1, FS_AddElement
      <3>3. quota'[tc] = quota[tc] - 1
        BY <1>1, <1>2, <2>3
      <3>4. quota[tc] \in Nat /\ Cardinality(before) \in Nat
        BY <1>1, <2>2, FS_CardinalityType, GuardAssumption
      <3>5. QED
        BY <2>1, <3>2, <3>3, <3>4
    <2>4. CASE tc # mine
      <3>1. tc[1] # h.ask.tenant \/ tc[2] # h.ask.channel
        BY <2>4
      <3>2. after = before
        BY <1>1, <3>1 DEF Payers, Become
      <3>3. quota'[tc] = quota[tc]
        BY <1>1, <1>2, <2>4
      <3>4. QED
        BY <2>1, <3>2, <3>3
    <2>5. QED
      BY <2>3, <2>4
  <1>5. QED
    BY <1>3, <1>4 DEF QuotaConserved

LEMMA ConsumeQuotaInv == \A r \in Requests : Inv /\ ConsumeQuota(r) => Inv'
  <1> SUFFICES ASSUME NEW r \in Requests, Inv, ConsumeQuota(r) PROVE Inv'
    OBVIOUS
  <1>1. PICK h \in Handler : h = handler[r] /\ Fine(h, suppressed, mail)
    BY Here
  <1>2. h.at = "consume" /\ UNCHANGED <<suppressed, kept, replies, mail, day>>
    BY <1>1 DEF ConsumeQuota
  <1>3. h.ask \in Asks /\ ~h.paid
    BY <1>1, <1>2 DEF Fine, Unpaid
  <1>4. CASE /\ HasQuota(h.ask)
             /\ Consume(h.ask)
             /\ Become(r, [h EXCEPT !.at = "route", !.paid = TRUE])
    <2> DEFINE h2 == [h EXCEPT !.at = "route", !.paid = TRUE]
    <2>1. /\ h2 \in Handler /\ Fine(h2, suppressed, mail)
          /\ h2.paid /\ h2.ask = h.ask
      <3> DEFINE one == [h EXCEPT !.at = "route"]
      <3>1. one \in Handler
        BY OneField DEF Places, Ongoing
      <3>2. h2 = [one EXCEPT !.paid = TRUE]
        BY Zenon
      <3>3. h2 \in Handler
        BY <3>1, <3>2, OneField
      <3>4. /\ h2.at = "route" /\ h2.ask = h.ask /\ h2.key = h.key
            /\ h2.barred = h.barred /\ h2.unseen = h.unseen /\ h2.paid
        BY DEF Handler
      <3> HIDE DEF h2
      <3>5. QED
        BY <1>1, <1>2, <3>3, <3>4, PaidFine
    <2>2. Become(r, h2)
      BY <1>4
    <2> HIDE DEF h2
    <2>3. Grows(mail, mail') /\ Fine(h2, suppressed', mail')
      BY <1>2, <2>1 DEF Grows
    <2>4. handler' \in [Requests -> Handler] /\ HandlersFine'
      BY <1>2, <2>1, <2>2, <2>3, OneMoves
    <2>5. quota' \in [Organisations \X Channels -> 0..MonthlyQuota] /\ QuotaConserved'
      <3>1. h.ask.channel \in Channels
        BY <1>3, AskFacts
      <3>2. QED
        BY <1>1, <1>3, <1>4, <2>1, <2>2, <3>1, OnePayerMore DEF HasQuota
    <2>6. KeptReal' /\ RepliesReal'
      BY <1>2, <2>3, CachesStay
    <2>7. QED
      BY <1>2, <2>4, <2>5, <2>6 DEF Inv, TypeOK
  <1>5. CASE End(r, h, 429, 0) /\ UNCHANGED quota
    BY <1>1, <1>2, <1>5, EndMoves, QuietStep DEF Statuses, Ongoing, guardVars
  <1>6. CASE Become(r, [h EXCEPT !.at = "route"]) /\ UNCHANGED quota
    <2>1. Moves(r)
      BY <1>1, <1>2, <1>6, OnwardMoves DEF Places, Ongoing
    <2>2. QED
      BY <1>2, <1>6, <2>1, QuietStep DEF guardVars
  <1>7. QED
    BY <1>1, <1>4, <1>5, <1>6 DEF ConsumeQuota

(* A provider takes the message of r.                                      *)
LEMMA Sending ==
    ASSUME Inv, NEW r \in Requests, handler[r].at = "route", NEW answered \in BOOLEAN,
           Taken(handler[r], answered)
    PROVE  /\ mail' \in Seq(Message)
           /\ Grows(mail, mail')
           /\ Len(mail) + 1 \in Nat
           /\ answered => SentIn(mail', Len(mail) + 1, handler[r].key)
  <1>1. PICK h \in Handler : h = handler[r] /\ Fine(h, suppressed, mail)
    BY Here
  <1>2. h.ask \in Asks /\ \E d \in Days : h.key = KeyOf(h.ask, d)
    BY <1>1 DEF Fine, HasItsKey
  <1>3. h.key \in Keys
    BY <1>2, AskFacts
  <1> DEFINE m == [ask |-> h.ask, key |-> h.key, answered |-> answered]
  <1>4. m \in Message /\ m.answered = answered /\ m.key = h.key
    BY <1>2, <1>3 DEF Message
  <1>5. mail' = Append(mail, m) /\ mail \in Seq(Message)
    BY <1>1, Here DEF Taken
  <1> HIDE DEF m
  <1>6. QED
    BY <1>1, <1>4, <1>5, NewMessage

LEMMA RoutedInv == \A r \in Requests : Inv /\ Routed(r) => Inv'
  <1> SUFFICES ASSUME NEW r \in Requests, Inv, Routed(r) PROVE Inv'
    OBVIOUS
  <1>1. PICK h \in Handler : h = handler[r] /\ Fine(h, suppressed, mail)
    BY Here
  <1> DEFINE h2 == [h EXCEPT !.at = "emit", !.answer.id = Len(mail) + 1]
  <1>2. /\ h.at = "route" /\ Taken(h, TRUE) /\ Become(r, h2)
        /\ UNCHANGED <<guardVars, replies, day>>
    BY <1>1 DEF Routed
  <1>3. /\ mail' \in Seq(Message) /\ Grows(mail, mail')
        /\ Len(mail) + 1 \in Nat /\ SentIn(mail', Len(mail) + 1, h.key)
    BY <1>1, <1>2, Sending
  <1>4. /\ h2 \in Handler /\ h2.at = "emit" /\ h2.answer.id = Len(mail) + 1
        /\ h2.ask = h.ask /\ h2.key = h.key /\ h2.paid = h.paid
        /\ h2.barred = h.barred /\ h2.unseen = h.unseen
    <2> DEFINE one == [h EXCEPT !.at = "emit"]
               answer == [h.answer EXCEPT !.id = Len(mail) + 1]
    <2>1. one \in Handler
      BY OneField DEF Places, Ongoing
    <2>2. one.answer = h.answer
      BY DEF Handler
    <2>3. answer \in Reply /\ answer.id = Len(mail) + 1
      BY <1>3, HandlerFields, ReplyFacts DEF Reply
    <2>4. h2 = [one EXCEPT !.answer = answer]
      BY <2>2
    <2>5. h2 \in Handler
      BY <2>1, <2>3, <2>4, OneField
    <2>6. QED
      BY <2>3, <2>5 DEF Handler
  <1> HIDE DEF h2
  <1>5. Fine(h2, suppressed, mail')
    BY <1>1, <1>2, <1>3, <1>4, RoutedFine
  <1>6. Moves(r)
    BY <1>1, <1>2, <1>4, <1>5 DEF Moves, guardVars
  <1>7. KeptReal' /\ RepliesReal'
    BY <1>2, <1>3, CachesStay DEF guardVars
  <1>8. QED
    BY <1>2, <1>3, <1>6, <1>7, ServeStep DEF guardVars, Inv, TypeOK

LEMMA NotRoutedInv == \A r \in Requests : Inv /\ NotRouted(r) => Inv'
  <1> SUFFICES ASSUME NEW r \in Requests, Inv, NotRouted(r) PROVE Inv'
    OBVIOUS
  <1> DEFINE h == handler[r]
  <1>1. h.at = "route" /\ UNCHANGED <<guardVars, replies, day>>
    BY DEF NotRouted
  <1>2. ASSUME NEW status \in {410, 500, 502}, End(r, h, status, 0)
        PROVE  Moves(r)
    BY <1>1, <1>2, EndMoves DEF Statuses, Ongoing
  <1>3. mail' = mail \/ Taken(h, FALSE)
    BY DEF NotRouted
  <1>4. mail' \in Seq(Message) /\ Grows(mail, mail')
    <2>1. CASE mail' = mail
      BY <2>1, Here DEF Grows
    <2>2. CASE Taken(h, FALSE)
      BY <1>1, <2>2, Sending
    <2>3. QED
      BY <1>3, <2>1, <2>2
  <1>5. Moves(r)
    <2>1. CASE \E status \in {500, 502} : End(r, h, status, 0)
      BY <1>2, <2>1
    <2>2. CASE End(r, h, 410, 0)
      BY <1>2, <2>2
    <2>3. QED
      BY <2>1, <2>2 DEF NotRouted
  <1>6. KeptReal' /\ RepliesReal'
    BY <1>1, <1>4, CachesStay DEF guardVars
  <1>7. QED
    BY <1>1, <1>4, <1>5, <1>6, ServeStep DEF guardVars, Inv, TypeOK

LEMMA EmitInv == \A r \in Requests : Inv /\ Emit(r) => Inv'
  <1> SUFFICES ASSUME NEW r \in Requests, Inv, Emit(r) PROVE Inv'
    OBVIOUS
  <1>1. Moves(r)
    BY OnwardMoves DEF Emit, Places, Ongoing, guardVars
  <1>2. QED
    BY <1>1, QuietStep DEF Emit

LEMMA CrashInv == \A r \in Requests : Inv /\ Crash(r) => Inv'
  <1> SUFFICES ASSUME NEW r \in Requests, Inv, Crash(r) PROVE Inv'
    OBVIOUS
  <1>1. Moves(r)
    BY OnwardMoves DEF Crash, Places, guardVars
  <1>2. QED
    BY <1>1, QuietStep DEF Crash

LEMMA StoreAndEndInv == \A r \in Requests : Inv /\ StoreAndEnd(r) => Inv'
  <1> SUFFICES ASSUME NEW r \in Requests, Inv, StoreAndEnd(r) PROVE Inv'
    OBVIOUS
  <1> DEFINE h == handler[r]
             response == [id |-> h.answer.id, channel |-> h.ask.channel]
  <1>1. h.at = "store" /\ UNCHANGED <<suppressed, quota, replies, mail, day>>
    BY DEF StoreAndEnd
  <1>2. h.ask \in Asks /\ h.at \in Ongoing /\ mail \in Seq(Message)
    BY <1>1, Here DEF Ongoing
  <1>3. SentIn(mail, h.answer.id, h.key)
    BY <1>1, Here DEF Fine, Truthful
  <1>4. PICK d \in Days : h.key = KeyOf(h.ask, d)
    BY <1>1, Here DEF Fine, HasItsKey
  <1>5. h.answer.id \in Nat \ {0} /\ h.key \in Keys
    BY <1>2, <1>3, <1>4, AskFacts DEF SentIn
  <1>6. SentFor(mail', h.answer.id, h.ask)
    BY <1>1, <1>3, <1>4 DEF SentFor
  <1>7. Moves(r)
    <2>1. CASE End(r, h, 202, h.answer.id)
      <3>1. PICK id \in Nat : id = h.answer.id
        BY <1>5
      <3>2. QED
        BY <1>2, <1>6, <2>1, <3>1, EndMoves DEF Statuses
    <2>2. CASE Raise(r, h)
      BY <1>2, <2>2, RaiseMoves
    <2>3. QED
      BY <2>1, <2>2 DEF StoreAndEnd
  <1>8. response \in Response
    BY <1>2, <1>5, AskFacts DEF Response
  <1>9. kept' \in [Keys -> Response \cup {Nothing}]
        /\ \A k \in Keys : kept'[k] # kept[k] => k = h.key /\ kept'[k] = response
    <2>1. kept \in [Keys -> Response \cup {Nothing}]
      BY DEF Inv, TypeOK
    <2>2. Store(h.key, response) \/ kept' = kept
      BY DEF StoreAndEnd
    <2> HIDE DEF response
    <2>3. CASE kept' = [kept EXCEPT ![h.key] = response]
      BY <1>5, <1>8, <2>1, <2>3
    <2>4. CASE kept' = kept
      BY <2>1, <2>4
    <2>5. QED
      BY <2>2, <2>3, <2>4 DEF Store
  <1>10. KeptReal'
    <2>1. \A k \in Keys : kept'[k] # Nothing => SentIn(mail, kept'[k].id, k)
      <3>1. response.id = h.answer.id
        OBVIOUS
      <3> HIDE DEF response
      <3>2. QED
        BY <1>3, <1>9, <3>1 DEF Inv, KeptReal
    <2>2. QED
      BY <1>1, <2>1 DEF KeptReal
  <1>11. Grows(mail, mail') /\ RepliesReal'
    BY <1>1, CachesStay DEF Grows
  <1>12. QED
    BY <1>1, <1>2, <1>7, <1>9, <1>10, <1>11, ServeStep DEF Inv, TypeOK

LEMMA RememberInv == \A r \in Requests : Inv /\ Remember(r) => Inv'
  <1> SUFFICES ASSUME NEW r \in Requests, Inv, Remember(r) PROVE Inv'
    OBVIOUS
  <1> DEFINE h == handler[r]
  <1>1. h.at = "remember" /\ UNCHANGED <<guardVars, mail, day>>
    BY DEF Remember
  <1>2. h.ask \in Asks /\ h.at \in Ongoing /\ h.answer \in Reply
    BY <1>1, Here, HandlerFields DEF Ongoing
  <1>3. Grows(mail, mail') /\ KeptReal'
    BY <1>1, CachesStay DEF Grows, guardVars
  <1>4. CASE /\ replies' = [replies EXCEPT ![h.ask] = h.answer]
             /\ Become(r, [h EXCEPT !.at = "answered"])
    <2>1. Moves(r)
      BY <1>1, <1>4, OnwardMoves DEF Places, guardVars
    <2>2. replies' \in [Asks -> Reply \cup {Nothing}]
      BY <1>2, <1>4 DEF Inv, TypeOK
    <2>3. h.answer.status = 202 => SentFor(mail, h.answer.id, h.ask)
      BY <1>1, Here DEF Fine, Truthful
    <2>4. \A a \in Asks : replies'[a] # Nothing /\ replies'[a].status = 202 =>
              SentFor(mail, replies'[a].id, a)
      <3>1. TAKE a \in Asks
      <3>2. CASE a = h.ask
        BY <1>2, <1>4, <2>3, <3>2 DEF Inv, TypeOK
      <3>3. CASE a # h.ask
        BY <1>2, <1>4, <3>3 DEF Inv, TypeOK, RepliesReal
      <3>4. QED
        BY <3>2, <3>3
    <2>5. RepliesReal'
      BY <1>1, <2>4 DEF RepliesReal
    <2>6. QED
      BY <1>1, <1>3, <2>1, <2>2, <2>5, ServeStep DEF Inv, TypeOK, guardVars
  <1>5. CASE /\ Become(r, [h EXCEPT !.at = "answered", !.answer = NoReply])
             /\ UNCHANGED replies
    <2>1. PICK answer \in Reply : answer = NoReply /\ answer.status # 202
      BY ReplyFacts DEF NoReply
    <2>2. Become(r, [h EXCEPT !.at = "answered", !.answer = answer])
      BY <1>5, <2>1
    <2>3. Moves(r)
      BY <1>2, <2>1, <2>2, AnswerMoves
    <2>4. QED
      BY <1>1, <1>5, <2>3, QuietStep
  <1>6. QED
    BY <1>4, <1>5 DEF Remember

LEMMA ServeInv == \A r \in Requests : Inv /\ Serve(r) => Inv'
  BY LookupInv, GuardInv, CheckInv, ConsumeQuotaInv, RoutedInv, NotRoutedInv,
     EmitInv, StoreAndEndInv, RememberInv DEF Serve

(* What does not concern the requests.                                     *)
LEMMA NobodyMoves ==
    ASSUME Inv, UNCHANGED <<quota, handler, mail>>, suppressed \subseteq suppressed'
    PROVE  HandlersFine' /\ QuotaConserved'
  <1>1. handler \in [Requests -> Handler] /\ mail \in Seq(Message)
    BY DEF Inv, TypeOK
  <1>2. \A r \in Requests : Fine(handler[r], suppressed', mail')
    BY <1>1, FineStays DEF Inv, HandlersFine, Grows
  <1>3. HandlersFine'
    BY <1>2 DEF HandlersFine
  <1>4. \A t, c : Payers(t, c)' = Payers(t, c)
    BY DEF Payers
  <1>5. QED
    BY <1>3, <1>4 DEF Inv, QuotaConserved

LEMMA ExpireInv == Inv /\ (ExpireKept \/ ExpireReply) => Inv'
  <1> SUFFICES ASSUME Inv, ExpireKept \/ ExpireReply PROVE Inv'
    OBVIOUS
  <1>1. UNCHANGED <<suppressed, quota, handler, mail, day>>
    BY DEF ExpireKept, ExpireReply, Expire, guardVars
  <1>2. HandlersFine' /\ QuotaConserved' /\ Grows(mail, mail')
    BY <1>1, NobodyMoves DEF Grows
  <1>3. CASE ExpireKept
    <2>1. PICK key \in Keys : kept' = [kept EXCEPT ![key] = Nothing]
      BY <1>3 DEF ExpireKept, Expire
    <2>2. kept' \in [Keys -> Response \cup {Nothing}]
      BY <2>1 DEF Inv, TypeOK
    <2>3. KeptReal'
      BY <1>1, <2>1 DEF Inv, TypeOK, KeptReal
    <2>4. UNCHANGED replies /\ RepliesReal'
      BY <1>2, <1>3, CachesStay DEF ExpireKept
    <2>5. QED
      BY <1>1, <1>2, <2>2, <2>3, <2>4 DEF Inv, TypeOK
  <1>4. CASE ExpireReply
    <2>1. PICK ask \in Asks : replies' = [replies EXCEPT ![ask] = Nothing]
      BY <1>4 DEF ExpireReply
    <2>2. replies' \in [Asks -> Reply \cup {Nothing}]
      BY <2>1 DEF Inv, TypeOK
    <2>3. RepliesReal'
      BY <1>1, <2>1 DEF Inv, TypeOK, RepliesReal
    <2>4. UNCHANGED kept /\ KeptReal'
      BY <1>2, <1>4, CachesStay DEF ExpireReply, guardVars
    <2>5. QED
      BY <1>1, <1>2, <2>2, <2>3, <2>4 DEF Inv, TypeOK
  <1>5. QED
    BY <1>3, <1>4

LEMMA OptOutInv ==
    \A tenant \in Tenants, address \in Addresses : Inv /\ OptOut(tenant, address) => Inv'
  <1> SUFFICES ASSUME NEW tenant \in Tenants, NEW address \in Addresses,
                      Inv, OptOut(tenant, address)
               PROVE  Inv'
    OBVIOUS
  <1>1. UNCHANGED <<quota, kept, handler, replies, mail, day>>
    BY DEF OptOut
  <1>2. suppressed \subseteq suppressed' /\ suppressed' \subseteq Contacts
    BY DEF OptOut, Inv, TypeOK
  <1>3. HandlersFine' /\ QuotaConserved'
    BY <1>1, <1>2, NobodyMoves
  <1>4. KeptReal' /\ RepliesReal'
    BY <1>1, CachesStay DEF Grows
  <1>5. QED
    BY <1>1, <1>2, <1>3, <1>4 DEF Inv, TypeOK

(* An entry ends, and with it what it barred.                              *)
LEMMA Lapsed ==
    ASSUME NEW S, NEW M, NEW h \in Handler, Fine(h, S, M), NEW tenant, NEW address,
           NEW h2 \in Handler,
           h2.at = h.at, h2.ask = h.ask, h2.key = h.key, h2.checked = h.checked,
           h2.unseen = h.unseen, h2.paid = h.paid, h2.answer = h.answer,
           h2.barred \subseteq h.barred,
           h.at # "idle" /\ h.ask.tenant = tenant => address \notin h2.barred
    PROVE  Fine(h2, S \ {<<tenant, address>>}, M)
  BY DEF Fine, HasItsKey, Unpaid, Counts, BarredAhead, PassedUnseen, Cleared, Truthful

LEMMA LapseInv ==
    \A tenant \in Tenants, address \in Addresses : Inv /\ Lapse(tenant, address) => Inv'
  <1> SUFFICES ASSUME NEW tenant \in Tenants, NEW address \in Addresses,
                      Inv, Lapse(tenant, address)
               PROVE  Inv'
    OBVIOUS
  <1> DEFINE S == suppressed \ {<<tenant, address>>}
  <1>1. suppressed' = S /\ UNCHANGED <<quota, kept, replies, mail, day>>
    BY DEF Lapse
  <1>2. ASSUME NEW r \in Requests
        PROVE  /\ handler'[r] \in Handler
               /\ Fine(handler'[r], S, mail)
               /\ handler'[r].paid = handler[r].paid
               /\ handler'[r].ask = handler[r].ask
    <2>1. PICK h \in Handler : h = handler[r] /\ Fine(h, suppressed, mail)
      BY Here
    <2> DEFINE h2 == [h EXCEPT !.barred = h.barred \ {address}]
    <2>2. handler'[r] = IF h.at # "idle" /\ h.ask.tenant = tenant THEN h2 ELSE h
      BY <2>1 DEF Lapse
    <2>3. h.barred \ {address} \in SUBSET Addresses
      BY HandlerFields
    <2>4. h2 \in Handler
      BY <2>3, OneField
    <2>5. /\ h2.at = h.at /\ h2.ask = h.ask /\ h2.key = h.key
          /\ h2.checked = h.checked /\ h2.unseen = h.unseen /\ h2.paid = h.paid
          /\ h2.answer = h.answer /\ h2.barred = h.barred \ {address}
      BY DEF Handler
    <2> HIDE DEF h2
    <2>6. CASE h.at # "idle" /\ h.ask.tenant = tenant
      <3>1. h2.barred \subseteq h.barred /\ address \notin h2.barred
        BY <2>5
      <3>2. Fine(h2, S, mail)
        BY <2>1, <2>4, <2>5, <3>1, Lapsed
      <3>3. QED
        BY <2>1, <2>2, <2>4, <2>5, <2>6, <3>2
    <2>7. CASE ~(h.at # "idle" /\ h.ask.tenant = tenant)
      BY <2>1, <2>2, <2>7, Lapsed
    <2>8. QED
      BY <2>6, <2>7
  <1>3. handler' \in [Requests -> Handler]
    <2>1. handler' = [r \in Requests |-> handler'[r]]
      BY DEF Lapse
    <2>2. QED
      BY <1>2, <2>1
  <1>4. HandlersFine'
    BY <1>1, <1>2 DEF HandlersFine
  <1>5. QuotaConserved'
    <2>1. \A t, c : Payers(t, c)' = Payers(t, c)
      BY <1>2 DEF Payers
    <2>2. QED
      BY <1>1, <2>1 DEF Inv, QuotaConserved
  <1>6. KeptReal' /\ RepliesReal'
    BY <1>1, CachesStay DEF Grows
  <1>7. QED
    BY <1>1, <1>3, <1>4, <1>5, <1>6 DEF Inv, TypeOK

LEMMA MidnightInv == Inv /\ Midnight => Inv'
  <1> SUFFICES ASSUME Inv, Midnight PROVE Inv'
    OBVIOUS
  <1>1. UNCHANGED <<guardVars, handler, replies, mail>> /\ day' \in Days
    BY DEF Midnight
  <1>2. HandlersFine' /\ QuotaConserved'
    BY <1>1, NobodyMoves DEF guardVars
  <1>3. KeptReal' /\ RepliesReal'
    BY <1>1, CachesStay DEF Grows, guardVars
  <1>4. QED
    BY <1>1, <1>2, <1>3 DEF Inv, TypeOK, guardVars
-----------------------------------------------------------------------------

LEMMA InitInv == Init => Inv
  <1> SUFFICES ASSUME Init PROVE Inv
    OBVIOUS
  <1> USE DEF Init, GuardInit
  <1>1. quota \in [Organisations \X Channels -> 0..MonthlyQuota]
    BY GuardAssumption
  <1>2. TypeOK
    BY <1>1, NewHandlerType DEF TypeOK
  <1>3. HandlersFine
    BY NewHandlerFine DEF HandlersFine
  <1>4. \A t, c : Payers(t, c) = {}
    BY DEF Payers, NewHandler
  <1>5. QuotaConserved
    <2>1. Cardinality({}) = 0
      BY FS_EmptySet
    <2>2. ASSUME NEW tc \in Organisations \X Channels
          PROVE  quota[tc] + Cardinality(Payers(tc[1], tc[2])) = MonthlyQuota
      <3>1. quota[tc] = MonthlyQuota
        OBVIOUS
      <3>2. Cardinality(Payers(tc[1], tc[2])) = 0
        BY <1>4, <2>1
      <3>3. QED
        BY <3>1, <3>2, GuardAssumption
    <2>3. QED
      BY <2>2 DEF QuotaConserved
  <1>6. KeptReal /\ RepliesReal
    BY DEF KeptReal, RepliesReal
  <1>7. QED
    BY <1>2, <1>3, <1>5, <1>6 DEF Inv

LEMMA InvStep == Inv /\ [Next]_vars => Inv'
  <1> SUFFICES ASSUME Inv, [Next]_vars PROVE Inv'
    OBVIOUS
  <1>1. ASSUME NEW r \in Requests,
               Serve(r) \/ Crash(r) \/ \E ask \in Asks : Arrive(r, ask)
        PROVE  Inv'
    BY <1>1, ServeInv, CrashInv, ArriveInv
  <1>2. ASSUME NEW tenant \in Tenants, NEW address \in Addresses,
               OptOut(tenant, address) \/ Lapse(tenant, address)
        PROVE  Inv'
    BY <1>2, OptOutInv, LapseInv
  <1>3. CASE ExpireKept \/ ExpireReply
    BY <1>3, ExpireInv
  <1>4. CASE Midnight
    BY <1>4, MidnightInv
  <1>5. CASE UNCHANGED vars
    <2>1. UNCHANGED <<suppressed, quota, kept, handler, replies, mail, day>>
      BY <1>5 DEF vars, guardVars
    <2>2. HandlersFine' /\ QuotaConserved'
      BY <2>1, NobodyMoves
    <2>3. KeptReal' /\ RepliesReal'
      BY <2>1, CachesStay DEF Grows
    <2>4. QED
      BY <2>1, <2>2, <2>3 DEF Inv, TypeOK
  <1>6. QED
    BY <1>1, <1>2, <1>3, <1>4, <1>5 DEF Next

(* The invariant of the canonical send.                                    *)
THEOREM SendInvariant == Spec => []Inv
  <1>1. QED
    BY InitInv, InvStep, PTL DEF Spec

(* Type correctness; in particular no quota goes below zero.               *)
THEOREM SendTypeCorrect == Spec => []TypeOK
  <1>1. Inv => TypeOK
    BY DEF Inv
  <1>2. QED
    BY <1>1, SendInvariant, PTL

(* However many requests overlap, fail or die, each unit that left a quota *)
(* was taken for exactly one of them (check_and_consume_quota).            *)
THEOREM QuotaIsConserved == Spec => []QuotaConserved
  <1>1. Inv => QuotaConserved
    BY DEF Inv
  <1>2. QED
    BY <1>1, SendInvariant, PTL

(* A recipient who opted out before the request came, and stays opted out, *)
(* gets past ensure_not_suppressed only through a failed lookup.           *)
THEOREM OptOutsAreRespected == Spec => []OptOutRespected
  <1>1. Inv => OptOutRespected
    BY DEF Inv, HandlersFine, Fine, Cleared, OptOutRespected
  <1>2. QED
    BY <1>1, SendInvariant, PTL

(* Whatever is kept for a replay, and every 202, names a message that a    *)
(* provider took under the key of the request.                             *)
THEOREM RepliesAreReal == Spec => []ReplayIsReal
  <1>1. Inv => ReplayIsReal
    <2> SUFFICES ASSUME Inv PROVE ReplayIsReal
      OBVIOUS
    <2>1. \A id, key : Sent(id, key) <=> SentIn(mail, id, key)
      BY DEF Sent, SentIn
    <2>2. \A k \in Keys : kept[k] # Nothing => Sent(kept[k].id, k)
      BY <2>1 DEF Inv, KeptReal
    <2>3. \A a \in Asks : replies[a] # Nothing /\ replies[a].status = 202 =>
              \E d \in Days : Sent(replies[a].id, KeyOf(a, d))
      BY <2>1 DEF Inv, RepliesReal, SentFor
    <2>4. \A r \in Requests :
              handler[r].at \in {"remember", "answered"}
              /\ handler[r].answer.status = 202 =>
                  \E d \in Days : Sent(handler[r].answer.id, KeyOf(handler[r].ask, d))
      BY <2>1 DEF Inv, HandlersFine, Fine, Truthful, SentFor
    <2>5. QED
      BY <2>2, <2>3, <2>4 DEF ReplayIsReal
  <1>2. QED
    BY <1>1, SendInvariant, PTL

(* Only a handler that stores its response and the end of its 24 hours     *)
(* change what is kept, the first nothing that is kept already.            *)
LEMMA KeptUntilItExpires ==
    ASSUME TypeOK, Next, NEW k \in Keys, kept[k] # Nothing
    PROVE  kept'[k] \in {kept[k], Nothing}
  <1>1. kept \in [Keys -> Response \cup {Nothing}]
    BY DEF TypeOK
  <1>2. ASSUME NEW r \in Requests, StoreAndEnd(r)
        PROVE  kept'[k] = kept[k]
    <2>1. \/ UNCHANGED kept
          \/ \E response : Store(handler[r].key, response)
      BY <1>2 DEF StoreAndEnd
    <2>2. ASSUME NEW response, Store(handler[r].key, response)
          PROVE  kept'[k] = kept[k]
      BY <1>1, <2>2 DEF Store
    <2>3. QED
      BY <2>1, <2>2
  <1>3. ASSUME NEW r \in Requests, Serve(r)
        PROVE  kept'[k] = kept[k]
    BY <1>2, <1>3 DEF Serve, Lookup, Guard, CheckSuppression, ConsumeQuota, Routed,
                      NotRouted, Emit, Remember, guardVars
  <1>4. ASSUME NEW r \in Requests, Crash(r) \/ \E ask \in Asks : Arrive(r, ask)
        PROVE  kept'[k] = kept[k]
    BY <1>4 DEF Crash, Arrive, guardVars
  <1>5. CASE \E tenant \in Tenants, address \in Addresses :
                 OptOut(tenant, address) \/ Lapse(tenant, address)
    BY <1>5 DEF OptOut, Lapse
  <1>6. CASE ExpireKept
    BY <1>1, <1>6 DEF ExpireKept, Expire
  <1>7. CASE ExpireReply \/ Midnight
    BY <1>7 DEF ExpireReply, Midnight, guardVars
  <1>8. QED
    BY <1>3, <1>4, <1>5, <1>6, <1>7 DEF Next

(* What is kept under a key for replays stays the same for as long as it   *)
(* is kept, however many sends under that key finish and in which order.   *)
THEOREM ReplaysStayTheSame == Spec => ReplaysAgree
  <1>1. TypeOK /\ [Next]_vars =>
            [\A k \in Keys : kept[k] # Nothing => kept'[k] \in {kept[k], Nothing}]_vars
    BY KeptUntilItExpires
  <1>2. Spec => []TypeOK
    BY SendTypeCorrect
  <1>3. QED
    BY <1>1, <1>2, PTL DEF Spec, ReplaysAgree
=============================================================================
