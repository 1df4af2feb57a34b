------------------------ MODULE ProviderRoutersProofs ------------------------
(***************************************************************************)
(* Theorems about ProviderRouters, for any routes, any number of calls     *)
(* under way, any threshold and any reset time.                            *)
(***************************************************************************)
EXTENDS ProviderRouters, TLAPS

Sound(cb) == cb \in Circuit /\ (cb.state = "closed" <=> cb.failures < Threshold)

Accounted(cl) == cl.taken = cl.lost + (IF cl.at = "routed" THEN 1 ELSE 0)

OnRoute(cl) == cl.at = "waiting" =>
                   cl.route \in Routes /\ cl.leg \in 1..Len(cl.route)

CircuitsSound == circuit \in [Providers -> Circuit]
                 /\ \A p \in Providers : Sound(circuit[p])

CallsSound == call \in [Calls -> CallType]
              /\ \A c \in Calls : Accounted(call[c]) /\ OnRoute(call[c])

Inv == CircuitsSound /\ CallsSound

(* Each method of a circuit keeps its counter and its state in agreement.  *)
LEMMA CircuitMethods ==
    ASSUME NEW cb, Sound(cb)
    PROVE  /\ Sound(Asked(cb))
           /\ Sound(Succeeded(cb))
           /\ Sound(Failed(cb))
           /\ Sound(Older(cb))
  <1> USE CircuitAssumption DEF Sound, Circuit, Due
  <1>1. Sound(Asked(cb))
    <2>1. CASE cb.state = "open" /\ Due(cb)
      <3>1. Asked(cb) = [cb EXCEPT !.state = "half_open", !.age = 0]
        BY <2>1 DEF Asked
      <3>2. 0 \in 0..ResetAfter /\ cb.failures \in 0..Threshold
        OBVIOUS
      <3>3. Asked(cb) = [state |-> "half_open", failures |-> cb.failures, age |-> 0]
        BY <3>1
      <3>4. ~(cb.failures < Threshold)
        BY <2>1
      <3>5. QED
        BY <3>2, <3>3, <3>4
    <2>2. CASE ~(cb.state = "open" /\ Due(cb))
      BY <2>2 DEF Asked
    <2>3. QED
      BY <2>1, <2>2
  <1>2. Sound(Succeeded(cb))
    BY DEF Succeeded, NewCircuit
  <1>3. Sound(Failed(cb))
    BY DEF Failed
  <1>4. Sound(Older(cb))
    BY DEF Older
  <1>5. QED
    BY <1>1, <1>2, <1>3, <1>4

(* A call with some of its fields changed, field by field.                 *)
LEMMA CallWithAt ==
    ASSUME NEW cl \in CallType, NEW at
    PROVE  [cl EXCEPT !.at = at] =
               [at |-> at, route |-> cl.route, leg |-> cl.leg,
                taken |-> cl.taken, lost |-> cl.lost]
  BY DEF CallType

LEMMA CallWithLeg ==
    ASSUME NEW cl \in CallType, NEW at, NEW leg
    PROVE  [cl EXCEPT !.at = at, !.leg = leg] =
               [at |-> at, route |-> cl.route, leg |-> leg,
                taken |-> cl.taken, lost |-> cl.lost]
  <1> DEFINE mid == [cl EXCEPT !.at = at]
  <1>1. mid = [at |-> at, route |-> cl.route, leg |-> cl.leg,
               taken |-> cl.taken, lost |-> cl.lost]
    BY CallWithAt
  <1>2. [cl EXCEPT !.at = at, !.leg = leg] = [mid EXCEPT !.leg = leg]
    BY Zenon
  <1> HIDE DEF mid
  <1>3. QED
    BY <1>1, <1>2

LEMMA CallWithCounts ==
    ASSUME NEW cl \in CallType, NEW n
    PROVE  [cl EXCEPT !.taken = @ + n, !.lost = @ + n] =
               [at |-> cl.at, route |-> cl.route, leg |-> cl.leg,
                taken |-> cl.taken + n, lost |-> cl.lost + n]
  <1> DEFINE mid == [cl EXCEPT !.taken = @ + n]
  <1>1. mid = [at |-> cl.at, route |-> cl.route, leg |-> cl.leg,
               taken |-> cl.taken + n, lost |-> cl.lost]
    BY DEF CallType
  <1>2. [cl EXCEPT !.taken = @ + n, !.lost = @ + n] =
            [mid EXCEPT !.lost = cl.lost + n]
    BY <1>1
  <1> HIDE DEF mid
  <1>3. QED
    BY <1>1, <1>2

LEMMA CallTaken ==
    ASSUME NEW cl \in CallType, NEW at, NEW n
    PROVE  [cl EXCEPT !.at = at, !.taken = @ + n] =
               [at |-> at, route |-> cl.route, leg |-> cl.leg,
                taken |-> cl.taken + n, lost |-> cl.lost]
  <1> DEFINE mid == [cl EXCEPT !.at = at]
  <1>1. mid = [at |-> at, route |-> cl.route, leg |-> cl.leg,
               taken |-> cl.taken, lost |-> cl.lost]
    BY CallWithAt
  <1>2. [cl EXCEPT !.at = at, !.taken = @ + n] = [mid EXCEPT !.taken = cl.taken + n]
    BY <1>1
  <1> HIDE DEF mid
  <1>3. QED
    BY <1>1, <1>2

LEMMA CallLost ==
    ASSUME NEW cl \in CallType, NEW at, NEW n
    PROVE  [cl EXCEPT !.at = at, !.taken = @ + n, !.lost = @ + n] =
               [at |-> at, route |-> cl.route, leg |-> cl.leg,
                taken |-> cl.taken + n, lost |-> cl.lost + n]
  <1> DEFINE mid == [cl EXCEPT !.at = at, !.taken = @ + n]
  <1>1. mid = [at |-> at, route |-> cl.route, leg |-> cl.leg,
               taken |-> cl.taken + n, lost |-> cl.lost]
    BY CallTaken
  <1>2. [cl EXCEPT !.at = at, !.taken = @ + n, !.lost = @ + n] =
            [mid EXCEPT !.lost = cl.lost + n]
    BY <1>1
  <1> HIDE DEF mid
  <1>3. QED
    BY <1>1, <1>2

(* What a call may become.                                                 *)
LEMMA CallChanges ==
    ASSUME NEW cl \in CallType, cl.route \in Routes, cl.taken = cl.lost
    PROVE  /\ [cl EXCEPT !.at = "refused"] \in CallType
           /\ Accounted([cl EXCEPT !.at = "refused"])
           /\ OnRoute([cl EXCEPT !.at = "refused"])
           /\ \A i \in 1..Len(cl.route) :
                  /\ [cl EXCEPT !.at = "waiting", !.leg = i] \in CallType
                  /\ Accounted([cl EXCEPT !.at = "waiting", !.leg = i])
                  /\ OnRoute([cl EXCEPT !.at = "waiting", !.leg = i])
  <1>1. /\ [cl EXCEPT !.at = "refused"] \in CallType
        /\ Accounted([cl EXCEPT !.at = "refused"])
        /\ OnRoute([cl EXCEPT !.at = "refused"])
    BY DEF CallType, Ends, Accounted, OnRoute
  <1>2. ASSUME NEW i \in 1..Len(cl.route)
        PROVE  /\ [cl EXCEPT !.at = "waiting", !.leg = i] \in CallType
               /\ Accounted([cl EXCEPT !.at = "waiting", !.leg = i])
               /\ OnRoute([cl EXCEPT !.at = "waiting", !.leg = i])
    <2> DEFINE new == [cl EXCEPT !.at = "waiting", !.leg = i]
    <2>1. new = [at |-> "waiting", route |-> cl.route, leg |-> i,
                 taken |-> cl.taken, lost |-> cl.lost]
      BY CallWithLeg
    <2>2. cl.taken \in Nat /\ cl.lost \in Nat /\ i \in Nat
      BY DEF CallType
    <2>3. new \in CallType
      BY <2>1, <2>2 DEF CallType
    <2>4. Accounted(new)
      BY <2>1, <2>2 DEF Accounted
    <2>5. OnRoute(new)
      BY <2>1 DEF OnRoute
    <2>6. QED
      BY <2>3, <2>4, <2>5
  <1>3. QED
    BY <1>1, <1>2

(* Advance, given a call nobody has answered and sound circuits.           *)
LEMMA AdvanceKeeps ==
    ASSUME Inv, NEW c \in Calls,
           NEW cl \in CallType, cl.route \in Routes, cl.taken = cl.lost,
           NEW cbs \in [Providers -> Circuit], \A p \in Providers : Sound(cbs[p]),
           Advance(c, cl, cbs)
    PROVE  Inv'
  <1> USE DEF Inv, CircuitsSound, CallsSound
  <1>1. cl.route \in Seq(Providers) /\ cl.leg \in Nat
    BY RouterAssumption DEF CallType
  <1>2. CASE /\ call' = [call EXCEPT ![c] = [cl EXCEPT !.at = "refused"]]
             /\ circuit' = cbs
    BY <1>2, CallChanges
  <1>3. ASSUME NEW i \in cl.leg + 1 .. Len(cl.route),
               call' = [call EXCEPT ![c] = [cl EXCEPT !.at = "waiting", !.leg = i]],
               circuit' = [cbs EXCEPT ![cl.route[i]] = Asked(@)]
        PROVE  Inv'
    <2>1. i \in 1..Len(cl.route) /\ cl.route[i] \in Providers
      BY <1>1
    <2>2. Sound(Asked(cbs[cl.route[i]]))
      BY <2>1, CircuitMethods
    <2>3. CircuitsSound'
      BY <1>3, <2>1, <2>2 DEF Sound
    <2>4. CallsSound'
      BY <1>3, <2>1, CallChanges
    <2>5. QED
      BY <2>3, <2>4
  <1>4. QED
    BY <1>2, <1>3 DEF Advance

LEMMA SettingACircuit ==
    ASSUME CircuitsSound, NEW p \in Providers, NEW cb, Sound(cb)
    PROVE  /\ [circuit EXCEPT ![p] = cb] \in [Providers -> Circuit]
           /\ \A q \in Providers : Sound([circuit EXCEPT ![p] = cb][q])
  BY DEF CircuitsSound, Sound

LEMMA WaitingCall ==
    ASSUME Inv, NEW c \in Calls, call[c].at = "waiting"
    PROVE  /\ call[c] \in CallType
           /\ call[c].route \in Routes
           /\ call[c].taken = call[c].lost
           /\ call[c].taken \in Nat
           /\ ProviderOf(c) \in Providers
  <1>1. /\ call[c] \in CallType
        /\ call[c].route \in Routes
        /\ call[c].leg \in 1..Len(call[c].route)
    BY DEF Inv, CallsSound, OnRoute
  <1>2. call[c].route \in Seq(Providers)
    BY <1>1, RouterAssumption
  <1>3. call[c].taken = call[c].lost /\ call[c].taken \in Nat
    BY <1>1 DEF Inv, CallsSound, Accounted, CallType
  <1>4. QED
    BY <1>1, <1>2, <1>3 DEF ProviderOf

(* A reply that a router hears: what it adds to the counters, and that a   *)
(* result has a delivering status exactly if the message was taken.        *)
LEMMA RepliesSound ==
    ASSUME NEW p \in Providers, NEW reply \in RepliesOf(p)
    PROVE  /\ reply.took \in 0..1
           /\ StatusOf(p, reply) # "raised" =>
                  reply.took = IF StatusOf(p, reply) \in Delivering THEN 1 ELSE 0
  <1> DEFINE said == reply.said
             took == reply.took
  <1>1. p \in Adapters
    BY AdapterAssumption
  <1>2. /\ took \in 0..1
        /\ said \in {"accepted", "unreadable"} => took = 1
        /\ said \in {"bad_token", "no_request", "no_access"} => took = 0
    <2>1. \/ reply \in CommonReplies
          \/ reply \in {Reply("declined", 0), Reply("bad_token", 0),
                        Reply("no_request", 0)} \cup AccessReplies
      BY <1>1 DEF RepliesOf, Adapters, PostalReplies, ResendReplies, ZenviaReplies,
                  ApnsReplies, FcmReplies
    <2>2. CASE reply \in CommonReplies
      BY <2>2 DEF CommonReplies, Reply
    <2>3. CASE reply \in {Reply("declined", 0), Reply("bad_token", 0),
                          Reply("no_request", 0)} \cup AccessReplies
      BY <2>3 DEF AccessReplies, Reply
    <2>4. QED
      BY <2>1, <2>2, <2>3
  <1>3. StatusOf(p, reply) # "raised" =>
            IF StatusOf(p, reply) \in Delivering
            THEN said \in {"accepted", "unreadable"}
            ELSE said \in {"bad_token", "no_request", "no_access"}
    <2> USE DEF Delivering, StatusOf, PostalAdapter, ResendAdapter, ZenviaAdapter,
               ApnsAdapter, FcmAdapter
    <2>1. CASE p = "postal"
      BY <2>1 DEF PostalSend
    <2>2. CASE p = "resend"
      BY <2>2 DEF ResendSend
    <2>3. CASE p = "zenvia"
      BY <2>3 DEF ZenviaSend
    <2>4. CASE p = "apns"
      BY <2>4 DEF ApnsSend
    <2>5. CASE p = "fcm"
      BY <2>5 DEF FcmSend
    <2>6. QED
      BY <1>1, <2>1, <2>2, <2>3, <2>4, <2>5 DEF Adapters
  <1>4. QED
    BY <1>2, <1>3

LEMMA InitInv == Init => Inv
  <1> SUFFICES ASSUME Init PROVE Inv
    OBVIOUS
  <1>1. Sound(NewCircuit) /\ NewCircuit \in Circuit
    BY CircuitAssumption DEF Sound, NewCircuit, Circuit
  <1>2. IdleCall \in CallType /\ Accounted(IdleCall) /\ OnRoute(IdleCall)
    BY DEF IdleCall, CallType, Accounted, OnRoute
  <1>3. QED
    BY <1>1, <1>2 DEF Init, Inv, CircuitsSound, CallsSound

LEMMA InvStep == Inv /\ [Next]_vars => Inv'
  <1> SUFFICES ASSUME Inv, [Next]_vars PROVE Inv'
    OBVIOUS
  <1>1. ASSUME NEW c \in Calls, NEW route \in Routes, Send(c, route) PROVE Inv'
    <2> DEFINE cl == [IdleCall EXCEPT !.route = route]
    <2>1. cl \in CallType /\ cl.route \in Routes /\ cl.taken = cl.lost
      BY DEF IdleCall, CallType
    <2>2. Advance(c, cl, circuit)
      BY <1>1 DEF Send
    <2>3. QED
      BY <2>1, <2>2, AdvanceKeeps DEF Inv, CircuitsSound
  <1>2. ASSUME NEW c \in Calls, NEW reply, Answered(c, reply) PROVE Inv'
    <2>1. call[c].at = "waiting" /\ reply \in RepliesOf(ProviderOf(c))
      BY <1>2 DEF Answered, Hears
    <2>2. Sound(Succeeded(circuit[ProviderOf(c)]))
      BY <2>1, WaitingCall, CircuitMethods DEF Inv, CircuitsSound
    <2>3. CircuitsSound'
      <3>1. circuit' = [circuit EXCEPT ![ProviderOf(c)] =
                            Succeeded(circuit[ProviderOf(c)])]
        BY <1>2 DEF Answered
      <3>2. QED
        BY <2>1, <2>2, <3>1, WaitingCall, SettingACircuit DEF Inv, CircuitsSound
    <2>4. CallsSound'
      <3> DEFINE n == reply.took
                 at == IF Status(c, reply) \in Delivering THEN "routed" ELSE "skipped"
                 cl == [call[c] EXCEPT !.at = at, !.taken = @ + n]
      <3>1. cl \in CallType /\ Accounted(cl) /\ OnRoute(cl)
        <4>1. /\ call[c] \in CallType
              /\ call[c].taken = call[c].lost
              /\ call[c].taken \in Nat
          BY <2>1, WaitingCall
        <4>2. cl = [at |-> at, route |-> call[c].route, leg |-> call[c].leg,
                    taken |-> call[c].taken + n, lost |-> call[c].lost]
          BY <4>1, CallTaken
        <4>7. n \in 0..1 /\ n = IF at = "routed" THEN 1 ELSE 0
          BY <1>2, <2>1, WaitingCall, RepliesSound DEF Answered, Status
        <4>8. at \in {"routed", "skipped"}
          OBVIOUS
        <4> HIDE DEF n, at
        <4>3. cl \in CallType
          BY <4>1, <4>2, <4>7, <4>8 DEF CallType, Ends
        <4>4. Accounted(cl)
          BY <4>1, <4>2, <4>7, <4>8 DEF Accounted
        <4>5. OnRoute(cl)
          BY <4>2, <4>8 DEF OnRoute
        <4>6. QED
          BY <4>3, <4>4, <4>5
      <3>2. call' = [call EXCEPT ![c] = cl]
        BY <1>2 DEF Answered
      <3>3. QED
        BY <3>1, <3>2 DEF Inv, CallsSound
    <2>5. QED
      BY <2>3, <2>4 DEF Inv
  <1>3. ASSUME NEW c \in Calls, NEW reply, Errs(c, reply) PROVE Inv'
    <2> DEFINE taken == reply.took
               cl == [call[c] EXCEPT !.taken = @ + taken, !.lost = @ + taken]
               cbs == [circuit EXCEPT ![ProviderOf(c)] = Failed(@)]
    <2>1. call[c].at = "waiting" /\ reply \in RepliesOf(ProviderOf(c))
      BY <1>3 DEF Errs, Hears
    <2>2. Sound(Failed(circuit[ProviderOf(c)]))
      BY <2>1, WaitingCall, CircuitMethods DEF Inv, CircuitsSound
    <2>3. cbs \in [Providers -> Circuit] /\ \A p \in Providers : Sound(cbs[p])
      BY <2>1, <2>2, WaitingCall, SettingACircuit DEF Inv
    <2>4. cl \in CallType /\ cl.route \in Routes /\ cl.taken = cl.lost
      <3>1. /\ call[c] \in CallType
            /\ call[c].route \in Routes
            /\ call[c].taken = call[c].lost
            /\ call[c].taken \in Nat
        BY <2>1, WaitingCall
      <3>2. cl = [at |-> call[c].at, route |-> call[c].route, leg |-> call[c].leg,
                  taken |-> call[c].taken + taken, lost |-> call[c].lost + taken]
        BY <3>1, CallWithCounts
      <3>3. taken \in 0..1
        BY <2>1, WaitingCall, RepliesSound
      <3> HIDE DEF taken
      <3>4. QED
        BY <3>1, <3>2, <3>3 DEF CallType
    <2>5. Advance(c, cl, cbs)
      BY <1>3 DEF Errs
    <2> HIDE DEF cl, cbs
    <2>6. QED
      BY <2>3, <2>4, <2>5, AdvanceKeeps
  <1>4. ASSUME NEW c \in Calls, NEW reply, Escapes(c, reply) PROVE Inv'
    <2> DEFINE taken == reply.took
               cl == [call[c] EXCEPT !.at = "raised", !.taken = @ + taken,
                                     !.lost = @ + taken]
    <2>1. call[c].at = "waiting" /\ reply \in RepliesOf(ProviderOf(c))
      BY <1>4 DEF Escapes, Hears
    <2>2. cl \in CallType /\ Accounted(cl) /\ OnRoute(cl)
      <3>1. /\ call[c] \in CallType
            /\ call[c].taken = call[c].lost
            /\ call[c].taken \in Nat
        BY <2>1, WaitingCall
      <3>2. cl = [at |-> "raised", route |-> call[c].route, leg |-> call[c].leg,
                  taken |-> call[c].taken + taken, lost |-> call[c].lost + taken]
        BY <3>1, CallLost
      <3>7. taken \in 0..1
        BY <2>1, WaitingCall, RepliesSound
      <3> HIDE DEF taken
      <3>3. cl \in CallType
        BY <3>1, <3>2, <3>7 DEF CallType, Ends
      <3>4. Accounted(cl)
        BY <3>1, <3>2, <3>7 DEF Accounted
      <3>5. OnRoute(cl)
        BY <3>2 DEF OnRoute
      <3>6. QED
        BY <3>3, <3>4, <3>5
    <2>3. call' = [call EXCEPT ![c] = cl] /\ circuit' = circuit
      BY <1>4 DEF Escapes
    <2>4. QED
      BY <2>2, <2>3 DEF Inv, CallsSound, CircuitsSound
  <1>5. CASE Tick
    <2>1. \A p \in Providers : Sound(Older(circuit[p]))
      BY CircuitMethods DEF Inv, CircuitsSound
    <2>2. QED
      BY <1>5, <2>1 DEF Tick, Inv, CallsSound, CircuitsSound, Sound
  <1>6. CASE UNCHANGED vars
    BY <1>6 DEF vars, Inv, CallsSound, CircuitsSound
  <1>7. QED
    BY <1>1, <1>2, <1>3, <1>4, <1>5, <1>6 DEF Next, Ended

(* The invariant of the routers.                                           *)
THEOREM RoutersInvariant == Spec => []Inv
  <1>1. QED
    BY InitInv, InvStep, PTL DEF Spec

(* Every circuit and every call keeps its type, and a call that waits has  *)
(* a provider on its route that it waits for.                              *)
THEOREM RoutersTypeCorrect == Spec => []TypeOK
  <1>1. Inv => TypeOK
    BY DEF Inv, CircuitsSound, CallsSound, OnRoute, TypeOK
  <1>2. QED
    BY <1>1, RoutersInvariant, PTL

(* Whatever calls overlap and in whatever order their outcomes are         *)
(* recorded, a circuit is closed exactly while it has recorded fewer than  *)
(* Threshold failures in a row.                                            *)
THEOREM CircuitsAgree == Spec => []ClosedIffBelowThreshold
  <1>1. Inv => ClosedIffBelowThreshold
    BY DEF Inv, CircuitsSound, Sound, ClosedIffBelowThreshold
  <1>2. QED
    BY <1>1, RoutersInvariant, PTL

(* On any route, however long, one call hands its message to a further     *)
(* provider only when the answer of the one before was lost.               *)
THEOREM FallbackNeverDoubles == Spec => []OneTakerUnlessLost
  <1>1. Inv => OneTakerUnlessLost
    BY DEF Inv, CallsSound, Accounted, OneTakerUnlessLost
  <1>2. QED
    BY <1>1, RoutersInvariant, PTL
=============================================================================
