----------------------- MODULE MessagingServiceProofs -----------------------
(***************************************************************************)
(* Theorems about MessagingService, for any number of threads, tenants and *)
(* keys and any limits, windows and stalls.                                *)
(***************************************************************************)
EXTENDS MessagingService, FiniteSetTheorems, SequenceTheorems, TLAPS

(* A store acts on a reading of the clock that is at most one stall old.   *)
ReadingsAreFresh ==
    \A c \in Calls : at[c] \in Stalled => now[c] <= clock /\ clock - now[c] <= Stall

(* A stored key was let pass, by a call that had just read its time; and   *)
(* who was let pass has its key in the store, or its lifetime is over.     *)
KeysAreTrue ==
    \A k \in Keys : seen[k] # Never =>
        \E c \in Calls : /\ LetPass(c) /\ KeyFor(c) = k
                         /\ seen[k] <= first[c]

Outlasted(c) == clock - first[c] > TTL - Stall

PassesAreKept ==
    \A c \in Calls : LetPass(c) =>
        /\ first[c] <= clock
        /\ \/ seen[KeyFor(c)] # Never /\ first[c] - Stall <= seen[KeyFor(c)]
           \/ Outlasted(c)

KeyInv == KeysAreTrue /\ PassesAreKept /\ KeyOncePerLifetime

(* The bucket of the rate limiter is the end of the list of passes, each   *)
(* read within a stall of its pass; what was dropped is out of the window. *)
Dropped(stamps, times) == Len(times) - Len(stamps)

Matches(stamps, times, time) ==
    /\ Len(stamps) <= Limit /\ Len(stamps) <= Len(times)
    /\ \A i \in 1..Len(stamps) :
           /\ stamps[i] <= times[Dropped(stamps, times) + i]
           /\ times[Dropped(stamps, times) + i] <= stamps[i] + Stall
    /\ \A i \in 1..Dropped(stamps, times) : times[i] + Window - Stall <= time

InOrder(times, time) ==
    /\ \A i \in 1..Len(times) : times[i] <= time
    /\ \A i, j \in 1..Len(times) : i <= j => times[i] <= times[j]

Spaced(times) ==
    \A i \in 1 .. Len(times) - Limit : times[i + Limit] - times[i] >= Window - Stall

RateOf(stamps, times, time) ==
    Matches(stamps, times, time) /\ InOrder(times, time) /\ Spaced(times)

RateInv == \A t \in Tenants : RateOf(events[t], passed[t], clock)

(* A counted call reads the clock no more, and is in its bucket until its  *)
(* period is over.                                                         *)
CapInv ==
    \A c \in Calls : counted[c] # Never =>
        /\ at[c] \in {"quota", "allow", "quota_exceeded"}
        /\ counted[c] <= clock /\ counted[c] <= now[c] + Stall
        /\ c \in uses[BucketFor(c)] \/ now[c] + Period <= clock
-----------------------------------------------------------------------------

LEMMA RequestFacts ==
    ASSUME TypeOK, NEW c \in Calls
    PROVE  /\ TenantOf(c) \in Tenants
           /\ request[c].category \in Categories
           /\ KeyFor(c) \in Keys
           /\ BucketFor(c) \in Buckets
  <1>1. request[c] \in Ask
    BY ServiceAssumption DEF TypeOK
  <1>2. QED
    BY <1>1 DEF Ask, TenantOf, KeyFor, KeyOf, Keys, BucketFor, BucketOf, Buckets

LEMMA ClockReadFacts ==
    /\ DOMAIN ClockRead = {"key", "rate", "cap"}
    /\ ClockRead["key"] = "dedupe" /\ ClockRead["rate"] = "limit"
    /\ ClockRead["cap"] = "frequency"
    /\ \A p \in DOMAIN ClockRead : ClockRead[p] \in Stalled
  BY DEF ClockRead, Stalled

LEMMA PlaceFacts ==
    {"suppression", "key", "dedupe", "preference", "rate", "limit", "cap", "frequency",
     "quota", "allow", "suppressed", "duplicate", "opted_out", "rate_limited", "capped",
     "quota_exceeded"} = Places
  BY ClockReadFacts DEF Places, Stalled, Decisions

(* What allow() leaves in the bucket, and what it then does.               *)
LEMMA RateCases ==
    ASSUME TypeOK, NEW c \in Calls, AllowRate(c)
    PROVE  \E n \in 0..Len(events[TenantOf(c)]), bucket \in Seq(Nat) :
               /\ LeavesWindow(events[TenantOf(c)], n, now[c])
               /\ Len(bucket) = Len(events[TenantOf(c)]) - n
               /\ \A i \in 1..Len(bucket) : bucket[i] = events[TenantOf(c)][n + i]
               /\ \/ /\ Len(bucket) < Limit
                     /\ Goto(c, "cap")
                     /\ events' = [events EXCEPT ![TenantOf(c)] = Append(bucket, now[c])]
                     /\ passed' = [passed EXCEPT ![TenantOf(c)] = Append(@, clock)]
                  \/ /\ Len(bucket) >= Limit
                     /\ Goto(c, "rate_limited")
                     /\ events' = [events EXCEPT ![TenantOf(c)] = bucket]
                     /\ UNCHANGED passed
  <1> DEFINE old == events[TenantOf(c)]
  <1>1. PICK n \in 0..Len(old) :
            /\ LeavesWindow(old, n, now[c])
            /\ IF HasRoom(SubSeq(old, n + 1, Len(old)))
               THEN /\ Goto(c, "cap")
                    /\ events' = [events EXCEPT ![TenantOf(c)] =
                                      Append(SubSeq(old, n + 1, Len(old)), now[c])]
                    /\ passed' = [passed EXCEPT ![TenantOf(c)] = Append(@, clock)]
               ELSE /\ Goto(c, "rate_limited")
                    /\ events' = [events EXCEPT ![TenantOf(c)] =
                                      SubSeq(old, n + 1, Len(old))]
                    /\ UNCHANGED passed
    BY DEF AllowRate
  <1> DEFINE bucket == SubSeq(old, n + 1, Len(old))
  <1>2. old \in Seq(Nat) /\ Len(old) \in Nat
    BY RequestFacts DEF TypeOK
  <1>3. \A i \in n + 1 .. Len(old) : old[i] \in Nat
    BY <1>2
  <1>4. /\ bucket \in Seq(Nat)
        /\ Len(bucket) = Len(old) - n
        /\ \A i \in 1..Len(bucket) : bucket[i] = old[n + i]
    <2> HIDE DEF old
    <2>1. n + 1 \in Int /\ Len(old) \in Int /\ n \in Int /\ n <= Len(old)
      BY <1>2
    <2>2. /\ bucket \in Seq(Nat)
          /\ Len(bucket) = IF n + 1 <= Len(old) THEN Len(old) - (n + 1) + 1 ELSE 0
          /\ \A i \in 1 .. Len(old) - (n + 1) + 1 : bucket[i] = old[(n + 1) + i - 1]
      BY <1>3, <2>1, SubSeqProperties
    <2> HIDE DEF bucket
    <2>3. Len(bucket) = Len(old) - n
      BY <2>1, <2>2
    <2>4. \A i \in 1..Len(bucket) : (n + 1) + i - 1 = n + i
      BY <2>1, <2>3
    <2>5. \A i \in 1..Len(bucket) : bucket[i] = old[n + i]
      BY <2>1, <2>2, <2>3, <2>4
    <2>6. QED
      BY <2>2, <2>3, <2>5
  <1> HIDE DEF bucket, old
  <1>5. HasRoom(bucket) <=> Len(bucket) < Limit
    BY DEF HasRoom
  <1>6. Len(bucket) \in Nat /\ Limit \in Nat
    BY <1>4, ServiceAssumption
  <1>7. \/ /\ Len(bucket) < Limit
           /\ Goto(c, "cap")
           /\ events' = [events EXCEPT ![TenantOf(c)] = Append(bucket, now[c])]
           /\ passed' = [passed EXCEPT ![TenantOf(c)] = Append(@, clock)]
        \/ /\ Len(bucket) >= Limit
           /\ Goto(c, "rate_limited")
           /\ events' = [events EXCEPT ![TenantOf(c)] = bucket]
           /\ UNCHANGED passed
    BY <1>1, <1>5, <1>6 DEF bucket
  <1>8. QED
    BY <1>1, <1>4, <1>7 DEF old

LEMMA InitType == Init => TypeOK
  <1> SUFFICES ASSUME Init PROVE TypeOK
    OBVIOUS
  <1>1. \A tc \in Tenants \X Categories : Defaults[tc[2]] \in Preference
    BY ServiceAssumption
  <1>2. \A c \in Calls : Defaults[request[c].category] \in Preference
    BY ServiceAssumption DEF Init, Ask
  <1>3. QED
    BY <1>1, <1>2, PlaceFacts DEF Init, TypeOK

LEMMA StepType == TypeOK /\ [Next]_vars => TypeOK'
  <1> SUFFICES ASSUME TypeOK, [Next]_vars PROVE TypeOK'
    OBVIOUS
  <1> USE PlaceFacts
  <1>1. ASSUME NEW c \in Calls, IsSuppressed(c) PROVE TypeOK'
    BY <1>1 DEF IsSuppressed, Goto, TypeOK, stores, history
  <1>2. ASSUME NEW c \in Calls, ReadClock(c) PROVE TypeOK'
    BY <1>2, ClockReadFacts DEF ReadClock, Goto, TypeOK, stores, history, Stalled
  <1>3. ASSUME NEW c \in Calls, SeenBefore(c) PROVE TypeOK'
    <2>1. KeyFor(c) \in Keys
      BY RequestFacts
    <2>2. Evicted(now[c]) \in [Keys -> Nat \cup {Never}]
      BY DEF Evicted, TypeOK
    <2>3. seen' \in [Keys -> Nat \cup {Never}]
      BY <1>3, <2>1, <2>2 DEF SeenBefore, TypeOK
    <2>4. QED
      BY <1>3, <2>3 DEF SeenBefore, Goto, TypeOK
  <1>4. ASSUME NEW c \in Calls, Resolve(c) PROVE TypeOK'
    <2>1. preference[<<TenantOf(c), request[c].category>>] \in Preference
      BY RequestFacts DEF TypeOK
    <2>2. QED
      BY <1>4, <2>1 DEF Resolve, Goto, TypeOK, stores, history
  <1>5. ASSUME NEW c \in Calls, AllowRate(c) PROVE TypeOK'
    <2>1. PICK bucket \in Seq(Nat) :
              \/ /\ Goto(c, "cap")
                 /\ events' = [events EXCEPT ![TenantOf(c)] = Append(bucket, now[c])]
                 /\ passed' = [passed EXCEPT ![TenantOf(c)] = Append(@, clock)]
              \/ /\ Goto(c, "rate_limited")
                 /\ events' = [events EXCEPT ![TenantOf(c)] = bucket]
                 /\ UNCHANGED passed
      BY <1>5, RateCases
    <2>2. /\ Append(bucket, now[c]) \in Seq(Nat)
          /\ Append(passed[TenantOf(c)], clock) \in Seq(Nat)
      BY RequestFacts DEF TypeOK
    <2>3. events' \in [Tenants -> Seq(Nat)] /\ passed' \in [Tenants -> Seq(Nat)]
      BY <2>1, <2>2, RequestFacts DEF TypeOK
    <2>4. at' \in [Calls -> Places]
      BY <2>1 DEF Goto, TypeOK
    <2>5. QED
      BY <1>5, <2>3, <2>4 DEF AllowRate, TypeOK
  <1>6. ASSUME NEW c \in Calls, Uncapped(c) PROVE TypeOK'
    BY <1>6 DEF Uncapped, Goto, TypeOK, stores, history
  <1>7. ASSUME NEW c \in Calls, RecordAndCheck(c) PROVE TypeOK'
    <2>1. Remembered(c) \in SUBSET Calls /\ Remembered(c) \cup {c} \in SUBSET Calls
      BY RequestFacts DEF Remembered, TypeOK
    <2>2. uses' \in [Buckets -> SUBSET Calls]
      BY <1>7, <2>1 DEF RecordAndCheck, TypeOK
    <2>3. QED
      BY <1>7, <2>2 DEF RecordAndCheck, Goto, TypeOK
  <1>8. ASSUME NEW c \in Calls, TryDecrement(c) PROVE TypeOK'
    <2> DEFINE t == TenantOf(c)
    <2>1. t \in Tenants /\ remaining[t] \in Nat \cup {Unlimited} /\ takers[t] \in SUBSET Calls
      BY RequestFacts DEF TypeOK
    <2>5. /\ at' \in [Calls -> Places]
          /\ UNCHANGED <<suppressed, seen, preference, events, uses, request, pref, now,
                         clock, first, counted, passed, granted>>
      BY <1>8 DEF TryDecrement, Decrement, Goto, TypeOK
    <2>2. CASE UNCHANGED <<remaining, takers>>
      BY <2>2, <2>5 DEF TypeOK
    <2>3. CASE /\ remaining[t] # Unlimited /\ remaining[t] >= 1
               /\ remaining' = [remaining EXCEPT ![t] = @ - 1]
               /\ takers' = [takers EXCEPT ![t] = @ \cup {c}]
      <3>1. remaining[t] - 1 \in Nat
        BY <2>1, <2>3
      <3>2. remaining' \in [Tenants -> Nat \cup {Unlimited}]
        BY <2>1, <2>3, <3>1 DEF TypeOK
      <3>3. takers' \in [Tenants -> SUBSET Calls]
        BY <2>1, <2>3 DEF TypeOK
      <3>4. QED
        BY <2>5, <3>2, <3>3 DEF TypeOK
    <2>4. QED
      BY <1>8, <2>2, <2>3 DEF TryDecrement, Decrement
  <1>9. ASSUME NEW t \in Tenants, NEW amount \in Grants, SetQuota(t, amount)
        PROVE  TypeOK'
    BY <1>9, ServiceAssumption DEF SetQuota, AtLeastZero, TypeOK, calls
  <1>10. ASSUME NEW ask \in Asks, Suppress(ask.tenant, ask.channel, ask.recipient)
         PROVE  TypeOK'
    <2>1. <<ask.tenant, ask.channel, ask.recipient>> \in Tenants \X Channels \X Recipients
      BY ServiceAssumption DEF Ask
    <2>2. QED
      BY <1>10, <2>1 DEF Suppress, TypeOK, calls, history
  <1>11. ASSUME NEW ask \in Asks, NEW p \in Preferences,
                SetPreference(ask.tenant, ask.category, p)
         PROVE  TypeOK'
    <2>1. p \in Preference
      BY ServiceAssumption
    <2>2. QED
      BY <1>11, <2>1 DEF SetPreference, TypeOK, calls, history
  <1>12. ASSUME Tick PROVE TypeOK'
    BY <1>12 DEF Tick, TypeOK, stores, calls, history
  <1>13. ASSUME UNCHANGED vars PROVE TypeOK'
    BY <1>13 DEF vars, TypeOK, stores, calls, history
  <1>14. QED
    BY <1>1, <1>2, <1>3, <1>4, <1>5, <1>6, <1>7, <1>8, <1>9, <1>10, <1>11, <1>12, <1>13
       DEF Next, Step

(* Every variable keeps its type; in particular the quota of a tenant is   *)
(* never negative, whatever set_quota is called with.                      *)
THEOREM ServiceTypeCorrect == Spec => []TypeOK
  BY InitType, StepType, PTL DEF Spec
-----------------------------------------------------------------------------
(* Which step touches what.                                                *)

LEMMA NextCases ==
    ASSUME [Next]_vars
    PROVE  \/ \E c \in Calls : Step(c)
           \/ Tick
           \/ \E t \in Tenants, amount \in Grants : SetQuota(t, amount)
           \/ UNCHANGED <<seen, events, uses, remaining, calls, clock, history>>
  BY DEF Next, Suppress, SetPreference, vars, stores

LEMMA StepTouches ==
    ASSUME NEW c \in Calls, Step(c)
    PROVE  /\ UNCHANGED <<clock, request, granted>>
           /\ SeenBefore(c) \/ UNCHANGED <<seen, first>>
           /\ AllowRate(c) \/ UNCHANGED <<events, passed>>
           /\ RecordAndCheck(c) \/ UNCHANGED <<uses, counted>>
           /\ TryDecrement(c) \/ UNCHANGED <<remaining, takers>>
           /\ ReadClock(c) \/ UNCHANGED now
  BY DEF Step, IsSuppressed, ReadClock, SeenBefore, Resolve, AllowRate, Uncapped,
         RecordAndCheck, TryDecrement, stores, history

(* A call that moves was under way; it gets to a lock by reading the clock *)
(* and to the quota by one of the branches of the frequency cap.           *)
LEMMA StepMoves ==
    ASSUME TypeOK, NEW c \in Calls, Step(c)
    PROVE  /\ at' \in [Calls -> Places]
           /\ \A d \in Calls : d # c => at'[d] = at[d] /\ now'[d] = now[d]
           /\ at[c] \notin Decisions
           /\ at[c] = "quota" <=> TryDecrement(c)
           /\ at'[c] \in Stalled <=> ReadClock(c)
           /\ ReadClock(c) => now'[c] = clock
  <1> USE DEF Goto, Stalled, Decisions
  <1>1. at' \in [Calls -> Places]
    BY StepType DEF Next, TypeOK
  <1>2. ASSUME IsSuppressed(c) \/ SeenBefore(c) \/ Resolve(c) \/ Uncapped(c)
        PROVE  /\ at[c] \in {"suppression", "dedupe", "preference", "cap"}
               /\ \A d \in Calls : d # c => at'[d] = at[d]
               /\ at'[c] \notin Stalled
               /\ UNCHANGED now
    BY <1>2 DEF IsSuppressed, SeenBefore, Resolve, Uncapped, TypeOK
  <1>3. ASSUME ReadClock(c)
        PROVE  /\ at[c] \in {"key", "rate", "cap"}
               /\ \A d \in Calls : d # c => at'[d] = at[d] /\ now'[d] = now[d]
               /\ at'[c] \in Stalled /\ now'[c] = clock
    BY <1>3, ClockReadFacts DEF ReadClock, TypeOK
  <1>4. ASSUME AllowRate(c)
        PROVE  /\ at[c] = "limit"
               /\ \A d \in Calls : d # c => at'[d] = at[d]
               /\ at'[c] \notin Stalled
               /\ UNCHANGED now
    <2>1. Goto(c, "cap") \/ Goto(c, "rate_limited")
      BY <1>4 DEF AllowRate
    <2>2. at[c] = "limit" /\ UNCHANGED now
      BY <1>4 DEF AllowRate
    <2>3. QED
      BY <2>1, <2>2 DEF TypeOK
  <1>5. ASSUME RecordAndCheck(c)
        PROVE  /\ at[c] = "frequency"
               /\ \A d \in Calls : d # c => at'[d] = at[d]
               /\ at'[c] \notin Stalled
               /\ UNCHANGED now
    BY <1>5 DEF RecordAndCheck, TypeOK
  <1>6. ASSUME TryDecrement(c)
        PROVE  /\ at[c] = "quota"
               /\ \A d \in Calls : d # c => at'[d] = at[d]
               /\ at'[c] \notin Stalled
               /\ UNCHANGED now
    <2>1. Goto(c, "allow") \/ Goto(c, "quota_exceeded")
      BY <1>6 DEF TryDecrement, Decrement
    <2>2. at[c] = "quota" /\ UNCHANGED now
      BY <1>6 DEF TryDecrement
    <2>3. QED
      BY <2>1, <2>2 DEF TypeOK
  <1>7. QED
    BY <1>1, <1>2, <1>3, <1>4, <1>5, <1>6 DEF Step

LEMMA ReadingsInit == Init => ReadingsAreFresh
  BY DEF Init, ReadingsAreFresh, Stalled

LEMMA ReadingsStep ==
    TypeOK /\ ReadingsAreFresh /\ [Next]_vars => ReadingsAreFresh'
  <1> SUFFICES ASSUME TypeOK, ReadingsAreFresh, [Next]_vars,
                      NEW d \in Calls, at'[d] \in Stalled
               PROVE  now'[d] <= clock' /\ clock' - now'[d] <= Stall
    BY DEF ReadingsAreFresh
  <1>1. now[d] \in Nat /\ clock \in Nat /\ Stall \in Nat
    BY ServiceAssumption DEF TypeOK
  <1>2. ASSUME NEW c \in Calls, Step(c)
        PROVE  now'[d] <= clock' /\ clock' - now'[d] <= Stall
    <2>1. clock' = clock
      BY <1>2, StepTouches
    <2>2. CASE d = c
      BY <1>1, <1>2, <2>1, <2>2, StepMoves
    <2>3. CASE d # c
      BY <1>2, <2>1, <2>3, StepMoves DEF ReadingsAreFresh
    <2>4. QED
      BY <2>2, <2>3
  <1>3. ASSUME Tick PROVE now'[d] <= clock' /\ clock' - now'[d] <= Stall
    <2>1. now' = now /\ at' = at /\ clock' = clock + 1
      BY <1>3 DEF Tick, calls
    <2>2. now[d] <= clock /\ clock - now[d] < Stall
      BY <1>3, <2>1 DEF Tick, ReadingsAreFresh
    <2>3. QED
      BY <1>1, <2>1, <2>2
  <1>4. ASSUME UNCHANGED <<calls, clock>>
        PROVE  now'[d] <= clock' /\ clock' - now'[d] <= Stall
    BY <1>4 DEF calls, ReadingsAreFresh
  <1>5. QED
    BY <1>2, <1>3, <1>4, NextCases DEF SetQuota
-----------------------------------------------------------------------------
(* Idempotency keys.                                                       *)

LEMMA KeyInit == Init => KeyInv
  BY DEF Init, KeyInv, KeysAreTrue, PassesAreKept, KeyOncePerLifetime, LetPass

(* What an eviction at a reading that is not ahead of the clock leaves.    *)
LEMMA Evicting ==
    ASSUME TypeOK, KeyInv, NEW time \in Nat, time <= clock
    PROVE  /\ Evicted(time) \in [Keys -> Nat \cup {Never}]
           /\ \A k \in Keys : Evicted(time)[k] # Never =>
                  seen[k] = Evicted(time)[k] /\ time - seen[k] <= TTL
           /\ \A d \in Calls : LetPass(d) =>
                  \/ /\ Evicted(time)[KeyFor(d)] # Never
                     /\ first[d] - Stall <= Evicted(time)[KeyFor(d)]
                  \/ Outlasted(d)
  <1>1. /\ seen \in [Keys -> Nat \cup {Never}] /\ clock \in Nat
        /\ first \in [Calls -> Nat \cup {Never}]
        /\ TTL \in Nat /\ Stall \in Nat /\ Never \notin Int
    BY ServiceAssumption DEF TypeOK
  <1>2. \A k \in Keys : Evicted(time)[k] # Never =>
            seen[k] = Evicted(time)[k] /\ time - seen[k] <= TTL
    BY <1>1 DEF Evicted, Outlived
  <1>3. \A k \in Keys : seen[k] # Never /\ Evicted(time)[k] = Never =>
            time - seen[k] > TTL
    BY <1>1 DEF Evicted, Outlived
  <1>4. ASSUME NEW d \in Calls, LetPass(d), ~Outlasted(d)
        PROVE  /\ Evicted(time)[KeyFor(d)] # Never
               /\ first[d] - Stall <= Evicted(time)[KeyFor(d)]
    <2>1. KeyFor(d) \in Keys /\ first[d] \in Nat
      BY <1>1, <1>4, RequestFacts DEF LetPass
    <2>2. seen[KeyFor(d)] # Never /\ first[d] - Stall <= seen[KeyFor(d)]
      BY <1>4 DEF KeyInv, PassesAreKept
    <2>3. clock - first[d] <= TTL - Stall
      BY <1>1, <1>4, <2>1 DEF Outlasted
    <2>4. seen[KeyFor(d)] \in Nat
      BY <1>1, <2>1, <2>2
    <2>5. ~(time - seen[KeyFor(d)] > TTL)
      BY <1>1, <2>1, <2>2, <2>3, <2>4
    <2>6. QED
      BY <1>2, <1>3, <2>1, <2>2, <2>5
  <1>5. QED
    BY <1>1, <1>2, <1>4 DEF Evicted

LEMMA KeyStep ==
    TypeOK /\ ReadingsAreFresh /\ KeyInv /\ [Next]_vars => KeyInv'
  <1> SUFFICES ASSUME TypeOK, ReadingsAreFresh, KeyInv, [Next]_vars PROVE KeyInv'
    OBVIOUS
  <1>1. /\ seen \in [Keys -> Nat \cup {Never}] /\ clock \in Nat
        /\ first \in [Calls -> Nat \cup {Never}]
        /\ TTL \in Nat /\ Stall \in Nat /\ Never \notin Int
        /\ \A c \in Calls : KeyFor(c) \in Keys
    BY ServiceAssumption, RequestFacts DEF TypeOK
  <1>2. ASSUME UNCHANGED <<seen, first, request>>, clock' \in {clock, clock + 1}
        PROVE  KeyInv'
    <2>1. \A c \in Calls : KeyFor(c)' = KeyFor(c) /\ (LetPass(c)' <=> LetPass(c))
      BY <1>2 DEF KeyFor, LetPass
    <2>2. KeysAreTrue'
      BY <1>2, <2>1 DEF KeyInv, KeysAreTrue
    <2>3. \A c \in Calls : LetPass(c) /\ Outlasted(c) => Outlasted(c)'
      BY <1>1, <1>2 DEF LetPass, Outlasted
    <2>4. PassesAreKept'
      <3> SUFFICES ASSUME NEW c \in Calls, LetPass(c)
                   PROVE  /\ first[c] <= clock'
                          /\ \/ /\ seen[KeyFor(c)] # Never
                                /\ first[c] - Stall <= seen[KeyFor(c)]
                             \/ Outlasted(c)'
        BY <1>2, <2>1 DEF PassesAreKept
      <3>1. first[c] \in Nat
        BY <1>1 DEF LetPass
      <3>2. /\ first[c] <= clock
            /\ \/ seen[KeyFor(c)] # Never /\ first[c] - Stall <= seen[KeyFor(c)]
               \/ Outlasted(c)
        BY DEF KeyInv, PassesAreKept
      <3>3. first[c] <= clock'
        BY <1>1, <1>2, <3>1, <3>2
      <3>4. QED
        BY <2>3, <3>2, <3>3
    <2>5. KeyOncePerLifetime'
      BY <1>2, <2>1 DEF KeyInv, KeyOncePerLifetime
    <2>6. QED
      BY <2>2, <2>4, <2>5 DEF KeyInv
  <1>3. ASSUME NEW c \in Calls, SeenBefore(c) PROVE KeyInv'
    <2> DEFINE left == Evicted(now[c])
               k == KeyFor(c)
    <2>1. now[c] \in Nat /\ now[c] <= clock /\ clock - now[c] <= Stall
      BY <1>3 DEF SeenBefore, ReadingsAreFresh, Stalled, TypeOK
    <2>2. /\ left \in [Keys -> Nat \cup {Never}]
          /\ \A j \in Keys : left[j] # Never => seen[j] = left[j] /\ now[c] - seen[j] <= TTL
          /\ \A d \in Calls : LetPass(d) =>
                 \/ left[KeyFor(d)] # Never /\ first[d] - Stall <= left[KeyFor(d)]
                 \/ Outlasted(d)
      BY <2>1, Evicting
    <2> HIDE DEF left
    <2>3. clock' = clock /\ request' = request
      BY <1>3 DEF SeenBefore
    <2>4. \A d \in Calls : KeyFor(d)' = KeyFor(d)
      BY <2>3 DEF KeyFor
    <2>5. CASE left[k] # Never
      <3>1. seen' = left /\ first' = first
        BY <1>3, <2>5 DEF SeenBefore, left
      <3>2. \A d \in Calls : /\ LetPass(d)' <=> LetPass(d)
                             /\ Outlasted(d)' <=> Outlasted(d)
        BY <2>3, <3>1 DEF LetPass, Outlasted
      <3>3. KeysAreTrue'
        BY <2>2, <2>4, <3>1, <3>2 DEF KeyInv, KeysAreTrue
      <3>4. PassesAreKept'
        BY <2>2, <2>3, <2>4, <3>1, <3>2 DEF KeyInv, PassesAreKept
      <3>5. KeyOncePerLifetime'
        BY <2>4, <3>1, <3>2 DEF KeyInv, KeyOncePerLifetime
      <3>6. QED
        BY <3>3, <3>4, <3>5 DEF KeyInv
    <2>6. CASE left[k] = Never
      <3>1. seen' = [left EXCEPT ![k] = now[c]] /\ first' = [first EXCEPT ![c] = clock]
        BY <1>3, <2>6 DEF SeenBefore, left
      <3>2. k \in Keys
        BY <1>1
      <3> HIDE DEF k
      <3>3. /\ seen'[k] = now[c] /\ first'[c] = clock
            /\ \A j \in Keys : j # k => seen'[j] = left[j]
            /\ \A d \in Calls : d # c => first'[d] = first[d]
        BY <1>1, <2>2, <3>1, <3>2
      <3>4. now[c] # Never /\ clock # Never
        BY <1>1, <2>1
      <3>5. \A d \in Calls : d # c => /\ LetPass(d)' <=> LetPass(d)
                                      /\ Outlasted(d)' <=> Outlasted(d)
        BY <2>3, <3>3 DEF LetPass, Outlasted
      <3>6. LetPass(c)'
        BY <3>3, <3>4 DEF LetPass
      <3>7. KeysAreTrue'
        <4> SUFFICES ASSUME NEW j \in Keys, seen'[j] # Never
                     PROVE  \E d \in Calls : /\ LetPass(d)' /\ KeyFor(d)' = j
                                             /\ seen'[j] <= first'[d]
          BY DEF KeysAreTrue
        <4>1. CASE j = k
          BY <2>1, <2>4, <3>3, <3>6, <4>1 DEF k
        <4>2. CASE j # k
          <5>1. seen'[j] = seen[j] /\ seen[j] # Never
            BY <2>2, <3>3, <4>2
          <5>2. PICK d \in Calls : LetPass(d) /\ KeyFor(d) = j /\ seen[j] <= first[d]
            BY <5>1 DEF KeyInv, KeysAreTrue
          <5>3. d # c
            BY <4>2, <5>2 DEF k
          <5>4. QED
            BY <2>4, <3>3, <3>5, <5>1, <5>2, <5>3
        <4>3. QED
          BY <4>1, <4>2
      <3>8. PassesAreKept'
        <4> SUFFICES ASSUME NEW d \in Calls, LetPass(d)'
                     PROVE  /\ first'[d] <= clock
                            /\ \/ /\ seen'[KeyFor(d)] # Never
                                  /\ first'[d] - Stall <= seen'[KeyFor(d)]
                               \/ Outlasted(d)'
          BY <2>3, <2>4 DEF PassesAreKept
        <4>1. CASE d = c
          BY <1>1, <2>1, <3>3, <3>4, <4>1 DEF k
        <4>2. CASE d # c
          <5>1. LetPass(d) /\ first'[d] = first[d]
            BY <3>3, <3>5, <4>2
          <5>2. first[d] <= clock
            BY <5>1 DEF KeyInv, PassesAreKept
          <5>3. CASE KeyFor(d) = k
            BY <2>2, <2>6, <3>5, <4>2, <5>1, <5>2, <5>3
          <5>4. CASE KeyFor(d) # k
            BY <1>1, <2>2, <3>3, <3>5, <4>2, <5>1, <5>2, <5>4
          <5>5. QED
            BY <5>3, <5>4
        <4>3. QED
          BY <4>1, <4>2
      <3>9. \A d \in Calls : d # c /\ LetPass(d)' /\ KeyFor(d)' = KeyFor(c)' =>
                first'[c] - first'[d] > TTL - Stall
        <4> TAKE d \in Calls
        <4> HAVE d # c /\ LetPass(d)' /\ KeyFor(d)' = KeyFor(c)'
        <4>1. LetPass(d) /\ KeyFor(d) = k
          BY <2>4, <3>5 DEF k
        <4>2. Outlasted(d)
          BY <2>2, <2>6, <4>1
        <4>3. QED
          BY <3>3, <4>2 DEF Outlasted
      <3>10. KeyOncePerLifetime'
        BY <2>4, <3>3, <3>5, <3>9 DEF KeyInv, KeyOncePerLifetime
      <3>11. QED
        BY <3>7, <3>8, <3>10 DEF KeyInv
    <2>7. QED
      BY <2>5, <2>6
  <1>4. ASSUME NEW c \in Calls, Step(c) PROVE KeyInv'
    BY <1>2, <1>3, <1>4, StepTouches
  <1>5. QED
    BY <1>2, <1>4, NextCases DEF Tick, SetQuota, calls, stores, history

(* A key is let pass once in its lifetime, whatever the threads do and     *)
(* however long they stall (KeyOncePerLifetime).                           *)
THEOREM KeysPassOnce == Spec => []KeyOncePerLifetime
  <1>1. Init => TypeOK /\ ReadingsAreFresh /\ KeyInv
    BY InitType, ReadingsInit, KeyInit
  <1>2. TypeOK /\ ReadingsAreFresh /\ KeyInv /\ [Next]_vars
            => (TypeOK /\ ReadingsAreFresh /\ KeyInv)'
    BY StepType, ReadingsStep, KeyStep
  <1>3. KeyInv => KeyOncePerLifetime
    BY DEF KeyInv
  <1>4. QED
    BY <1>1, <1>2, <1>3, PTL DEF Spec

(* Who is called a duplicate repeats a key that was let pass at most the   *)
(* TTL and one stall ago (DuplicateOnlyWhileRemembered).                   *)
THEOREM DuplicatesAreRecent == Spec => DuplicateOnlyWhileRemembered
  <1> DEFINE Inv == TypeOK /\ ReadingsAreFresh /\ KeyInv
             Act == \A d \in Calls :
                        at[d] = "dedupe" /\ at'[d] = "duplicate" =>
                            \E c \in Calls : /\ LetPass(c) /\ KeyFor(c) = KeyFor(d)
                                             /\ clock - first[c] <= TTL + Stall
  <1>1. Init => Inv
    BY InitType, ReadingsInit, KeyInit
  <1>2. Inv /\ [Next]_vars => Inv'
    BY StepType, ReadingsStep, KeyStep
  <1>3. Inv /\ [Next]_vars => [Act]_vars
    <2> SUFFICES ASSUME Inv, [Next]_vars, NEW d \in Calls,
                        at[d] = "dedupe", at'[d] = "duplicate"
                 PROVE  \E c \in Calls : /\ LetPass(c) /\ KeyFor(c) = KeyFor(d)
                                         /\ clock - first[c] <= TTL + Stall
      OBVIOUS
    <2>1. SeenBefore(d)
      <3>1. PICK c \in Calls : Step(c)
        BY NextCases DEF Tick, SetQuota, calls
      <3>2. c = d
        BY <3>1, StepMoves
      <3>3. ~ReadClock(d)
        BY ClockReadFacts DEF ReadClock
      <3>4. QED
        BY <3>1, <3>2, <3>3 DEF Step, IsSuppressed, Resolve, AllowRate, Uncapped,
           RecordAndCheck, TryDecrement
    <2>2. KeyFor(d) \in Keys /\ now[d] \in Nat /\ clock \in Nat /\ TTL \in Nat /\ Stall \in Nat
      BY RequestFacts, ServiceAssumption DEF TypeOK
    <2>3. now[d] <= clock /\ clock - now[d] <= Stall
      BY <2>1 DEF SeenBefore, ReadingsAreFresh, Stalled
    <2>4. Evicted(now[d])[KeyFor(d)] # Never
      <3> SUFFICES ASSUME Evicted(now[d])[KeyFor(d)] = Never PROVE FALSE
        OBVIOUS
      <3>1. at' = [at EXCEPT ![d] = "preference"]
        BY <2>1 DEF SeenBefore, Goto
      <3>2. QED
        BY <3>1 DEF TypeOK
    <2>5. seen[KeyFor(d)] # Never /\ now[d] - seen[KeyFor(d)] <= TTL
      BY <2>2, <2>3, <2>4, Evicting
    <2>6. PICK c \in Calls : LetPass(c) /\ KeyFor(c) = KeyFor(d) /\ seen[KeyFor(d)] <= first[c]
      BY <2>2, <2>5 DEF KeyInv, KeysAreTrue
    <2>7. seen[KeyFor(d)] \in Nat /\ first[c] \in Nat
      BY <2>2, <2>5, <2>6 DEF LetPass, TypeOK
    <2>8. clock - first[c] <= TTL + Stall
      BY <2>2, <2>3, <2>5, <2>6, <2>7
    <2>9. QED
      BY <2>6, <2>8
  <1> HIDE DEF Inv
  <1>4. QED
    BY <1>1, <1>2, <1>3, PTL DEF Spec, DuplicateOnlyWhileRemembered
-----------------------------------------------------------------------------
(* The rate limiter: first about any bucket and any list of passes.        *)

LEMMA RateOfNothing == \A time \in Nat : RateOf(<<>>, <<>>, time)
  <1> SUFFICES ASSUME NEW time \in Nat PROVE RateOf(<<>>, <<>>, time)
    OBVIOUS
  <1>1. Limit \in Nat \ {0} /\ Len(<<>>) = 0
    BY ServiceAssumption
  <1>2. Dropped(<<>>, <<>>) = 0
    BY <1>1 DEF Dropped
  <1>3. 1..Len(<<>>) = {} /\ 1..Dropped(<<>>, <<>>) = {} /\ 1 .. Len(<<>>) - Limit = {}
    BY <1>1, <1>2
  <1>4. Len(<<>>) <= Limit /\ Len(<<>>) <= Len(<<>>)
    BY <1>1
  <1>5. QED
    BY <1>3, <1>4 DEF RateOf, Matches, InOrder, Spaced

LEMMA DroppedFacts ==
    ASSUME NEW stamps \in Seq(Nat), NEW times \in Seq(Nat), Len(stamps) <= Len(times)
    PROVE  /\ Dropped(stamps, times) \in Nat
           /\ Dropped(stamps, times) <= Len(times)
           /\ Dropped(stamps, times) + Len(stamps) = Len(times)
           /\ Len(stamps) \in Nat /\ Len(times) \in Nat
           /\ \A i \in 1..Len(times) : times[i] \in Nat
           /\ \A i \in 1..Len(stamps) : stamps[i] \in Nat
  <1>1. /\ Len(stamps) \in Nat /\ Len(times) \in Nat
        /\ \A i \in 1..Len(times) : times[i] \in Nat
        /\ \A i \in 1..Len(stamps) : stamps[i] \in Nat
    OBVIOUS
  <1>2. \A m, n \in Nat : m <= n => n - m \in Nat /\ n - m <= n /\ (n - m) + m = n
    OBVIOUS
  <1>3. QED
    BY <1>1, <1>2 DEF Dropped

(* Time passes: what was out of the window stays out of it.                *)
LEMMA RateLater ==
    ASSUME NEW stamps \in Seq(Nat), NEW times \in Seq(Nat),
           NEW time \in Nat, NEW later \in Nat, time <= later,
           RateOf(stamps, times, time)
    PROVE  RateOf(stamps, times, later)
  <1>1. Matches(stamps, times, time) /\ InOrder(times, time) /\ Spaced(times)
    BY DEF RateOf
  <1>2. Len(stamps) <= Len(times) /\ Window \in Nat /\ Stall \in Nat
    BY <1>1, ServiceAssumption DEF Matches
  <1>3. \A i \in 1..Dropped(stamps, times) : times[i] + Window - Stall <= later
    <2> SUFFICES ASSUME NEW i \in 1..Dropped(stamps, times)
                 PROVE  times[i] + Window - Stall <= later
      OBVIOUS
    <2>1. i \in 1..Len(times) /\ times[i] \in Nat
      BY <1>2, DroppedFacts
    <2>2. times[i] + Window - Stall <= time
      BY <1>1 DEF Matches
    <2>3. QED
      BY <1>2, <2>1, <2>2
  <1>4. Matches(stamps, times, later)
    BY <1>1, <1>3 DEF Matches
  <1>5. InOrder(times, later)
    BY <1>1, <1>2, DroppedFacts DEF InOrder
  <1>6. QED
    BY <1>1, <1>4, <1>5 DEF RateOf

(* The head of the bucket is dropped at a reading that is not ahead of the *)
(* clock.                                                                  *)
LEMMA RateDrop ==
    ASSUME NEW stamps \in Seq(Nat), NEW times \in Seq(Nat), NEW time \in Nat,
           RateOf(stamps, times, time),
           NEW reading \in Nat, reading <= time,
           NEW n \in 0..Len(stamps), LeavesWindow(stamps, n, reading),
           NEW left \in Seq(Nat), Len(left) = Len(stamps) - n,
           \A i \in 1..Len(left) : left[i] = stamps[n + i]
    PROVE  RateOf(left, times, time)
  <1>1. Matches(stamps, times, time) /\ InOrder(times, time) /\ Spaced(times)
    BY DEF RateOf
  <1>2. Len(stamps) <= Len(times) /\ Len(stamps) <= Limit
    BY <1>1 DEF Matches
  <1>3. Window \in Nat /\ Stall \in Nat /\ Limit \in Nat
    BY ServiceAssumption
  <1> DEFINE D == Dropped(stamps, times)
  <1>4. /\ D \in Nat /\ D <= Len(times) /\ D + Len(stamps) = Len(times)
        /\ Len(stamps) \in Nat /\ Len(times) \in Nat /\ n \in Nat /\ n <= Len(stamps)
        /\ \A i \in 1..Len(times) : times[i] \in Nat
        /\ \A i \in 1..Len(stamps) : stamps[i] \in Nat
    BY <1>2, DroppedFacts
  <1>5. /\ \A i \in 1..Len(stamps) : stamps[i] <= times[D + i] /\ times[D + i] <= stamps[i] + Stall
        /\ \A i \in 1..D : times[i] + Window - Stall <= time
    BY <1>1 DEF Matches
  <1> HIDE DEF D
  <1>6. Len(left) \in Nat /\ Len(left) <= Len(times) /\ Len(left) <= Limit
    BY <1>2, <1>3, <1>4
  <1>7. Dropped(left, times) = D + n
    <2>1. PICK e \in Nat, l \in Nat, k \in Nat :
              e = Len(stamps) /\ l = Len(left) /\ k = Len(times)
      BY <1>4, <1>6
    <2>2. l = e - n /\ D + e = k
      BY <1>4, <2>1
    <2>3. k - l = D + n
      <3>1. D \in Int /\ n \in Int /\ e \in Int
        BY <1>4
      <3>2. (D + e) - (e - n) = D + n
        BY <3>1
      <3>3. QED
        BY <2>2, <3>2
    <2>4. QED
      BY <2>1, <2>3 DEF Dropped
  <1>8. ASSUME NEW i \in 1..Len(left)
        PROVE  left[i] <= times[(D + n) + i] /\ times[(D + n) + i] <= left[i] + Stall
    <2>1. n + i \in 1..Len(stamps) /\ D + (n + i) = (D + n) + i
      BY <1>4, <1>6
    <2>2. QED
      BY <1>5, <2>1
  <1>9. ASSUME NEW i \in 1 .. D + n PROVE times[i] + Window - Stall <= time
    <2>1. CASE i \in 1..D
      BY <1>5, <2>1
    <2>2. CASE i \notin 1..D
      <3> DEFINE j == i - D
      <3>1. j \in 1..n /\ j \in 1..Len(stamps) /\ D + j = i /\ i \in 1..Len(times)
        BY <1>4, <2>2
      <3>2. stamps[j] <= reading - Window
        BY <3>1 DEF LeavesWindow
      <3>3. times[i] <= stamps[j] + Stall
        BY <1>5, <3>1
      <3>4. stamps[j] \in Nat /\ times[i] \in Nat
        BY <1>4, <3>1
      <3> HIDE DEF j
      <3>5. \A x, y, r, t, w, u \in Nat :
                y <= r - w /\ x <= y + u /\ r <= t => x + w - u <= t
        OBVIOUS
      <3>6. QED
        BY <1>3, <3>2, <3>3, <3>4, <3>5
    <2>3. QED
      BY <2>1, <2>2
  <1>10. Matches(left, times, time)
    BY <1>6, <1>7, <1>8, <1>9 DEF Matches
  <1>11. QED
    BY <1>1, <1>10 DEF RateOf

(* A request passes while the bucket has room.                             *)
LEMMA RatePass ==
    ASSUME NEW stamps \in Seq(Nat), NEW times \in Seq(Nat), NEW time \in Nat,
           RateOf(stamps, times, time), Len(stamps) < Limit,
           NEW reading \in Nat, reading <= time, time - reading <= Stall
    PROVE  RateOf(Append(stamps, reading), Append(times, time), time)
  <1> DEFINE S2 == Append(stamps, reading)
             T2 == Append(times, time)
             D == Dropped(stamps, times)
  <1>1. Matches(stamps, times, time) /\ InOrder(times, time) /\ Spaced(times)
    BY DEF RateOf
  <1>2. Len(stamps) <= Len(times)
    BY <1>1 DEF Matches
  <1>3. Window \in Nat /\ Stall \in Nat /\ Limit \in Nat \ {0}
    BY ServiceAssumption
  <1>3a. PICK m \in Nat, k \in Nat : m = Len(stamps) /\ k = Len(times)
    OBVIOUS
  <1>4. /\ D \in Nat /\ D <= k /\ D + m = k /\ m < Limit
        /\ \A i \in 1..k : times[i] \in Nat
    BY <1>2, <1>3a, DroppedFacts
  <1>5. /\ \A i \in 1..m : stamps[i] <= times[D + i] /\ times[D + i] <= stamps[i] + Stall
        /\ \A i \in 1..D : times[i] + Window - Stall <= time
    BY <1>1, <1>3a DEF Matches
  <1> HIDE DEF D
  <1>6. /\ Len(S2) = m + 1 /\ Len(T2) = k + 1
        /\ \A i \in 1..m : S2[i] = stamps[i]
        /\ \A i \in 1..k : T2[i] = times[i]
        /\ S2[m + 1] = reading /\ T2[k + 1] = time
    BY <1>3a
  <1> HIDE DEF S2, T2
  <1>7. Dropped(S2, T2) = D
    <2>1. (k + 1) - (m + 1) = D
      BY <1>4
    <2>2. QED
      BY <1>6, <2>1 DEF Dropped
  <1>8. ASSUME NEW i \in 1 .. m + 1 PROVE S2[i] <= T2[D + i] /\ T2[D + i] <= S2[i] + Stall
    <2>1. CASE i \in 1..m
      <3>1. D + i \in 1..k
        BY <1>4, <2>1
      <3>2. QED
        BY <1>5, <1>6, <2>1, <3>1
    <2>2. CASE i \notin 1..m
      <3>1. i = m + 1 /\ D + i = k + 1
        BY <1>4, <1>6, <2>2
      <3>2. S2[i] = reading /\ T2[D + i] = time
        BY <1>6, <3>1
      <3>3. QED
        BY <1>3, <3>2
    <2>3. QED
      BY <2>1, <2>2
  <1>9. \A i \in 1..D : i \in 1..k /\ T2[i] + Window - Stall <= time
    <2>1. \A i \in 1..D : i \in 1..k
      BY <1>4
    <2>2. QED
      BY <1>5, <1>6, <2>1
  <1>10. Len(S2) <= Limit /\ Len(S2) <= Len(T2)
    BY <1>2, <1>3, <1>4, <1>6
  <1>11. Matches(S2, T2, time)
    BY <1>6, <1>7, <1>8, <1>9, <1>10 DEF Matches
  <1>12. InOrder(T2, time)
    <2>1. /\ \A i \in 1..k : times[i] <= time
          /\ \A i, j \in 1..k : i <= j => times[i] <= times[j]
      BY <1>1, <1>3a DEF InOrder
    <2>2. \A i \in 1 .. k + 1 : T2[i] <= time /\ (i \in 1..k \/ i = k + 1)
      BY <1>4, <1>6, <2>1
    <2>3. ASSUME NEW i \in 1 .. k + 1, NEW j \in 1 .. k + 1, i <= j
          PROVE  T2[i] <= T2[j]
      <3>1. CASE j = k + 1
        BY <1>6, <2>2, <3>1
      <3>2. CASE j \in 1..k
        <4>1. i \in 1..k
          BY <1>4, <2>3, <3>2
        <4>2. QED
          BY <1>6, <2>1, <2>3, <3>2, <4>1
      <3>3. QED
        BY <2>2, <3>1, <3>2
    <2>4. QED
      BY <1>6, <2>2, <2>3 DEF InOrder
  <1>13. Spaced(T2)
    <2> SUFFICES ASSUME NEW i \in 1 .. (k + 1) - Limit
                 PROVE  T2[i + Limit] - T2[i] >= Window - Stall
      BY <1>6 DEF Spaced
    <2>1. i \in Nat /\ i <= k + 1 - Limit
      BY <1>3, <1>4, <1>6
    <2>2. CASE i \in 1 .. k - Limit
      <3>1. i \in 1..k /\ i + Limit \in 1..k
        BY <1>3, <1>4, <2>2
      <3>2. times[i + Limit] - times[i] >= Window - Stall
        BY <1>1, <1>3a, <2>2 DEF Spaced
      <3>3. QED
        BY <1>6, <3>1, <3>2
    <2>3. CASE i \notin 1 .. k - Limit
      <3>1. i + Limit = k + 1 /\ i \in 1..D
        BY <1>3, <1>4, <2>1, <2>3
      <3>2. T2[i + Limit] = time /\ T2[i] + Window - Stall <= time
        BY <1>6, <1>9, <3>1
      <3>3. T2[i] \in Nat
        BY <1>4, <1>6, <1>9, <3>1
      <3>4. QED
        BY <1>3, <3>2, <3>3
    <2>4. QED
      BY <2>2, <2>3
  <1>14. QED
    BY <1>11, <1>12, <1>13 DEF RateOf, S2, T2

LEMMA RateInit == Init => RateInv
  BY RateOfNothing DEF Init, RateInv

LEMMA RateStep ==
    TypeOK /\ ReadingsAreFresh /\ RateInv /\ [Next]_vars => RateInv'
  <1> SUFFICES ASSUME TypeOK, ReadingsAreFresh, RateInv, [Next]_vars PROVE RateInv'
    OBVIOUS
  <1>1. /\ \A t \in Tenants : events[t] \in Seq(Nat) /\ passed[t] \in Seq(Nat)
        /\ clock \in Nat
    BY DEF TypeOK
  <1>2. ASSUME UNCHANGED <<events, passed>>, clock' \in {clock, clock + 1}
        PROVE  RateInv'
    <2>1. clock' \in Nat /\ clock <= clock'
      BY <1>1, <1>2
    <2>2. \A t \in Tenants : RateOf(events[t], passed[t], clock')
      BY <1>1, <2>1, RateLater DEF RateInv
    <2>3. QED
      BY <1>2, <2>2 DEF RateInv
  <1>3. ASSUME NEW c \in Calls, AllowRate(c) PROVE RateInv'
    <2> DEFINE t == TenantOf(c)
    <2>1. t \in Tenants
      BY RequestFacts
    <2>2. now[c] \in Nat /\ now[c] <= clock /\ clock - now[c] <= Stall /\ clock' = clock
      BY <1>3 DEF AllowRate, ReadingsAreFresh, Stalled, TypeOK
    <2>3. PICK n \in 0..Len(events[t]), left \in Seq(Nat) :
              /\ LeavesWindow(events[t], n, now[c])
              /\ Len(left) = Len(events[t]) - n
              /\ \A i \in 1..Len(left) : left[i] = events[t][n + i]
              /\ \/ /\ Len(left) < Limit
                    /\ events' = [events EXCEPT ![t] = Append(left, now[c])]
                    /\ passed' = [passed EXCEPT ![t] = Append(@, clock)]
                 \/ /\ events' = [events EXCEPT ![t] = left]
                    /\ UNCHANGED passed
      BY <1>3, RateCases
    <2> HIDE DEF t
    <2>4. RateOf(events[t], passed[t], clock)
      BY <2>1 DEF RateInv
    <2>5. RateOf(left, passed[t], clock)
      BY <1>1, <2>1, <2>2, <2>3, <2>4, RateDrop
    <2>6. RateOf(events'[t], passed'[t], clock)
      <3>1. CASE /\ Len(left) < Limit
                 /\ events' = [events EXCEPT ![t] = Append(left, now[c])]
                 /\ passed' = [passed EXCEPT ![t] = Append(@, clock)]
        <4>1. RateOf(Append(left, now[c]), Append(passed[t], clock), clock)
          BY <1>1, <2>1, <2>2, <2>5, <3>1, RatePass
        <4>2. QED
          BY <2>1, <3>1, <4>1 DEF TypeOK
      <3>2. CASE events' = [events EXCEPT ![t] = left] /\ UNCHANGED passed
        BY <2>1, <2>5, <3>2 DEF TypeOK
      <3>3. QED
        BY <2>3, <3>1, <3>2
    <2>7. \A u \in Tenants : u # t => events'[u] = events[u] /\ passed'[u] = passed[u]
      BY <2>3 DEF TypeOK
    <2>8. \A u \in Tenants : RateOf(events'[u], passed'[u], clock)
      BY <2>6, <2>7 DEF RateInv
    <2>9. QED
      BY <2>2, <2>8 DEF RateInv
  <1>4. ASSUME NEW c \in Calls, Step(c) PROVE RateInv'
    BY <1>2, <1>3, <1>4, StepTouches
  <1>5. QED
    BY <1>2, <1>4, NextCases DEF Tick, SetQuota, calls, stores, history

(* The rate limit holds in real time, less one stall (RateWithinWindow).   *)
THEOREM RateIsLimited == Spec => []RateWithinWindow
  <1>1. Init => TypeOK /\ ReadingsAreFresh /\ RateInv
    BY InitType, ReadingsInit, RateInit
  <1>2. TypeOK /\ ReadingsAreFresh /\ RateInv /\ [Next]_vars
            => (TypeOK /\ ReadingsAreFresh /\ RateInv)'
    BY StepType, ReadingsStep, RateStep
  <1>3. RateInv => RateWithinWindow
    BY DEF RateInv, RateOf, Spaced, RateWithinWindow
  <1>4. QED
    BY <1>1, <1>2, <1>3, PTL DEF Spec

(* What a full bucket says about the passes: the Limit-th last one is      *)
(* inside the window and a stall.                                          *)
LEMMA FullBucket ==
    ASSUME NEW stamps \in Seq(Nat), NEW times \in Seq(Nat), NEW time \in Nat,
           RateOf(stamps, times, time), Len(stamps) >= Limit,
           NEW reading \in Nat, time - reading <= Stall, stamps[1] > reading - Window
    PROVE  /\ Len(times) >= Limit
           /\ times[Len(times) - Limit + 1] > time - Window - Stall
  <1>1. Matches(stamps, times, time)
    BY DEF RateOf
  <1>2. Len(stamps) = Limit /\ Len(stamps) <= Len(times) /\ Limit \in Nat \ {0}
    BY <1>1, ServiceAssumption DEF Matches
  <1>3. Window \in Nat /\ Stall \in Nat
    BY ServiceAssumption
  <1>4. PICK k \in Nat : k = Len(times)
    OBVIOUS
  <1>5. Dropped(stamps, times) = k - Limit
    BY <1>2, <1>4 DEF Dropped
  <1>6. stamps[1] <= times[(k - Limit) + 1] /\ 1 \in 1..Len(stamps)
    BY <1>1, <1>2, <1>5 DEF Matches
  <1>7. (k - Limit) + 1 \in 1..k
    BY <1>2, <1>4
  <1>8. times[(k - Limit) + 1] \in Nat /\ stamps[1] \in Nat
    BY <1>4, <1>6, <1>7
  <1>9. times[(k - Limit) + 1] > time - Window - Stall
    BY <1>3, <1>6, <1>8
  <1>10. QED
    BY <1>2, <1>4, <1>9

(* The limiter refuses only a tenant that has used up its limit            *)
(* (RefusedOnlyWhenFull).                                                  *)
THEOREM RefusalsAreEarned == Spec => RefusedOnlyWhenFull
  <1> DEFINE Inv == TypeOK /\ ReadingsAreFresh /\ RateInv
             Full(t) == /\ Len(passed[t]) >= Limit
                        /\ passed[t][Len(passed[t]) - Limit + 1] > clock - Window - Stall
             Act == \A c \in Calls :
                        at[c] = "limit" /\ at'[c] = "rate_limited" => Full(TenantOf(c))
  <1>1. Init => Inv
    BY InitType, ReadingsInit, RateInit
  <1>2. Inv /\ [Next]_vars => Inv'
    BY StepType, ReadingsStep, RateStep
  <1>3. Inv /\ [Next]_vars => [Act]_vars
    <2> SUFFICES ASSUME Inv, [Next]_vars, NEW c \in Calls,
                        at[c] = "limit", at'[c] = "rate_limited"
                 PROVE  Full(TenantOf(c))
      OBVIOUS
    <2>1. AllowRate(c)
      <3>1. PICK d \in Calls : Step(d)
        BY NextCases DEF Tick, SetQuota, calls
      <3>2. d = c
        BY <3>1, StepMoves
      <3>3. ~ReadClock(c)
        BY ClockReadFacts DEF ReadClock
      <3>4. QED
        BY <3>1, <3>2, <3>3 DEF Step, IsSuppressed, SeenBefore, Resolve, Uncapped,
           RecordAndCheck, TryDecrement
    <2> DEFINE t == TenantOf(c)
    <2>2. t \in Tenants
      BY RequestFacts
    <2>3. now[c] \in Nat /\ now[c] <= clock /\ clock - now[c] <= Stall /\ clock \in Nat
      BY <2>1 DEF AllowRate, ReadingsAreFresh, Stalled, TypeOK
    <2>4. events[t] \in Seq(Nat) /\ passed[t] \in Seq(Nat)
      BY <2>2 DEF TypeOK
    <2>5. ~Goto(c, "cap")
      BY DEF Goto, TypeOK
    <2>6. PICK n \in 0..Len(events[t]), left \in Seq(Nat) :
              /\ LeavesWindow(events[t], n, now[c])
              /\ Len(left) = Len(events[t]) - n
              /\ \A i \in 1..Len(left) : left[i] = events[t][n + i]
              /\ Len(left) >= Limit
      BY <2>1, <2>5, RateCases
    <2> HIDE DEF t
    <2>7. RateOf(left, passed[t], clock)
      BY <2>2, <2>3, <2>4, <2>6, RateDrop DEF RateInv
    <2>8. Len(left) \in Nat /\ 1 \in 1..Len(left) /\ n < Len(events[t])
      BY <2>4, <2>6, ServiceAssumption
    <2>9. left[1] > now[c] - Window
      BY <2>6, <2>8 DEF LeavesWindow
    <2>10. QED
      BY <2>3, <2>4, <2>6, <2>7, <2>9, FullBucket DEF t
  <1> HIDE DEF Inv
  <1>4. QED
    BY <1>1, <1>2, <1>3, PTL DEF Spec, RefusedOnlyWhenFull
-----------------------------------------------------------------------------
(* The frequency cap.                                                      *)

LEMMA CapInit == Init => CapInv
  BY DEF Init, CapInv

LEMMA CapStep ==
    TypeOK /\ ReadingsAreFresh /\ CapInv /\ [Next]_vars => CapInv'
  <1> SUFFICES ASSUME TypeOK, ReadingsAreFresh, CapInv, [Next]_vars,
                      NEW d \in Calls, counted'[d] # Never
               PROVE  /\ at'[d] \in {"quota", "allow", "quota_exceeded"}
                      /\ counted'[d] <= clock' /\ counted'[d] <= now'[d] + Stall
                      /\ d \in uses'[BucketFor(d)'] \/ now'[d] + Period <= clock'
    BY DEF CapInv
  <1> DEFINE Goal == /\ at'[d] \in {"quota", "allow", "quota_exceeded"}
                     /\ counted'[d] <= clock' /\ counted'[d] <= now'[d] + Stall
                     /\ d \in uses'[BucketFor(d)'] \/ now'[d] + Period <= clock'
  <1>1. /\ clock \in Nat /\ now[d] \in Nat /\ Period \in Nat /\ Stall \in Nat
        /\ counted \in [Calls -> Nat \cup {Never}] /\ Never \notin Int
    BY ServiceAssumption DEF TypeOK
  <1>2. counted[d] # Never =>
            /\ at[d] \in {"quota", "allow", "quota_exceeded"}
            /\ counted[d] <= clock /\ counted[d] <= now[d] + Stall
            /\ d \in uses[BucketFor(d)] \/ now[d] + Period <= clock
    BY DEF CapInv
  <1>3. ASSUME UNCHANGED <<counted, uses, request, now, at>>, clock' \in {clock, clock + 1}
        PROVE  Goal
    <2>1. counted[d] # Never /\ counted[d] \in Nat /\ BucketFor(d)' = BucketFor(d)
      BY <1>1, <1>3 DEF BucketFor
    <2>2. counted[d] <= clock' /\ (now[d] + Period <= clock => now[d] + Period <= clock')
      BY <1>1, <1>2, <1>3, <2>1
    <2>3. QED
      BY <1>2, <1>3, <2>1, <2>2
  <1>4. ASSUME NEW c \in Calls, Step(c), counted[d] # Never
        PROVE  at'[d] \in {"quota", "allow", "quota_exceeded"} /\ now'[d] = now[d]
    <2>1. CASE d # c
      BY <1>2, <1>4, <2>1, StepMoves
    <2>2. CASE d = c
      <3>1. TryDecrement(d)
        BY <1>2, <1>4, <2>2, StepMoves DEF Decisions
      <3>2. (Goto(d, "allow") \/ Goto(d, "quota_exceeded")) /\ now' = now
        BY <3>1 DEF TryDecrement, Decrement
      <3>3. QED
        BY <3>2 DEF Goto, TypeOK
    <2>3. QED
      BY <2>1, <2>2
  <1>5. ASSUME NEW c \in Calls, Step(c), ~RecordAndCheck(c) PROVE Goal
    <2>1. UNCHANGED <<clock, request, uses, counted>>
      BY <1>5, StepTouches
    <2>2. BucketFor(d)' = BucketFor(d)
      BY <2>1 DEF BucketFor
    <2>3. QED
      BY <1>2, <1>4, <1>5, <2>1, <2>2
  <1>6. ASSUME NEW c \in Calls, RecordAndCheck(c) PROVE Goal
    <2>1. Step(c) /\ at[c] = "frequency"
      BY <1>6 DEF Step, RecordAndCheck
    <2>2. UNCHANGED <<clock, request, now>>
      BY <1>6 DEF RecordAndCheck
    <2>3. BucketFor(d)' = BucketFor(d) /\ BucketFor(d) \in Buckets /\ BucketFor(c) \in Buckets
      BY <2>2, RequestFacts DEF BucketFor
    <2>4. /\ now[c] \in Nat /\ now[c] <= clock /\ clock - now[c] <= Stall
      BY <2>1 DEF ReadingsAreFresh, Stalled, TypeOK
    <2>5. CASE d = c
      <3>1. counted[d] = Never
        BY <1>2, <2>1, <2>5
      <3>2. /\ counted' = [counted EXCEPT ![c] = clock] /\ Goto(c, "quota")
            /\ uses' = [uses EXCEPT ![BucketFor(c)] = Remembered(c) \cup {c}]
        BY <1>6, <2>5, <3>1 DEF RecordAndCheck
      <3>3. counted'[d] = clock /\ at'[d] = "quota" /\ d \in uses'[BucketFor(d)]
        BY <2>3, <2>5, <3>2 DEF Goto, TypeOK
      <3>4. clock <= now[d] + Stall
        BY <1>1, <2>4, <2>5
      <3>5. QED
        BY <1>1, <2>2, <2>3, <3>3, <3>4
    <2>6. CASE d # c
      <3>1. counted'[d] = counted[d] /\ counted[d] # Never
        BY <1>1, <1>6, <2>6 DEF RecordAndCheck
      <3>2. /\ BucketFor(c) # BucketFor(d) => uses'[BucketFor(d)] = uses[BucketFor(d)]
            /\ Remembered(c) \subseteq uses'[BucketFor(c)]
        BY <1>6, <2>3 DEF RecordAndCheck, TypeOK
      <3>3. d \in uses[BucketFor(d)] => d \in uses'[BucketFor(d)] \/ now[d] + Period <= clock
        <4>1. CASE BucketFor(c) # BucketFor(d)
          BY <3>2, <4>1
        <4>2. CASE BucketFor(c) = BucketFor(d) /\ now[d] > now[c] - Period
          BY <3>2, <4>2 DEF Remembered
        <4>3. CASE ~(now[d] > now[c] - Period)
          BY <1>1, <2>4, <4>3
        <4>4. QED
          BY <4>1, <4>2, <4>3
      <3>4. QED
        BY <1>2, <1>4, <2>1, <2>2, <2>3, <3>1, <3>3
    <2>7. QED
      BY <2>5, <2>6
  <1>7. QED
    BY <1>3, <1>5, <1>6, NextCases DEF Tick, SetQuota, calls, stores, history

(* When a call is counted, those counted within the period, less a stall,  *)
(* are fewer than the cap (CapWithinPeriod).                               *)
THEOREM CapIsKept == Spec => CapWithinPeriod
  <1> DEFINE Inv == TypeOK /\ ReadingsAreFresh /\ CapInv
             Act == \A c \in Calls :
                        at[c] = "frequency" /\ at'[c] = "quota" =>
                            Cardinality(Recent(c)) < pref[c].cap
  <1>1. Init => Inv
    BY InitType, ReadingsInit, CapInit
  <1>2. Inv /\ [Next]_vars => Inv'
    BY StepType, ReadingsStep, CapStep
  <1>3. Inv /\ [Next]_vars => [Act]_vars
    <2> SUFFICES ASSUME Inv, [Next]_vars, NEW c \in Calls,
                        at[c] = "frequency", at'[c] = "quota"
                 PROVE  Cardinality(Recent(c)) < pref[c].cap
      OBVIOUS
    <2>1. RecordAndCheck(c)
      <3>1. PICK d \in Calls : Step(d)
        BY NextCases DEF Tick, SetQuota, calls
      <3>2. d = c
        BY <3>1, StepMoves
      <3>3. ~ReadClock(c)
        BY ClockReadFacts DEF ReadClock
      <3>4. QED
        BY <3>1, <3>2, <3>3 DEF Step, IsSuppressed, SeenBefore, Resolve, AllowRate,
           Uncapped, TryDecrement
    <2>2. ~Goto(c, "capped")
      BY DEF Goto, TypeOK
    <2>3. Cardinality(Remembered(c)) < pref[c].cap
      BY <2>1, <2>2 DEF RecordAndCheck, Below
    <2>4. /\ now[c] \in Nat /\ now[c] <= clock /\ clock \in Nat
          /\ Period \in Nat /\ Stall \in Nat
      BY <2>1, ServiceAssumption DEF RecordAndCheck, ReadingsAreFresh, Stalled, TypeOK
    <2>5. Recent(c) \subseteq Remembered(c)
      <3> SUFFICES ASSUME NEW d \in Calls, counted[d] # Never,
                          BucketFor(d) = BucketFor(c),
                          counted[d] > clock - Period + Stall
                   PROVE  d \in uses[BucketFor(c)] /\ now[d] > now[c] - Period
        BY DEF Recent, Remembered
      <3>1. counted[d] \in Nat /\ now[d] \in Nat
        BY DEF TypeOK
      <3>2. /\ counted[d] <= now[d] + Stall
            /\ d \in uses[BucketFor(d)] \/ now[d] + Period <= clock
        BY DEF CapInv
      <3>3. now[d] > clock - Period
        BY <2>4, <3>1, <3>2
      <3>4. QED
        BY <2>4, <3>1, <3>2, <3>3
    <2>6. IsFiniteSet(Remembered(c))
      <3>1. Remembered(c) \subseteq Calls
        BY RequestFacts DEF Remembered, TypeOK
      <3>2. QED
        BY <3>1, FS_Subset, ServiceAssumption
    <2>7. /\ Cardinality(Recent(c)) <= Cardinality(Remembered(c))
          /\ Cardinality(Recent(c)) \in Nat /\ Cardinality(Remembered(c)) \in Nat
      BY <2>5, <2>6, FS_Subset, FS_CardinalityType
    <2>8. pref[c].cap \in Int
      BY DEF TypeOK, Preference
    <2>9. QED
      BY <2>3, <2>7, <2>8
  <1> HIDE DEF Inv
  <1>4. QED
    BY <1>1, <1>2, <1>3, PTL DEF Spec, CapWithinPeriod
-----------------------------------------------------------------------------
(* The quota.                                                              *)

LEMMA QuotaInit == Init => QuotaExact
  BY DEF Init, QuotaExact

LEMMA QuotaStep == TypeOK /\ QuotaExact /\ [Next]_vars => QuotaExact'
  <1> SUFFICES ASSUME TypeOK, QuotaExact, [Next]_vars,
                      NEW t \in Tenants, remaining'[t] # Unlimited
               PROVE  /\ remaining'[t] + Cardinality(takers'[t]) = granted'[t]
                      /\ \A d \in takers'[t] : at'[d] = "allow" /\ TenantOf(d)' = t
    BY DEF QuotaExact
  <1> DEFINE Goal == /\ remaining'[t] + Cardinality(takers'[t]) = granted'[t]
                     /\ \A d \in takers'[t] : at'[d] = "allow" /\ TenantOf(d)' = t
  <1>1. /\ takers[t] \in SUBSET Calls /\ IsFiniteSet(takers[t])
        /\ Cardinality(takers[t]) \in Nat /\ granted[t] \in Nat
        /\ remaining[t] \in Nat \cup {Unlimited}
    BY FS_Subset, FS_CardinalityType, ServiceAssumption DEF TypeOK
  <1>2. remaining[t] # Unlimited =>
            /\ remaining[t] + Cardinality(takers[t]) = granted[t]
            /\ \A d \in takers[t] : at[d] = "allow" /\ TenantOf(d) = t
    BY DEF QuotaExact
  <1>3. ASSUME UNCHANGED <<remaining, takers, granted, at, request>> PROVE Goal
    BY <1>2, <1>3 DEF TenantOf
  <1>4. ASSUME NEW c \in Calls, Step(c), remaining[t] # Unlimited
        PROVE  \A d \in takers[t] : d # c /\ at'[d] = "allow" /\ TenantOf(d)' = t
    <2> SUFFICES ASSUME NEW d \in takers[t]
                 PROVE  d # c /\ at'[d] = "allow" /\ TenantOf(d)' = t
      OBVIOUS
    <2>1. d \in Calls /\ at[d] = "allow" /\ TenantOf(d) = t
      BY <1>1, <1>2, <1>4
    <2>2. d # c
      BY <1>4, <2>1, StepMoves DEF Decisions
    <2>3. request' = request
      BY <1>4, StepTouches
    <2>4. QED
      BY <1>4, <2>1, <2>2, <2>3, StepMoves DEF TenantOf
  <1>5. ASSUME NEW c \in Calls, Step(c), UNCHANGED <<remaining[t], takers[t]>> PROVE Goal
    BY <1>2, <1>4, <1>5, StepTouches
  <1>6. ASSUME NEW c \in Calls, TryDecrement(c) PROVE Goal
    <2>1. Step(c) /\ at[c] = "quota" /\ request' = request
      BY <1>6 DEF Step, TryDecrement
    <2>2. CASE t # TenantOf(c)
      <3>1. UNCHANGED <<remaining[t], takers[t]>>
        BY <1>6, <2>2 DEF TryDecrement, Decrement, TypeOK
      <3>2. QED
        BY <1>5, <2>1, <3>1
    <2>3. CASE t = TenantOf(c) /\ UNCHANGED <<remaining, takers>>
      BY <1>5, <2>1, <2>3
    <2>4. CASE /\ t = TenantOf(c) /\ remaining[t] # Unlimited
               /\ Goto(c, "allow")
               /\ remaining' = [remaining EXCEPT ![t] = @ - 1]
               /\ takers' = [takers EXCEPT ![t] = @ \cup {c}]
      <3>1. remaining'[t] = remaining[t] - 1 /\ takers'[t] = takers[t] \cup {c}
        BY <2>4 DEF TypeOK
      <3>2. \A d \in takers[t] : d # c /\ at'[d] = "allow" /\ TenantOf(d)' = t
        BY <1>4, <2>1, <2>4
      <3>3. at'[c] = "allow" /\ TenantOf(c)' = t
        BY <2>1, <2>4 DEF Goto, TenantOf, TypeOK
      <3>4. Cardinality(takers[t] \cup {c}) = Cardinality(takers[t]) + 1
        BY <1>1, <3>2, FS_AddElement
      <3>5. granted'[t] = granted[t]
        BY <2>1, StepTouches
      <3>6. remaining'[t] + Cardinality(takers'[t]) = granted'[t]
        BY <1>1, <1>2, <2>4, <3>1, <3>4, <3>5
      <3>7. QED
        BY <3>1, <3>2, <3>3, <3>6
    <2>5. QED
      BY <1>6, <2>2, <2>3, <2>4 DEF TryDecrement, Decrement
  <1>7. ASSUME NEW u \in Tenants, NEW amount \in Grants, SetQuota(u, amount) PROVE Goal
    <2>1. CASE u = t
      <3>1. /\ remaining'[t] = AtLeastZero(amount) /\ granted'[t] = AtLeastZero(amount)
            /\ takers'[t] = {}
        BY <1>7, <2>1 DEF SetQuota, TypeOK
      <3>2. AtLeastZero(amount) \in Nat
        BY ServiceAssumption DEF AtLeastZero
      <3>3. QED
        BY <3>1, <3>2, FS_EmptySet
    <2>2. CASE u # t
      <3>1. /\ remaining'[t] = remaining[t] /\ granted'[t] = granted[t]
            /\ takers'[t] = takers[t] /\ at' = at /\ request' = request
        BY <1>7, <2>2 DEF SetQuota, TypeOK, calls
      <3>2. QED
        BY <1>2, <3>1 DEF TenantOf
    <2>3. QED
      BY <2>1, <2>2
  <1>8. ASSUME NEW c \in Calls, Step(c) PROVE Goal
    BY <1>5, <1>6, <1>8, StepTouches
  <1>9. QED
    BY <1>3, <1>7, <1>8, NextCases DEF Tick, calls, stores, history

(* What is left of a quota and what allowed calls took of it make up what  *)
(* was granted (QuotaExact).                                               *)
THEOREM QuotaIsExact == Spec => []QuotaExact
  <1>1. Init => TypeOK /\ QuotaExact
    BY InitType, QuotaInit
  <1>2. TypeOK /\ QuotaExact /\ [Next]_vars => (TypeOK /\ QuotaExact)'
    BY StepType, QuotaStep
  <1>3. QED
    BY <1>1, <1>2, PTL DEF Spec
=============================================================================
