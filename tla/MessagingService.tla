--------------------------- MODULE MessagingService ---------------------------
(***************************************************************************)
(* beacon/services/messaging.py: evaluate(), the choke-point of POST       *)
(* /notifications/send, and the stores it asks.  The endpoint is a plain   *)
(* def, so the calls run in the threads of a pool.  Each store has a lock  *)
(* of its own: what it does under the lock is one step here, and between   *)
(* two stores other threads get in.  A store reads the clock before it     *)
(* takes its lock, so the reading is a step too.                           *)
(***************************************************************************)
EXTENDS Integers, Sequences, FiniteSets

CONSTANTS Calls,        \* the evaluate() calls the model makes, once each
          Tenants, Channels, Recipients, Categories, Bodies, Headers,
          Asks,         \* the SendRequests they may carry
          NoHeader,     \* a request without an idempotency key of its own
          Defaults,     \* DEFAULT_CATEGORY_PREFERENCES
          Preferences,  \* what set_preference may be called with
          Grants,       \* what set_quota may be called with
          Limit,        \* rate_limit
          Window,       \* rate_window_seconds, in ticks of the clock
          TTL,          \* ttl_seconds of the idempotency store
          Period,       \* cap_period_seconds, which nobody sets otherwise
          Stall,        \* longest time from reading the clock to the lock
          MaxClock,     \* bound: the clock stops here
          Never, Unlimited

Ask == [tenant : Tenants, channel : Channels, recipient : Recipients,
        category : Categories, body : Bodies, header : Headers \cup {NoHeader}]

Preference == [enabled : BOOLEAN, cap : Int]

ASSUME ServiceAssumption ==
    /\ IsFiniteSet(Calls)
    /\ Asks \subseteq Ask
    /\ Defaults \in [Categories -> Preference]
    /\ Preferences \subseteq Preference
    /\ Grants \subseteq Int
    /\ Limit \in Nat \ {0}
    /\ Window \in Nat \ {0}
    /\ {TTL, Period, Stall, MaxClock} \subseteq Nat
    /\ Never \notin Int
    /\ Unlimited \notin Int

VARIABLES suppressed,  \* <<tenant, channel, recipient>> on the hard list
          seen,        \* idempotency keys, with the reading they came at
          preference,  \* of each tenant and category
          events,      \* rate limiter: readings of each tenant's requests
          uses,        \* frequency cap: the calls in each bucket; the time of
                       \* an event is its call's last reading
          remaining,   \* quota of each tenant
          request,     \* the SendRequest of each call,
          at,          \* what it is at, or what it decided,
          pref,        \* the preference it resolved,
          now,         \* and its last reading of the clock
          clock,       \* time.monotonic()
          first,       \* history: when the key of a call was let pass,
          counted,     \* and when its event entered the frequency bucket
          passed,      \* history: when the limiter let a tenant's requests pass
          granted,     \* history: the last quota set
          takers       \* history: the calls that took a unit of it

stores == <<suppressed, seen, preference, events, uses, remaining>>
calls == <<request, at, pref, now>>
history == <<first, counted, passed, granted, takers>>
vars == <<stores, calls, clock, history>>

Keys == Headers \cup (Tenants \X Channels \X Recipients \X Bodies)

Buckets == Tenants \X Recipients \X Categories

(* derived_idempotency_key.  A caller's own key is not tied to its tenant. *)
KeyOf(ask) == IF ask.header # NoHeader THEN ask.header
              ELSE <<ask.tenant, ask.channel, ask.recipient, ask.body>>

(* The frequency cap does not tell channels apart.                         *)
BucketOf(ask) == <<ask.tenant, ask.recipient, ask.category>>

Decisions == {"allow", "suppressed", "duplicate", "opted_out", "rate_limited",
              "capped", "quota_exceeded"}

(* The stores that read the clock, before and after they have.             *)
ClockRead == [key |-> "dedupe", rate |-> "limit", cap |-> "frequency"]

Stalled == {"dedupe", "limit", "frequency"}

Places == {"suppression", "preference", "quota"}
              \cup DOMAIN ClockRead \cup Stalled \cup Decisions

KeyFor(c) == KeyOf(request[c])

BucketFor(c) == BucketOf(request[c])

TenantOf(c) == request[c].tenant

Init ==
    /\ suppressed = {}
    /\ seen = [k \in Keys |-> Never]
    /\ preference = [tc \in Tenants \X Categories |-> Defaults[tc[2]]]
    /\ events = [t \in Tenants |-> <<>>]
    /\ uses = [b \in Buckets |-> {}]
    /\ remaining = [t \in Tenants |-> Unlimited]
    /\ request \in [Calls -> Asks]
    /\ at = [c \in Calls |-> "suppression"]
    /\ pref = [c \in Calls |-> Defaults[request[c].category]]
    /\ now = [c \in Calls |-> 0]
    /\ first = [c \in Calls |-> Never]
    /\ counted = [c \in Calls |-> Never]
    /\ clock = 0
    /\ passed = [t \in Tenants |-> <<>>]
    /\ granted = [t \in Tenants |-> 0]
    /\ takers = [t \in Tenants |-> {}]

Goto(c, step) == at' = [at EXCEPT ![c] = step]

IsSuppressed(c) ==
    LET ask == request[c]
    IN /\ at[c] = "suppression"
       /\ IF <<ask.tenant, ask.channel, ask.recipient>> \in suppressed
          THEN Goto(c, "suppressed")
          ELSE Goto(c, "key")
       /\ UNCHANGED <<stores, request, pref, now, clock, history>>

(* now = time.monotonic(), the lock not yet taken.  With cap <= 0,         *)
(* record_and_check does not get that far.                                 *)
ReadClock(c) ==
    /\ at[c] \in DOMAIN ClockRead
    /\ at[c] = "cap" => pref[c].cap > 0
    /\ Goto(c, ClockRead[at[c]])
    /\ now' = [now EXCEPT ![c] = clock]
    /\ UNCHANGED <<stores, request, pref, clock, history>>

(* Mutant of Outlived: a key goes one tick early.                          *)
OutlivedEarly(k, time) == seen[k] # Never /\ time - seen[k] >= TTL

Outlived(k, time) == seen[k] # Never /\ time - seen[k] > TTL

(* Mutant of Evicted: nothing is ever forgotten.                           *)
EvictedNever(time) == seen

(* _evict: every key that outlived the TTL at the reading of this thread.  *)
Evicted(time) == [k \in Keys |-> IF Outlived(k, time) THEN Never ELSE seen[k]]

SeenBefore(c) ==
    LET k    == KeyFor(c)
        left == Evicted(now[c])
    IN /\ at[c] = "dedupe"
       /\ IF left[k] # Never
          THEN /\ Goto(c, "duplicate")
               /\ seen' = left
               /\ UNCHANGED first
          ELSE /\ Goto(c, "preference")
               /\ seen' = [left EXCEPT ![k] = now[c]]
               /\ first' = [first EXCEPT ![c] = clock]
       /\ UNCHANGED <<suppressed, preference, events, uses, remaining>>
       /\ UNCHANGED <<request, pref, now, clock, counted, passed, granted, takers>>

(* resolve: what it returns is used to the end of the call.                *)
Resolve(c) ==
    /\ at[c] = "preference"
    /\ pref' = [pref EXCEPT ![c] = preference[<<TenantOf(c), request[c].category>>]]
    /\ Goto(c, IF pref'[c].enabled THEN "rate" ELSE "opted_out")
    /\ UNCHANGED <<stores, request, now, clock, history>>

(* Mutant of LeavesWindow: nothing ever leaves.                            *)
LeavesWindowNever(stamps, n, time) == n = 0

(* The loop over the bucket: its first n events are outside the window,    *)
(* and the next one, if any, is not.  Those behind it are not looked at.   *)
LeavesWindow(stamps, n, time) ==
    /\ \A i \in 1..n : stamps[i] <= time - Window
    /\ n < Len(stamps) => stamps[n + 1] > time - Window

(* Mutant of HasRoom: one request too many.                                *)
HasRoomForOneMore(bucket) == Len(bucket) <= Limit

HasRoom(bucket) == Len(bucket) < Limit

(* SlidingWindowRateLimiter.allow.                                         *)
AllowRate(c) ==
    LET t == TenantOf(c)
    IN /\ at[c] = "limit"
       /\ \E n \in 0..Len(events[t]) :
              LET bucket == SubSeq(events[t], n + 1, Len(events[t]))
              IN /\ LeavesWindow(events[t], n, now[c])
                 /\ IF HasRoom(bucket)
                    THEN /\ Goto(c, "cap")
                         /\ events' = [events EXCEPT ![t] = Append(bucket, now[c])]
                         /\ passed' = [passed EXCEPT ![t] = Append(@, clock)]
                    ELSE /\ Goto(c, "rate_limited")
                         /\ events' = [events EXCEPT ![t] = bucket]
                         /\ UNCHANGED passed
       /\ UNCHANGED <<suppressed, seen, preference, uses, remaining>>
       /\ UNCHANGED <<request, pref, now, clock, first, counted, granted, takers>>

(* record_and_check with cap <= 0: True at once.                           *)
Uncapped(c) ==
    /\ at[c] = "cap"
    /\ pref[c].cap <= 0
    /\ Goto(c, "quota")
    /\ UNCHANGED <<stores, request, pref, now, clock, history>>

(* Mutant of Below: the cap itself is let pass.                            *)
BelowOrAt(bucket, cap) == Cardinality(bucket) <= cap

Below(bucket, cap) == Cardinality(bucket) < cap

(* The events of the bucket that are inside the period at this reading.    *)
Remembered(c) == {d \in uses[BucketFor(c)] : now[d] > now[c] - Period}

RecordAndCheck(c) ==
    LET b == BucketFor(c)
    IN /\ at[c] = "frequency"
       /\ IF Below(Remembered(c), pref[c].cap)
          THEN /\ Goto(c, "quota")
               /\ uses' = [uses EXCEPT ![b] = Remembered(c) \cup {c}]
               /\ counted' = [counted EXCEPT ![c] = clock]
          ELSE /\ Goto(c, "capped")
               /\ uses' = [uses EXCEPT ![b] = Remembered(c)]
               /\ UNCHANGED counted
       /\ UNCHANGED <<suppressed, seen, preference, events, remaining>>
       /\ UNCHANGED <<request, pref, now, clock, first, passed, granted, takers>>

(* Mutant of Decrement: it subtracts first and compares then.              *)
SubtractThenCompare(c, t) ==
    /\ remaining' = [remaining EXCEPT ![t] = @ - 1]
    /\ \/ /\ remaining[t] < 1
          /\ Goto(c, "quota_exceeded")
          /\ UNCHANGED takers
       \/ /\ remaining[t] >= 1
          /\ Goto(c, "allow")
          /\ takers' = [takers EXCEPT ![t] = @ \cup {c}]

(* try_decrement for a tenant whose quota is configured.                   *)
Decrement(c, t) ==
    \/ /\ remaining[t] < 1
       /\ Goto(c, "quota_exceeded")
       /\ UNCHANGED <<remaining, takers>>
    \/ /\ remaining[t] >= 1
       /\ Goto(c, "allow")
       /\ remaining' = [remaining EXCEPT ![t] = @ - 1]
       /\ takers' = [takers EXCEPT ![t] = @ \cup {c}]

TryDecrement(c) ==
    LET t == TenantOf(c)
    IN /\ at[c] = "quota"
       /\ \/ /\ remaining[t] = Unlimited
             /\ Goto(c, "allow")
             /\ UNCHANGED <<remaining, takers>>
          \/ /\ remaining[t] # Unlimited
             /\ Decrement(c, t)
       /\ UNCHANGED <<suppressed, seen, preference, events, uses>>
       /\ UNCHANGED <<request, pref, now, clock, first, counted, passed, granted>>

(* Mutant of AtLeastZero: set_quota takes the amount as it is.             *)
AsGiven(amount) == amount

AtLeastZero(amount) == IF amount < 0 THEN 0 ELSE amount

SetQuota(t, amount) ==
    /\ remaining' = [remaining EXCEPT ![t] = AtLeastZero(amount)]
    /\ granted' = [granted EXCEPT ![t] = AtLeastZero(amount)]
    /\ takers' = [takers EXCEPT ![t] = {}]
    /\ UNCHANGED <<suppressed, seen, preference, events, uses>>
    /\ UNCHANGED <<calls, clock, first, counted, passed>>

Suppress(t, channel, recipient) ==
    /\ suppressed' = suppressed \cup {<<t, channel, recipient>>}
    /\ UNCHANGED <<seen, preference, events, uses, remaining, calls, clock, history>>

SetPreference(t, category, p) ==
    /\ preference' = [preference EXCEPT ![<<t, category>>] = p]
    /\ UNCHANGED <<suppressed, seen, events, uses, remaining, calls, clock, history>>

Tick ==
    /\ clock < MaxClock
    /\ \A c \in Calls : at[c] \in Stalled => clock - now[c] < Stall
    /\ clock' = clock + 1
    /\ UNCHANGED <<stores, calls, history>>

Step(c) ==
    \/ IsSuppressed(c)
    \/ ReadClock(c)
    \/ SeenBefore(c)
    \/ Resolve(c)
    \/ AllowRate(c)
    \/ Uncapped(c)
    \/ RecordAndCheck(c)
    \/ TryDecrement(c)

Next ==
    \/ \E c \in Calls : Step(c)
    \/ \E t \in Tenants, amount \in Grants : SetQuota(t, amount)
    \/ \E ask \in Asks : Suppress(ask.tenant, ask.channel, ask.recipient)
    \/ \E ask \in Asks, p \in Preferences :
           SetPreference(ask.tenant, ask.category, p)
    \/ Tick

Spec == Init /\ [][Next]_vars
-----------------------------------------------------------------------------

TypeOK ==
    /\ suppressed \in SUBSET (Tenants \X Channels \X Recipients)
    /\ seen \in [Keys -> Nat \cup {Never}]
    /\ preference \in [Tenants \X Categories -> Preference]
    /\ events \in [Tenants -> Seq(Nat)]
    /\ uses \in [Buckets -> SUBSET Calls]
    /\ remaining \in [Tenants -> Nat \cup {Unlimited}]
    /\ request \in [Calls -> Asks]
    /\ at \in [Calls -> Places]
    /\ pref \in [Calls -> Preference]
    /\ now \in [Calls -> Nat]
    /\ clock \in Nat
    /\ first \in [Calls -> Nat \cup {Never}]
    /\ counted \in [Calls -> Nat \cup {Never}]
    /\ passed \in [Tenants -> Seq(Nat)]
    /\ granted \in [Tenants -> Nat]
    /\ takers \in [Tenants -> SUBSET Calls]

LetPass(c) == first[c] # Never

(* Whatever the threads do, a key is let pass once in its lifetime: two    *)
(* calls with one key that both pass are more than the TTL apart, less     *)
(* what the first one stalled between reading the clock and storing it.    *)
KeyOncePerLifetime ==
    \A c, d \in Calls :
        c # d /\ LetPass(c) /\ LetPass(d) /\ KeyFor(c) = KeyFor(d) =>
            \/ first[c] - first[d] > TTL - Stall
            \/ first[d] - first[c] > TTL - Stall

(* And nobody is called a duplicate once that time is over: there is a     *)
(* call with the same key that was let pass no longer ago than the TTL and *)
(* one stall.                                                              *)
DuplicateOnlyWhileRemembered ==
    [][\A d \in Calls :
           at[d] = "dedupe" /\ at'[d] = "duplicate" =>
               \E c \in Calls : /\ LetPass(c) /\ KeyFor(c) = KeyFor(d)
                                /\ clock - first[c] <= TTL + Stall]_vars

(* The rate limit holds in real time although the bucket is filled with    *)
(* readings of the past, out of order, and pruned from its head only:      *)
(* Limit + 1 requests of a tenant never pass within a window, less one     *)
(* stall.                                                                  *)
RateWithinWindow ==
    \A t \in Tenants : \A i \in 1 .. Len(passed[t]) - Limit :
        passed[t][i + Limit] - passed[t][i] >= Window - Stall

(* And it refuses only who has used it up: Limit requests have passed in   *)
(* the last window and stall, even when the bucket holds events that are   *)
(* out of date behind one that is not.                                     *)
RefusedOnlyWhenFull ==
    [][\A c \in Calls :
           at[c] = "limit" /\ at'[c] = "rate_limited" =>
               LET times == passed[TenantOf(c)]
               IN /\ Len(times) >= Limit
                  /\ times[Len(times) - Limit + 1] > clock - Window - Stall]_vars

Recent(c) == {d \in Calls : /\ counted[d] # Never
                            /\ BucketFor(d) = BucketFor(c)
                            /\ counted[d] > clock - Period + Stall}

(* The frequency cap holds under interleaving: when a call is counted, the *)
(* calls counted for the same recipient and category within the period,    *)
(* less one stall, are fewer than the cap it has resolved.                 *)
CapWithinPeriod ==
    [][\A c \in Calls :
           at[c] = "frequency" /\ at'[c] = "quota" =>
               Cardinality(Recent(c)) < pref[c].cap]_vars

(* The quota is exact: what is left and what was taken by calls that were  *)
(* allowed since it was set make up what was granted, so a call another    *)
(* guard refuses takes none and no unit is given twice.                    *)
QuotaExact ==
    \A t \in Tenants :
        remaining[t] # Unlimited =>
            /\ remaining[t] + Cardinality(takers[t]) = granted[t]
            /\ \A c \in takers[t] : at[c] = "allow" /\ TenantOf(c) = t
=============================================================================
