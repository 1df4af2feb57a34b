---------------------------- MODULE AgentBusProofs ----------------------------
(***************************************************************************)
(* Theorems about AgentBus, for any servers, calls, keys, retries and any  *)
(* capacity of the cache.                                                  *)
(***************************************************************************)
EXTENDS AgentBus, SequenceTheorems, TLAPS

(* The cache is the end of the log of what was stored: all of it, or as    *)
(* much as there is room for.                                              *)
Window(keys, log) ==
    /\ Len(keys) <= Capacity /\ Len(keys) <= Len(log)
    /\ Len(keys) = Capacity \/ Len(keys) = Len(log)
    /\ \A i \in 1..Len(keys) : keys[i] = log[Len(log) - Len(keys) + i]

FarApart(log) ==
    \A i, j \in 1..Len(log) : i < j /\ log[i] = log[j] => j - i > Capacity

LogInv == \A s \in Servers : /\ Window(remembered[s], stored[s])
                             /\ FarApart(stored[s])

(* What is remembered has run.                                             *)
RealInv ==
    /\ \A s \in Servers : \A i \in 1..Len(remembered[s]) : remembered[s][i] \in ran
    /\ AnswersAreReal
-----------------------------------------------------------------------------

LEMMA EvictedType ==
    ASSUME NEW keys \in Seq(Keys)
    PROVE  /\ Evicted(keys) \in Seq(Keys)
           /\ Len(keys) >= Capacity => Len(Evicted(keys)) = Len(keys) - 1
           /\ Len(keys) >= Capacity =>
                  \A i \in 1..Len(keys) - 1 : Evicted(keys)[i] = keys[i + 1]
           /\ Len(keys) < Capacity => Evicted(keys) = keys
  <1>1. CASE Len(keys) >= Capacity
    <2>1. keys # <<>>
      BY <1>1, InvokeAssumption
    <2>2. QED
      BY <1>1, <2>1, InvokeAssumption DEF Evicted
  <1>2. CASE Len(keys) < Capacity
    BY <1>2, InvokeAssumption DEF Evicted
  <1>3. QED
    BY <1>1, <1>2, InvokeAssumption

LEMMA KeptType ==
    ASSUME NEW keys \in Seq(Keys), NEW key \in Keys
    PROVE  /\ Kept(keys, key) \in Seq(Keys)
           /\ Len(Kept(keys, key)) = Len(Evicted(keys)) + 1
           /\ \A i \in 1..Len(Evicted(keys)) : Kept(keys, key)[i] = Evicted(keys)[i]
           /\ Kept(keys, key)[Len(Evicted(keys)) + 1] = key
  BY EvictedType DEF Kept

LEMMA InitType == Init => TypeOK
  BY InvokeAssumption DEF Init, InvokeInit, TypeOK, Attempts, Fates

(* What a server does to its cache and its log: nothing, a restart, or a   *)
(* key it did not know.                                                    *)
LEMMA ServerEffects ==
    ASSUME TypeOK, NEW s \in Servers, AgentInvokeStep(s)
    PROVE  \/ UNCHANGED <<remembered, stored, ran>>
           \/ /\ remembered' = [remembered EXCEPT ![s] = <<>>]
              /\ stored' = [stored EXCEPT ![s] = <<>>]
              /\ ran' = ran
           \/ \E key \in Keys :
                  /\ ~Knows(s, key)
                  /\ remembered' = [remembered EXCEPT ![s] = Kept(@, key)]
                  /\ stored' = [stored EXCEPT ![s] = Append(@, key)]
                  /\ ran' = ran \cup {key}
  BY InvokeAssumption DEF AgentInvokeStep, Refuse, OverBudget, Replay, Run,
                          HandlerRaises, Restart, TypeOK

LEMMA ClientEffects ==
    ASSUME NEW c \in Calls, Outcome(c)
    PROVE  UNCHANGED invokeVars
  BY DEF Outcome, Return, Refused, Lost, Unavailable, Garbled

LEMMA NextCases ==
    ASSUME [Next]_vars
    PROVE  \/ UNCHANGED vars
           \/ \E c \in Calls : Outcome(c)
           \/ \E c \in Calls, s \in Servers : Post(c, s)
           \/ \E s \in Servers : AgentInvokeStep(s) /\ UNCHANGED clientVars
  BY DEF Next

LEMMA ServerType ==
    ASSUME TypeOK, NEW s \in Servers, AgentInvokeStep(s)
    PROVE  /\ remembered' \in [Servers -> Seq(Keys)]
           /\ stored' \in [Servers -> Seq(Keys)]
           /\ ran' \in SUBSET Keys
           /\ post' \in [Calls \X Attempts -> Servers \cup Fates]
  <1>1. /\ remembered' \in [Servers -> Seq(Keys)]
        /\ stored' \in [Servers -> Seq(Keys)]
        /\ ran' \in SUBSET Keys
    <2>1. CASE UNCHANGED <<remembered, stored, ran>>
      BY <2>1 DEF TypeOK
    <2>2. CASE /\ remembered' = [remembered EXCEPT ![s] = <<>>]
               /\ stored' = [stored EXCEPT ![s] = <<>>]
               /\ ran' = ran
      BY <2>2 DEF TypeOK
    <2>3. ASSUME NEW key \in Keys,
                 remembered' = [remembered EXCEPT ![s] = Kept(@, key)],
                 stored' = [stored EXCEPT ![s] = Append(@, key)],
                 ran' = ran \cup {key}
          PROVE  /\ remembered' \in [Servers -> Seq(Keys)]
                 /\ stored' \in [Servers -> Seq(Keys)]
                 /\ ran' \in SUBSET Keys
      <3>1. /\ remembered[s] \in Seq(Keys) /\ stored[s] \in Seq(Keys)
            /\ remembered \in [Servers -> Seq(Keys)]
            /\ stored \in [Servers -> Seq(Keys)]
        BY DEF TypeOK
      <3>2. Kept(remembered[s], key) \in Seq(Keys) /\ Append(stored[s], key) \in Seq(Keys)
        BY <3>1, KeptType
      <3>3. ran' \in SUBSET Keys
        BY <2>3 DEF TypeOK
      <3>4. QED
        BY <2>3, <3>1, <3>2, <3>3
    <2>4. QED
      BY <2>1, <2>2, <2>3, ServerEffects
  <1>2. post' \in [Calls \X Attempts -> Servers \cup Fates]
    BY DEF AgentInvokeStep, Refuse, OverBudget, Replay, Run, HandlerRaises,
           Restart, Reply, TypeOK, Fates
  <1>3. QED
    BY <1>1, <1>2

LEMMA OutcomeType ==
    ASSUME TypeOK, NEW c \in Calls, Outcome(c)
    PROVE  /\ at' \in [Calls -> {"idle", "waiting", "sleeping"} \cup Endings]
           /\ attempt' \in [Calls -> Attempts]
           /\ last' \in [Calls -> Causes \cup {"none"}]
           /\ chain' \in Keys \cup {NoRef}
  <1>1. attempt[c] \in Attempts /\ KeyOf[c] \in Keys
    BY InvokeAssumption DEF TypeOK
  <1>2. HasRetries(c) => attempt[c] + 1 \in Attempts
    BY <1>1, InvokeAssumption DEF HasRetries, Attempts
  <1>3. at' \in [Calls -> {"idle", "waiting", "sleeping"} \cup Endings]
    BY DEF Outcome, Return, Refused, Lost, Unavailable, Garbled, Except,
           NextAttempt, Goto, Endings, TypeOK
  <1>4. attempt' \in [Calls -> Attempts]
    BY <1>1, <1>2 DEF Outcome, Return, Refused, Lost, Unavailable, Garbled,
                      Except, NextAttempt, TypeOK
  <1>5. last' \in [Calls -> Causes \cup {"none"}]
    BY DEF Outcome, Return, Refused, Lost, Unavailable, Garbled, Except,
           Causes, TypeOK
  <1>6. chain' \in Keys \cup {NoRef}
    BY <1>1 DEF Outcome, Return, Refused, Lost, Unavailable, Garbled, TypeOK
  <1>7. QED
    BY <1>3, <1>4, <1>5, <1>6

LEMMA StepType == TypeOK /\ [Next]_vars => TypeOK'
  <1> SUFFICES ASSUME TypeOK, [Next]_vars PROVE TypeOK'
    OBVIOUS
  <1>1. CASE UNCHANGED vars
    BY <1>1 DEF vars, invokeVars, clientVars, TypeOK
  <1>2. ASSUME NEW c \in Calls, Outcome(c) PROVE TypeOK'
    BY <1>2, ClientEffects, OutcomeType DEF invokeVars, TypeOK
  <1>3. ASSUME NEW c \in Calls, NEW s \in Servers, Post(c, s) PROVE TypeOK'
    BY <1>3 DEF Post, Goto, Current, TypeOK
  <1>4. ASSUME NEW s \in Servers, AgentInvokeStep(s), UNCHANGED clientVars PROVE TypeOK'
    BY <1>4, ServerType DEF clientVars, TypeOK
  <1>5. QED
    BY <1>1, <1>2, <1>3, <1>4, NextCases

(* Every variable keeps its type; in particular no call makes more than    *)
(* MaxRetries + 1 attempts.                                                *)
THEOREM BusTypeCorrect == Spec => []TypeOK
  BY InitType, StepType, PTL DEF Spec
-----------------------------------------------------------------------------
(* Once while remembered.                                                  *)

LEMMA WindowSlides ==
    ASSUME NEW keys \in Seq(Keys), NEW log \in Seq(Keys), NEW key \in Keys,
           Window(keys, log)
    PROVE  Window(Kept(keys, key), Append(log, key))
  <1> DEFINE old == Evicted(keys)
             new == Kept(keys, key)
             longer == Append(log, key)
  <1>1. PICK n \in Nat : n = Len(keys)
    OBVIOUS
  <1>2. PICK k \in Nat : k = Len(log)
    OBVIOUS
  <1>3. PICK m \in Nat : m = Len(old)
    BY EvictedType
  <1>4. /\ longer \in Seq(Keys) /\ Len(longer) = k + 1
        /\ \A i \in 1..k : longer[i] = log[i]
        /\ longer[k + 1] = key
    BY <1>2
  <1>5. /\ new \in Seq(Keys) /\ Len(new) = m + 1
        /\ \A i \in 1..m : new[i] = old[i]
        /\ new[m + 1] = key
    BY <1>3, KeptType
  <1>6. /\ n <= Capacity /\ n <= k
        /\ n = Capacity \/ n = k
        /\ \A i \in 1..n : keys[i] = log[k - n + i]
    BY <1>1, <1>2 DEF Window
  <1>7. /\ m + 1 <= Capacity /\ m <= k
        /\ m + 1 = Capacity \/ m = k
        /\ \A i \in 1..m : old[i] = log[k - m + i]
    <2>1. CASE n >= Capacity
      <3>1. m = n - 1 /\ \A i \in 1..n - 1 : old[i] = keys[i + 1]
        BY <1>1, <1>3, <2>1, EvictedType
      <3>2. \A i \in 1..m : i + 1 \in 1..n /\ k - n + (i + 1) = k - m + i
        BY <3>1
      <3>3. \A i \in 1..m : old[i] = log[k - m + i]
        BY <1>6, <3>1, <3>2
      <3>4. n = Capacity
        BY <1>6, <2>1, InvokeAssumption
      <3>5. QED
        BY <1>6, <3>1, <3>3, <3>4
    <2>2. CASE n < Capacity
      <3>1. old = keys /\ m = n
        BY <1>1, <1>3, <2>2, EvictedType
      <3>2. QED
        BY <1>6, <2>2, <3>1, InvokeAssumption
    <2>3. QED
      BY <2>1, <2>2, InvokeAssumption
  <1> HIDE DEF old, new, longer
  <1>8. \A i \in 1..m + 1 : new[i] = longer[(k + 1) - (m + 1) + i]
    <2> TAKE i \in 1..m + 1
    <2>1. CASE i = m + 1
      BY <1>4, <1>5, <1>7, <2>1
    <2>2. CASE i \in 1..m
      <3>1. k - m + i \in 1..k /\ (k + 1) - (m + 1) + i = k - m + i
        BY <1>7, <2>2
      <3>2. QED
        BY <1>4, <1>5, <1>7, <2>2, <3>1
    <2>3. QED
      BY <2>1, <2>2
  <1>9. Window(new, longer)
    BY <1>4, <1>5, <1>7, <1>8, InvokeAssumption DEF Window
  <1>10. QED
    BY <1>9 DEF new, longer

LEMMA NewKeyIsFar ==
    ASSUME NEW keys \in Seq(Keys), NEW log \in Seq(Keys), NEW key \in Keys,
           Window(keys, log), FarApart(log),
           \A i \in 1..Len(keys) : keys[i] # key
    PROVE  FarApart(Append(log, key))
  <1>1. PICK n \in Nat : n = Len(keys)
    OBVIOUS
  <1>2. PICK k \in Nat : k = Len(log)
    OBVIOUS
  <1> DEFINE longer == Append(log, key)
  <1>3. /\ Len(longer) = k + 1
        /\ \A i \in 1..k : longer[i] = log[i]
        /\ longer[k + 1] = key
    BY <1>2
  <1>4. /\ n <= k
        /\ n = Capacity \/ n = k
        /\ \A i \in 1..n : log[k - n + i] # key
    BY <1>1, <1>2 DEF Window
  <1> HIDE DEF longer
  <1>5. ASSUME NEW i \in 1..k, log[i] = key PROVE k + 1 - i > Capacity
    <2>1. CASE i > k - n
      <3>1. i - (k - n) \in 1..n /\ k - n + (i - (k - n)) = i
        BY <1>4, <2>1
      <3>2. QED
        BY <1>4, <1>5, <3>1
    <2>2. CASE i <= k - n
      BY <1>4, <2>2, InvokeAssumption
    <2>3. QED
      BY <2>1, <2>2
  <1>6. ASSUME NEW i \in 1..k + 1, NEW j \in 1..k + 1, i < j, longer[i] = longer[j]
        PROVE  j - i > Capacity
    <2>1. i \in 1..k /\ longer[i] = log[i]
      BY <1>3, <1>6
    <2>2. CASE j = k + 1
      <3>1. log[i] = key
        BY <1>3, <1>6, <2>1, <2>2
      <3>2. QED
        BY <1>5, <2>1, <2>2, <3>1
    <2>3. CASE j \in 1..k
      <3>1. log[i] = log[j]
        BY <1>3, <1>6, <2>1, <2>3
      <3>2. QED
        BY <1>2, <1>6, <2>1, <2>3, <3>1 DEF FarApart
    <2>4. QED
      BY <2>2, <2>3
  <1>7. FarApart(longer)
    BY <1>3, <1>6 DEF FarApart
  <1>8. QED
    BY <1>7 DEF longer

LEMMA EmptyWindow == Window(<<>>, <<>>) /\ FarApart(<<>>)
  BY InvokeAssumption DEF Window, FarApart

LEMMA LogInit == Init => LogInv
  BY EmptyWindow DEF Init, InvokeInit, LogInv

LEMMA LogStep == TypeOK /\ LogInv /\ [Next]_vars => LogInv'
  <1> SUFFICES ASSUME TypeOK, LogInv, [Next]_vars PROVE LogInv'
    OBVIOUS
  <1>1. CASE UNCHANGED <<remembered, stored>>
    BY <1>1 DEF LogInv
  <1>2. ASSUME NEW s \in Servers, AgentInvokeStep(s) PROVE LogInv'
    <2>1. CASE /\ remembered' = [remembered EXCEPT ![s] = <<>>]
               /\ stored' = [stored EXCEPT ![s] = <<>>]
      BY <2>1, EmptyWindow DEF LogInv, TypeOK
    <2>2. ASSUME NEW key \in Keys, ~Knows(s, key),
                 remembered' = [remembered EXCEPT ![s] = Kept(@, key)],
                 stored' = [stored EXCEPT ![s] = Append(@, key)]
          PROVE  LogInv'
      <3>1. /\ remembered[s] \in Seq(Keys) /\ stored[s] \in Seq(Keys)
            /\ Window(remembered[s], stored[s]) /\ FarApart(stored[s])
        BY DEF LogInv, TypeOK
      <3>2. \A i \in 1..Len(remembered[s]) : remembered[s][i] # key
        BY <2>2 DEF Knows
      <3>3. /\ Window(Kept(remembered[s], key), Append(stored[s], key))
            /\ FarApart(Append(stored[s], key))
        BY <3>1, <3>2, WindowSlides, NewKeyIsFar
      <3>4. \A r \in Servers \ {s} : remembered'[r] = remembered[r] /\ stored'[r] = stored[r]
        BY <2>2 DEF TypeOK
      <3>5. /\ remembered'[s] = Kept(remembered[s], key)
            /\ stored'[s] = Append(stored[s], key)
        BY <2>2 DEF TypeOK
      <3>6. QED
        BY <3>3, <3>4, <3>5 DEF LogInv
    <2>3. QED
      BY <1>1, <1>2, <2>1, <2>2, ServerEffects
  <1>3. QED
    BY <1>1, <1>2, NextCases, ClientEffects DEF Post, vars, invokeVars

(* A key does not run again while it is remembered (OnceWhileRemembered).  *)
THEOREM RunsAreFarApart == Spec => []OnceWhileRemembered
  <1>1. LogInv => OnceWhileRemembered
    BY DEF LogInv, FarApart, OnceWhileRemembered
  <1>2. QED
    BY <1>1, InitType, StepType, LogInit, LogStep, PTL DEF Spec
-----------------------------------------------------------------------------
(* Real answers.                                                           *)

LEMMA RealInit == Init => RealInv
  BY DEF Init, InvokeInit, RealInv, AnswersAreReal

LEMMA KeptIsReal ==
    ASSUME NEW keys \in Seq(Keys), NEW key \in Keys, NEW R,
           \A i \in 1..Len(keys) : keys[i] \in R
    PROVE  \A i \in 1..Len(Kept(keys, key)) : Kept(keys, key)[i] \in R \cup {key}
  <1>1. PICK n \in Nat : n = Len(keys)
    OBVIOUS
  <1>2. PICK m \in Nat : m = Len(Evicted(keys))
    BY EvictedType
  <1>3. \A i \in 1..m : Evicted(keys)[i] \in R
    <2>1. CASE n >= Capacity
      <3>1. m = n - 1 /\ \A i \in 1..n - 1 : Evicted(keys)[i] = keys[i + 1]
        BY <1>1, <1>2, <2>1, EvictedType
      <3>2. \A i \in 1..m : i + 1 \in 1..n
        BY <3>1
      <3>3. QED
        BY <1>1, <3>1, <3>2
    <2>2. CASE n < Capacity
      BY <1>1, <1>2, <2>2, EvictedType
    <2>3. QED
      BY <2>1, <2>2, InvokeAssumption
  <1>4. /\ Len(Kept(keys, key)) = m + 1 /\ Kept(keys, key)[m + 1] = key
        /\ \A i \in 1..m : Kept(keys, key)[i] = Evicted(keys)[i]
    BY <1>2, KeptType
  <1>5. \A i \in 1..m + 1 : i \in 1..m \/ i = m + 1
    OBVIOUS
  <1>6. QED
    BY <1>3, <1>4, <1>5

LEMMA ServerAnswers ==
    ASSUME TypeOK, RealInv, NEW s \in Servers, AgentInvokeStep(s)
    PROVE  /\ ran \subseteq ran'
           /\ \A c \in Calls, a \in Attempts :
                  post'[<<c, a>>] = "ok" => post[<<c, a>>] = "ok" \/ KeyOf[c] \in ran'
  <1>1. CASE Restart(s)
    BY <1>1 DEF Restart
  <1>2. ASSUME NEW c \in Calls, NEW a \in Attempts,
               \/ Refuse(s, c, a) \/ OverBudget(s, c, a) \/ HandlerRaises(s, c, a)
        PROVE  /\ ran' = ran
               /\ \A d \in Calls, b \in Attempts :
                      post'[<<d, b>>] = "ok" => post[<<d, b>>] = "ok"
    BY <1>2 DEF Refuse, OverBudget, HandlerRaises, Reply, TypeOK
  <1>3. ASSUME NEW c \in Calls, NEW a \in Attempts, Replay(s, c, a) \/ Run(s, c, a)
        PROVE  /\ ran \subseteq ran' /\ KeyOf[c] \in ran'
               /\ \A d \in Calls, b \in Attempts :
                      post'[<<d, b>>] = "ok" => post[<<d, b>>] = "ok" \/ d = c
    <2>1. Replay(s, c, a) => KeyOf[c] \in ran
      BY DEF Replay, Knows, RealInv
    <2>2. QED
      BY <1>3, <2>1 DEF Replay, Run, Reply, TypeOK
  <1>4. QED
    BY <1>1, <1>2, <1>3 DEF AgentInvokeStep

LEMMA RealStep == TypeOK /\ RealInv /\ [Next]_vars => RealInv'
  <1> SUFFICES ASSUME TypeOK, RealInv, [Next]_vars PROVE RealInv'
    OBVIOUS
  <1>1. CASE UNCHANGED vars
    BY <1>1 DEF RealInv, AnswersAreReal, vars, invokeVars, clientVars
  <1>2. ASSUME NEW c \in Calls, Outcome(c) PROVE RealInv'
    <2>1. UNCHANGED <<remembered, post, ran>>
      BY <1>2, ClientEffects DEF invokeVars
    <2>2. attempt[c] \in Attempts
      BY DEF TypeOK
    <2>3. chain' # NoRef => chain' \in ran
      BY <1>2, <2>2 DEF Outcome, Return, Refused, Lost, Unavailable, Garbled,
                        Current, RealInv, AnswersAreReal
    <2>4. QED
      BY <2>1, <2>3 DEF RealInv, AnswersAreReal
  <1>3. ASSUME NEW c \in Calls, NEW s \in Servers, Post(c, s) PROVE RealInv'
    <2>1. s # "ok"
      BY InvokeAssumption DEF Fates
    <2>2. \A d \in Calls, b \in Attempts : post'[<<d, b>>] = "ok" => post[<<d, b>>] = "ok"
      BY <1>3, <2>1 DEF Post, TypeOK
    <2>3. QED
      BY <1>3, <2>2 DEF Post, RealInv, AnswersAreReal
  <1>4. ASSUME NEW s \in Servers, AgentInvokeStep(s), UNCHANGED clientVars PROVE RealInv'
    <2>1. /\ ran \subseteq ran'
          /\ \A c \in Calls, a \in Attempts :
                 post'[<<c, a>>] = "ok" => post[<<c, a>>] = "ok" \/ KeyOf[c] \in ran'
      BY <1>4, ServerAnswers
    <2>2. AnswersAreReal'
      BY <1>4, <2>1 DEF RealInv, AnswersAreReal, clientVars
    <2>3. \A r \in Servers : \A i \in 1..Len(remembered'[r]) : remembered'[r][i] \in ran'
      <3>1. CASE UNCHANGED <<remembered, stored, ran>>
        BY <3>1 DEF RealInv
      <3>2. CASE remembered' = [remembered EXCEPT ![s] = <<>>] /\ ran' = ran
        BY <3>2 DEF RealInv, TypeOK
      <3>3. ASSUME NEW key \in Keys, ran' = ran \cup {key},
                   remembered' = [remembered EXCEPT ![s] = Kept(@, key)]
            PROVE  \A r \in Servers :
                       \A i \in 1..Len(remembered'[r]) : remembered'[r][i] \in ran'
        <4>1. remembered[s] \in Seq(Keys) /\ remembered'[s] = Kept(remembered[s], key)
          BY <3>3 DEF TypeOK
        <4>2. \A i \in 1..Len(remembered[s]) : remembered[s][i] \in ran
          BY DEF RealInv
        <4>3. \A i \in 1..Len(Kept(remembered[s], key)) :
                  Kept(remembered[s], key)[i] \in ran \cup {key}
          BY <4>1, <4>2, KeptIsReal
        <4>4. \A r \in Servers \ {s} : remembered'[r] = remembered[r]
          BY <3>3 DEF TypeOK
        <4>5. QED
          BY <3>3, <4>1, <4>3, <4>4 DEF RealInv
      <3>4. QED
        BY <1>4, <3>1, <3>2, <3>3, ServerEffects
    <2>4. QED
      BY <2>2, <2>3 DEF RealInv
  <1>5. QED
    BY <1>1, <1>2, <1>3, <1>4, NextCases

(* Success is never made up (AnswersAreReal).                              *)
THEOREM AnswersNameRuns == Spec => []AnswersAreReal
  <1>1. RealInv => AnswersAreReal
    BY DEF RealInv
  <1>2. QED
    BY <1>1, InitType, StepType, RealInit, RealStep, PTL DEF Spec
-----------------------------------------------------------------------------
(* Causes.                                                                 *)

LEMMA CauseStep == TypeOK /\ RaisesTheCause /\ [Next]_vars => RaisesTheCause'
  <1> SUFFICES ASSUME TypeOK, RaisesTheCause, [Next]_vars PROVE RaisesTheCause'
    OBVIOUS
  <1>1. ASSUME NEW c \in Calls, Outcome(c) PROVE RaisesTheCause'
    <2>1. \A d \in Calls \ {c} : at'[d] = at[d] /\ last'[d] = last[d]
      BY <1>1 DEF Outcome, Return, Refused, Lost, Unavailable, Garbled, Except,
                  NextAttempt, Goto, TypeOK
    <2>2. at'[c] = "raised" => last'[c] # "none"
      BY <1>1 DEF Outcome, Return, Refused, Lost, Unavailable, Garbled, Except,
                  NextAttempt, Goto, TypeOK
    <2>3. QED
      BY <2>1, <2>2 DEF RaisesTheCause
  <1>2. ASSUME NEW c \in Calls, NEW s \in Servers, Post(c, s) PROVE RaisesTheCause'
    BY <1>2 DEF Post, Goto, RaisesTheCause, TypeOK
  <1>3. QED
    BY <1>1, <1>2, NextCases DEF RaisesTheCause, vars, clientVars

(* A call that fails names its cause (RaisesTheCause).                     *)
THEOREM FailuresHaveCauses == Spec => []RaisesTheCause
  <1>1. Init => RaisesTheCause
    BY DEF Init, RaisesTheCause
  <1>2. QED
    BY <1>1, InitType, StepType, CauseStep, PTL DEF Spec
=============================================================================
