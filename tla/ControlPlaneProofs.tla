--------------------------- MODULE ControlPlaneProofs ---------------------------
(***************************************************************************)
(* What the parts of ControlPlane promise, for every value of their        *)
(* constants.  Each part is proved about by itself, from an inductive      *)
(* invariant of its own; Spec implies the specification of each of these.  *)
(***************************************************************************)
EXTENDS ControlPlane, FiniteSetTheorems, SequenceTheorems, TLAPS

-----------------------------------------------------------------------------
(* Access.                                                                  *)

(* What holds of a request on its way: its credential stands for rights[r] *)
(* as long as it stands for anything, and what it has passed so far it has *)
(* passed with one of these rights, and not under the strict policy.        *)
Admitted(r) ==
    /\ place[r] # "none" => caller[r] \in Tokens \cup Users
    /\ place[r] # "none" /\ caller[r] \in Tokens =>
           /\ owner[caller[r]] # Nowhere
           /\ Live(caller[r]) => owner[caller[r]] \in rights[r]
    /\ place[r] # "none" /\ caller[r] \in Users =>
           \A o \in Organizations : <<caller[r], o>> \in members => o \in rights[r]
    /\ place[r] = "tenancy" /\ caller[r] \in Tokens =>
           policy # "strict" /\ owner[caller[r]] \in rights[r]
    /\ place[r] = "handler" => policy # "strict" /\ OrganizationOf(r) \in rights[r]
    /\ place[r] = "answered" => policy # "strict"
    /\ touched[r] \subseteq rights[r]
    /\ place[r] # "answered" => touched[r] = {}

AccessInv == AccessTypeOK /\ \A r \in Requests : Admitted(r)

LEMMA AccessInitially == AccessInit => AccessInv
  BY AccessAssumption
  DEF AccessInit, AccessInv, AccessTypeOK, Places, Policies, Admitted

(* An answered request keeps the invariant if it worked on its own         *)
(* organization only; it may have created a token or revoked some.         *)
LEMMA AnswerPreserved ==
  ASSUME AccessInv, NEW r \in Requests, NEW orgs, Answer(r, orgs), place[r] = "handler",
         owner' = owner \/ \E t \in Tokens : /\ owner[t] = Nowhere
                                /\ owner' = [owner EXCEPT ![t] = OrganizationOf(r)],
         revoked \subseteq revoked',
         revoked' \subseteq {t \in Tokens : owner[t] # Nowhere},
         UNCHANGED <<expired, members>>,
         orgs \subseteq {OrganizationOf(r)}
  PROVE  AccessInv'
<1> USE AccessAssumption DEF AccessInv
<1>1. OrganizationOf(r) \in Organizations /\ OrganizationOf(r) \in rights[r]
  BY DEF AccessTypeOK, Admitted
<1>2. owner' \in [Tokens -> Organizations \cup {Nowhere}]
  BY <1>1 DEF AccessTypeOK
<1>3. \A t \in Tokens : owner[t] # Nowhere => owner'[t] = owner[t]
  BY DEF AccessTypeOK
<1>4. AccessTypeOK'
  BY <1>1, <1>2, <1>3 DEF Answer, credentials, AccessTypeOK, Places
<1>5. ASSUME NEW q \in Requests PROVE Admitted(q)'
  <2>1. place'[q] # "none" => place[q] # "none"
    BY DEF Answer, AccessTypeOK, Places
  <2>2. place'[q] \in {"tenancy", "handler"} => place'[q] = place[q]
    BY DEF Answer, AccessTypeOK, Places
  <2>3. touched'[q] \subseteq rights'[q]
    BY <1>1 DEF Answer, AccessTypeOK, Admitted
  <2>9. place'[q] # "answered" => touched'[q] = {}
    BY DEF Answer, AccessTypeOK, Admitted
  <2>4. UNCHANGED <<policy, caller, claim, header, rights>>
    BY DEF Answer, credentials
  <2>5. place'[q] = "answered" => policy # "strict"
    BY DEF Answer, AccessTypeOK, Places, Admitted
  <2>6. \A t \in Tokens : owner[t] # Nowhere /\ Live(t)' => Live(t)
    BY <1>3 DEF Live
  <2>7. ASSUME place[q] # "none", caller[q] \in Tokens
        PROVE  owner'[caller[q]] = owner[caller[q]] /\ owner[caller[q]] # Nowhere
    BY <1>3, <2>7 DEF Admitted
  <2>8. OrganizationOf(q)' = OrganizationOf(q) \/ place[q] = "none"
    BY <2>4, <2>7 DEF OrganizationOf
  <2> QED
    BY <2>1, <2>2, <2>3, <2>4, <2>5, <2>6, <2>7, <2>8, <2>9 DEF Admitted
<1> QED
  BY <1>4, <1>5

LEMMA AccessPreserved == AccessInv /\ [AccessNext]_accessVars => AccessInv'
<1> SUFFICES ASSUME AccessInv, [AccessNext]_accessVars PROVE AccessInv'
  OBVIOUS
<1> USE AccessAssumption DEF AccessInv
<1>1. ASSUME NEW r \in Requests, NEW who \in Tokens \cup Users,
             NEW c \in Organizations \cup {Nowhere},
             NEW h \in Organizations \cup {Nowhere}, Arrive(r, who, c, h)
      PROVE  AccessInv'
  <2>1. AccessTypeOK'
    BY <1>1 DEF Arrive, tables, RightsOf, AccessTypeOK, Places
  <2>2. ASSUME NEW q \in Requests PROVE Admitted(q)'
    <3>1. CASE q = r
      <4>1. /\ caller'[q] = who /\ place'[q] = "authentication"
            /\ rights'[q] = RightsOf(who) /\ touched'[q] = {}
            /\ UNCHANGED tables
        BY <1>1, <3>1 DEF Arrive, AccessTypeOK, Admitted
      <4>2. who \in Tokens => who \notin Users
        OBVIOUS
      <4> QED
        BY <1>1, <4>1, <4>2 DEF Arrive, tables, RightsOf, Live, AccessTypeOK, Admitted
    <3>2. CASE q # r
      BY <1>1, <3>2 DEF Arrive, tables, Live, AccessTypeOK, Admitted, OrganizationOf
    <3> QED
      BY <3>1, <3>2
  <2> QED
    BY <2>1, <2>2
<1>2. ASSUME NEW r \in Requests, Authenticate(r) PROVE AccessInv'
  <2>1. AccessTypeOK'
    BY <1>2 DEF Authenticate, Moves, tables, credentials, AccessTypeOK, Places
  <2>2. ASSUME NEW q \in Requests PROVE Admitted(q)'
    BY <1>2, <2>2 DEF Authenticate, Moves, tables, credentials, Live, WorkerFinds, Visible, Unbound,
                      AccessTypeOK, Places, Admitted, OrganizationOf
  <2> QED
    BY <2>1, <2>2
<1>3. ASSUME NEW r \in Requests, CheckOrganization(r) PROVE AccessInv'
  <2>1. AccessTypeOK'
    BY <1>3 DEF CheckOrganization, Moves, tables, credentials, AccessTypeOK, Places
  <2>2. OrganizationOf(r) \in Organizations \cup {Nowhere}
    BY <1>3 DEF CheckOrganization, AccessTypeOK, OrganizationOf, Admitted
  <2>3. ASSUME NEW q \in Requests PROVE Admitted(q)'
    <3>1. CASE q = r
      BY <1>3, <2>2, <3>1 DEF CheckOrganization, Moves, tables, credentials, Live,
                WorkerFinds, Visible, Unbound, AccessTypeOK, Places, Admitted, OrganizationOf
    <3>2. CASE q # r
      BY <1>3, <3>2, <2>3 DEF CheckOrganization, Moves, tables, credentials, Live,
                AccessTypeOK, Places, Admitted, OrganizationOf
    <3> QED
      BY <3>1, <3>2
  <2> QED
    BY <2>1, <2>3
<1>4. ASSUME NEW r \in Requests, ListTokens(r) PROVE AccessInv'
  <2>1. {owner[t] : t \in TokensOf(OrganizationOf(r))} \subseteq {OrganizationOf(r)}
    BY DEF TokensOf, ScopedTo
  <2>2. /\ place[r] = "handler"
        /\ revoked \subseteq revoked' /\ UNCHANGED <<owner, revoked, expired, members>>
    BY <1>4 DEF ListTokens, Answer, tables
  <2>3. revoked' \subseteq {t \in Tokens : owner[t] # Nowhere}
    BY <2>2 DEF AccessTypeOK
  <2> QED
    BY AnswerPreserved, <1>4, <2>1, <2>2, <2>3 DEF ListTokens
<1>5. ASSUME NEW r \in Requests, NEW t \in Tokens, CreateToken(r, t) PROVE AccessInv'
  BY AnswerPreserved, <1>5 DEF CreateToken, NewToken, Answer, AccessTypeOK
<1>6. ASSUME NEW r \in Requests, NEW t \in Tokens, RevokeToken(r, t) PROVE AccessInv'
  <2>1. OrganizationOf(r) # Nowhere
    BY <1>6 DEF RevokeToken, Answer, AccessTypeOK, Admitted
  <2>2. TokensOf(OrganizationOf(r)) \subseteq {u \in Tokens : owner[u] = OrganizationOf(r)}
    BY DEF TokensOf, ScopedTo
  <2>3. {owner[u] : u \in TokensOf(OrganizationOf(r)) \cap {t}} \subseteq {OrganizationOf(r)}
    BY <2>2
  <2>4. /\ place[r] = "handler"
        /\ revoked' = revoked \cup (TokensOf(OrganizationOf(r)) \cap {t})
        /\ UNCHANGED <<owner, expired, members>>
    BY <1>6 DEF RevokeToken, Answer
  <2>5. revoked \subseteq revoked' /\ revoked' \subseteq {u \in Tokens : owner[u] # Nowhere}
    BY <2>1, <2>2, <2>4 DEF AccessTypeOK
  <2> QED
    BY AnswerPreserved, <1>6, <2>3, <2>4, <2>5 DEF RevokeToken
<1>7. ASSUME NEW t \in Tokens, Expire(t) PROVE AccessInv'
  <2>1. AccessTypeOK'
    BY <1>7 DEF Expire, Live, credentials, AccessTypeOK
  <2>2. ASSUME NEW q \in Requests PROVE Admitted(q)'
    BY <1>7, <2>2 DEF Expire, Live, credentials, Admitted, OrganizationOf
  <2> QED
    BY <2>1, <2>2
<1>8. ASSUME NEW u \in Users, NEW o \in Organizations, MembershipChanges(u, o)
      PROVE  AccessInv'
  <2>1. \A r \in Requests : rights'[r] = rights[r] \cup
              {p \in {o} : caller[r] = u /\ <<u, p>> \in members'}
    BY <1>8 DEF MembershipChanges
  <2>2. members' \subseteq members \cup {<<u, o>>} /\ members' \subseteq Users \X Organizations
    BY <1>8 DEF MembershipChanges, AccessTypeOK
  <2>3. AccessTypeOK'
    BY <1>8, <2>2 DEF MembershipChanges, credentials, AccessTypeOK
  <2>4. ASSUME NEW q \in Requests PROVE Admitted(q)'
    <3>1. rights[q] \subseteq rights'[q]
      BY <2>1
    <3>2. ASSUME place[q] # "none", caller[q] \in Users, NEW p \in Organizations,
                 <<caller[q], p>> \in members'
          PROVE  p \in rights'[q]
      BY <2>1, <2>2, <3>1, <3>2 DEF Admitted
    <3> QED
      BY <1>8, <3>1, <3>2 DEF MembershipChanges, credentials, Admitted, Live,
                              OrganizationOf
  <2> QED
    BY <2>3, <2>4
<1>9. ASSUME UNCHANGED accessVars PROVE AccessInv'
  BY <1>9 DEF accessVars, tables, credentials, AccessTypeOK, Admitted, Live,
               OrganizationOf
<1> QED
  BY <1>1, <1>2, <1>3, <1>4, <1>5, <1>6, <1>7, <1>8, <1>9 DEF AccessNext

SegmentsInv == AccessInv /\ SegmentsTypeOK

LEMMA SegmentsPreserved == SegmentsInv /\ [SegmentsNext]_segmentVars => SegmentsInv'
<1> SUFFICES ASSUME SegmentsInv, [SegmentsNext]_segmentVars PROVE SegmentsInv'
  OBVIOUS
<1> USE AccessAssumption DEF SegmentsInv, SegmentsTypeOK
<1>0. ASSUME AccessInv' PROVE AccessTypeOK'
  BY <1>0 DEF AccessInv
<1>1. CASE AccessNext /\ UNCHANGED segmentOf
  BY <1>0, <1>1, AccessPreserved
<1>2. ASSUME NEW r \in Requests, NEW orgs, Answer(r, orgs), UNCHANGED tables,
             orgs \subseteq {OrganizationOf(r)}
      PROVE  AccessInv'
  <2>1. /\ place[r] = "handler" /\ UNCHANGED <<owner, revoked, expired, members>>
        /\ revoked' \subseteq {t \in Tokens : owner[t] # Nowhere}
    BY <1>2 DEF Answer, tables, AccessTypeOK
  <2> QED
    BY <1>2, <2>1, AnswerPreserved
<1>3. ASSUME NEW r \in Requests, CreateSegment(r) PROVE SegmentsInv'
  <2>1. AccessInv'
    BY <1>2, <1>3 DEF CreateSegment
  <2>2. OrganizationOf(r) \in Organizations
    BY <1>3 DEF CreateSegment, Answer, AccessInv, AccessTypeOK, Admitted
  <2> QED
    BY <1>0, <1>3, <2>1, <2>2 DEF CreateSegment
<1>4. ASSUME NEW r \in Requests, ListSegments(r) PROVE SegmentsInv'
  <2>1. {segmentOf[s] : s \in {t \in Requests : Finds(r, t)}} \subseteq {OrganizationOf(r)}
    BY DEF Finds
  <2>2. AccessInv'
    BY <1>2, <1>4, <2>1 DEF ListSegments
  <2> QED
    BY <1>0, <1>4, <2>2 DEF ListSegments
<1>5. ASSUME NEW r \in Requests, NEW s \in Requests, UseSegment(r, s) PROVE SegmentsInv'
  <2>1. (IF Finds(r, s) THEN {segmentOf[s]} ELSE {}) \subseteq {OrganizationOf(r)}
    BY DEF Finds
  <2>2. AccessInv'
    BY <1>2, <1>5, <2>1 DEF UseSegment
  <2> QED
    BY <1>0, <1>5, <2>2 DEF UseSegment
<1>6. ASSUME NEW r \in Requests, NEW s \in Requests, DeleteSegment(r, s) PROVE SegmentsInv'
  <2>1. (IF Finds(r, s) THEN {segmentOf[s]} ELSE {}) \subseteq {OrganizationOf(r)}
    BY DEF Finds
  <2>2. AccessInv'
    BY <1>2, <1>6, <2>1 DEF DeleteSegment
  <2> QED
    BY <1>0, <1>6, <2>2 DEF DeleteSegment
<1>7. CASE AccessRestart
  <2>1. /\ UNCHANGED <<policy, owner, revoked, expired, members, caller, claim, header,
                       touched, rights>>
        /\ place' \in [Requests -> Places]
        /\ \A q \in Requests : place'[q] \in {place[q], "refused"}
        /\ \A q \in Requests : place'[q] = "refused" /\ place[q] # "refused" =>
                                  place[q] \notin {"none", "answered"}
    BY <1>7 DEF AccessRestart, tables, credentials, AccessTypeOK, Places
  <2>2. AccessTypeOK'
    BY <2>1 DEF AccessTypeOK
  <2>3. ASSUME NEW q \in Requests PROVE Admitted(q)'
    BY <2>1 DEF AccessInv, Admitted, Live, OrganizationOf
  <2>4. AccessInv'
    BY <2>2, <2>3 DEF AccessInv
  <2> QED
    BY <1>0, <1>7, <2>4 DEF AccessRestart
<1>8. CASE UNCHANGED segmentVars
  BY <1>0, <1>8, AccessPreserved DEF segmentVars
<1> QED
  BY <1>1, <1>3, <1>4, <1>5, <1>6, <1>7, <1>8 DEF SegmentsNext

LEMMA SegmentsInvariant == SegmentsSpec => []SegmentsInv
<1>1. SegmentsInit => SegmentsInv
  BY AccessInitially DEF SegmentsInit, SegmentsInv, SegmentsTypeOK, AccessInv
<1> QED
  BY <1>1, SegmentsPreserved, PTL DEF SegmentsSpec

(* The tables, segments and requests of Access stay of their types.        *)
THEOREM AccessTypeCorrect == SegmentsSpec => []SegmentsTypeOK
<1>1. SegmentsInv => SegmentsTypeOK
  BY DEF SegmentsInv
<1> QED
  BY <1>1, SegmentsInvariant, PTL

(* However tokens are revoked and expire and memberships change while      *)
(* requests are between the middlewares and their handler, none works on   *)
(* an organization its credential did not stand for.                       *)
THEOREM RequestsKeepToTheirOwn == SegmentsSpec => []TouchesOnlyOwn
<1>1. SegmentsInv => TouchesOnlyOwn
  BY DEF SegmentsInv, AccessInv, Admitted, TouchesOnlyOwn
<1> QED
  BY <1>1, SegmentsInvariant, PTL

(* Under the strict policy no request gets through to a handler.           *)
THEOREM LookupsNeedBypass == SegmentsSpec => []UnscopedFindsNothing
<1>1. SegmentsInv => UnscopedFindsNothing
  BY DEF SegmentsInv, AccessInv, Admitted, UnscopedFindsNothing
<1> QED
  BY <1>1, SegmentsInvariant, PTL

-----------------------------------------------------------------------------
(* EmailDomains.                                                            *)

(* What a verification has found was shown to it, as is all that DNS has   *)
(* while it runs, and its domain exists.                                   *)
Founded(v) ==
    /\ lookup[v] = "load" => found[v] = {}
    /\ lookup[v] # "load" => target[v] \in domains /\ found[v] \subseteq shown[v]
    /\ Running(v) =>
           \A r \in Records : <<target[v][2], r>> \in zone => r \in shown[v]

DomainsInv ==
    /\ DomainsTypeOK
    /\ \A v \in Verifiers : Founded(v)
    /\ VerifiedWasPublished

LEMMA DomainsInitially == DomainsInit => DomainsInv
  BY DomainsAssumption
  DEF DomainsInit, DomainsInv, DomainsTypeOK, Founded, Running, VerifiedWasPublished, Domain,
      Checked, Records

(* Nothing is taken from what is verified or passed, and what an ended     *)
(* verification was shown stays.                                           *)
LEMMA VerdictsKept ==
  ASSUME VerifiedWasPublished,
         \A v \in Verifiers : lookup[v] = "done" =>
             lookup'[v] = "done" /\ target'[v] = target[v] /\ shown'[v] = shown[v],
         UNCHANGED <<verified, status>>
  PROVE  VerifiedWasPublished'
  BY DEF VerifiedWasPublished, Ended

LEMMA DomainsPreserved == DomainsInv /\ [DomainsNext]_domainVars => DomainsInv'
<1> SUFFICES ASSUME DomainsInv, [DomainsNext]_domainVars PROVE DomainsInv'
  OBVIOUS
<1> USE DomainsAssumption DEF DomainsInv
<1>1. ASSUME NEW d \in Domain, CreateDomain(d) \/ CommitDomain(d) \/ CreationDies(d)
      PROVE  DomainsInv'
  <2>1. /\ UNCHANGED <<zone, verified, status, verifications>>
        /\ domains \subseteq domains' /\ domains' \subseteq Domain
        /\ inserting' \subseteq Domain /\ domains' \cap inserting' = {}
    BY <1>1 DEF CreateDomain, CommitDomain, CreationDies, DomainsTypeOK
  <2>2. DomainsTypeOK'
    BY <2>1 DEF DomainsTypeOK, verifications
  <2>3. \A v \in Verifiers : Founded(v)'
    BY <2>1 DEF Founded, Running, verifications
  <2> QED
    BY <2>1, <2>2, <2>3, VerdictsKept DEF verifications
<1>2. ASSUME NEW n \in Names, NEW r \in Records, DnsChanges(n, r) PROVE DomainsInv'
  <2>1. DomainsTypeOK'
    BY <1>2 DEF DnsChanges, DomainsTypeOK
  <2>2. \A v \in Verifiers : shown[v] \subseteq shown'[v]
                              /\ (lookup[v] = "done" => shown'[v] = shown[v])
    BY <1>2 DEF DnsChanges, Running, DomainsTypeOK
  <2>3. \A v \in Verifiers : Founded(v)'
    <3> SUFFICES ASSUME NEW v \in Verifiers PROVE Founded(v)'
      OBVIOUS
    <3>1. ASSUME Running(v), NEW s \in Records, <<target[v][2], s>> \in zone'
          PROVE  s \in shown'[v]
      <4>1. CASE target[v][2] = n /\ s = r
        BY <1>2, <3>1, <4>1 DEF DnsChanges
      <4>2. CASE ~(target[v][2] = n /\ s = r)
        <5>1. <<target[v][2], s>> \in zone
          BY <1>2, <3>1, <4>2 DEF DnsChanges
        <5> QED
          BY <3>1, <5>1, <2>2 DEF Founded
      <4> QED
        BY <4>1, <4>2
    <3> QED
      BY <1>2, <2>2, <3>1 DEF DnsChanges, Founded, Running
  <2> QED
    BY <1>2, <2>1, <2>2, <2>3, VerdictsKept DEF DnsChanges
<1>3. ASSUME NEW v \in Verifiers, NEW d \in Domain, Load(v, d) PROVE DomainsInv'
  <2>1. DomainsTypeOK'
    BY <1>3 DEF Load, DomainsTypeOK, Records, Checked
  <2>2. \A u \in Verifiers : Founded(u)'
    BY <1>3 DEF Load, Founded, Running, DomainsTypeOK
  <2> QED
    BY <1>3, <2>1, <2>2, VerdictsKept DEF Load, DomainsTypeOK
<1>4. ASSUME NEW v \in Verifiers, LookUp(v) PROVE DomainsInv'
  <2>1. lookup[v] \in Records /\ After[lookup[v]] \in Records \cup {"write"}
    BY <1>4 DEF LookUp, After, Records, Checked
  <2>2. DomainsTypeOK'
    BY <1>4, <2>1 DEF LookUp, DomainsTypeOK
  <2>3. found'[v] \subseteq found[v] \cup {lookup[v]}
    BY <1>4 DEF LookUp, DomainsTypeOK
  <2>4. Running(v) /\ lookup'[v] \notin {"load", "done"} /\ lookup[v] # "load"
    BY <1>4, <2>1 DEF LookUp, Running, Records, Checked, DomainsTypeOK
  <2>5. found'[v] \subseteq shown[v]
    <3>1. CASE <<target[v][2], lookup[v]>> \in zone
      BY <2>1, <2>3, <2>4, <3>1 DEF Founded
    <3>2. CASE <<target[v][2], lookup[v]>> \notin zone
      BY <1>4, <2>4, <3>2 DEF LookUp, Founded
    <3> QED
      BY <3>1, <3>2
  <2>6. \A u \in Verifiers : u # v => found'[u] = found[u] /\ lookup'[u] = lookup[u]
    BY <1>4 DEF LookUp, DomainsTypeOK
  <2>7. \A u \in Verifiers : Founded(u)'
    BY <1>4, <2>4, <2>5, <2>6 DEF LookUp, Founded, Running
  <2> QED
    BY <1>4, <2>2, <2>4, <2>6, <2>7, VerdictsKept DEF LookUp, Running
<1>5. ASSUME NEW v \in Verifiers, Write(v) PROVE DomainsInv'
  <2> DEFINE d == target[v]
  <2>1. d \in domains /\ d \in Domain /\ found[v] \subseteq shown[v]
    BY <1>5 DEF Write, Founded, DomainsTypeOK
  <2>2. DomainsTypeOK'
    <3>1. \A c \in Checked : Verdict(v, c) \in {"pass", "fail"}
      BY DEF Verdict
    <3>2. status' \in [Domain -> [Checked -> {"pending", "pass", "fail"}]]
      BY <1>5, <2>1, <3>1 DEF Write, DomainsTypeOK
    <3> QED
      BY <1>5, <2>1, <3>2 DEF Write, DomainsTypeOK
  <2>3. \A u \in Verifiers : u # v => lookup'[u] = lookup[u]
    BY <1>5 DEF Write, DomainsTypeOK
  <2>4. lookup'[v] = "done" /\ lookup[v] = "write"
    BY <1>5 DEF Write, DomainsTypeOK
  <2>5. \A u \in Verifiers : Founded(u)'
    BY <1>5, <2>1, <2>3, <2>4 DEF Write, Founded, Running
  <2>6. \A e \in Domain : Ended(e) \subseteq Ended(e)' /\ (e = d => v \in Ended(e)')
    BY <1>5, <2>3, <2>4 DEF Write, Ended
  <2>7. UNCHANGED shown
    BY <1>5 DEF Write
  <2>8. ASSUME NEW e \in Domain, e \in verified', ~ForceVerify
        PROVE  \E u \in Ended(e)' : shown'[u] = Records
    <3>1. CASE e \in verified
      BY <2>6, <2>7, <2>8, <3>1 DEF VerifiedWasPublished
    <3>2. CASE e \notin verified
      <4>1. e = d /\ found[v] = Records
        BY <1>5, <2>8, <3>2 DEF Write, Passes
      <4>2. shown[v] = Records
        BY <2>1, <4>1 DEF DomainsTypeOK
      <4> QED
        BY <2>6, <2>7, <4>1, <4>2
    <3> QED
      BY <3>1, <3>2
  <2>9. ASSUME NEW e \in Domain, NEW c \in Checked, status'[e][c] = "pass"
        PROVE  \E u \in Ended(e)' : c \in shown'[u]
    <3>1. CASE status[e][c] = "pass"
      BY <2>6, <2>7, <3>1 DEF VerifiedWasPublished
    <3>2. CASE status[e][c] # "pass"
      <4>1. e = d /\ Verdict(v, c) = "pass"
        BY <1>5, <2>1, <2>9, <3>2 DEF Write, DomainsTypeOK
      <4>2. c \in shown[v]
        BY <2>1, <4>1 DEF Verdict
      <4> QED
        BY <2>6, <2>7, <4>1, <4>2
    <3> QED
      BY <3>1, <3>2
  <2> QED
    BY <2>2, <2>5, <2>8, <2>9 DEF VerifiedWasPublished
<1>6. ASSUME UNCHANGED domainVars PROVE DomainsInv'
  BY <1>6 DEF domainVars, verifications, DomainsTypeOK, Founded, Running,
              VerifiedWasPublished, Ended
<1> QED
  BY <1>1, <1>2, <1>3, <1>4, <1>5, <1>6 DEF DomainsNext

LEMMA DomainsInvariant == DomainsSpec => []DomainsInv
  BY DomainsInitially, DomainsPreserved, PTL DEF DomainsSpec

(* The domains and their verifications stay of their types.                *)
THEOREM DomainsTypeCorrect == DomainsSpec => []DomainsTypeOK
<1>1. DomainsInv => DomainsTypeOK
  BY DEF DomainsInv
<1> QED
  BY <1>1, DomainsInvariant, PTL

(* However many verifications of a domain overlap and however DNS changes  *)
(* between their lookups, what is stored was published to one of them.     *)
THEOREM VerificationsAreFounded == DomainsSpec => []VerifiedWasPublished
<1>1. DomainsInv => VerifiedWasPublished
  BY DEF DomainsInv
<1> QED
  BY <1>1, DomainsInvariant, PTL

-----------------------------------------------------------------------------
(* AgentBusRmq.                                                             *)

(* A delivery is with one consumer, its handler runs once, and what is     *)
(* about to be answered has been handled by a process that lives.          *)
OneHandlerEach ==
    /\ \A p, q \in unanswered : p[2] = q[2] => p = q
    /\ \A p \in unanswered : p[2] \notin ready
    /\ running \cup returning \subseteq unanswered
    /\ running \cap returning = {}
    /\ \A p \in returning : p[2] \in Garbled \/ p[2] \in known[p[1]]
    /\ \A r \in Replicas : known[r] # {} => r \in degraded
    /\ ready \subseteq arrived
    /\ \A p \in unanswered : p[2] \in arrived

RmqInv == RmqTypeOK /\ OneHandlerEach /\ ExhaustionIsKnown

LEMMA RmqInitially == RmqInit => RmqInv
  BY DEF RmqInit, RmqInv, RmqTypeOK, OneHandlerEach, ExhaustionIsKnown

LEMMA RmqPreserved == RmqInv /\ [RmqNext]_rmqVars => RmqInv'
<1> SUFFICES ASSUME RmqInv, [RmqNext]_rmqVars PROVE RmqInv'
  OBVIOUS
<1> USE BusEventAssumption DEF RmqInv
<1>1. ASSUME UNCHANGED <<bound, consuming, arrived, ready, unanswered, handlers,
                         degraded, known, forgotten, rejected>>,
             bus' \in [Replicas -> {"none", "connecting", "connected", "broken"}],
             published' \cup refused' \subseteq Own
      PROVE  RmqInv'
  BY <1>1 DEF handlers, RmqTypeOK, OneHandlerEach, ExhaustionIsKnown
<1>2. ASSUME NEW r \in Replicas,
             GetBus(r) \/ Connect(r) \/ \E e \in Own : Publish(r, e)
      PROVE  RmqInv'
  BY <1>1, <1>2 DEF GetBus, Connect, Publish, ownVars, queueVars, RmqTypeOK
<1>3. ASSUME NEW r \in Replicas, Bind(r) \/ Consume(r) PROVE RmqInv'
  BY <1>3 DEF Bind, Consume, ownVars, handlers, RmqTypeOK, OneHandlerEach, ExhaustionIsKnown
<1>4. ASSUME NEW e \in Events, Arrival(e) PROVE RmqInv'
  BY <1>4 DEF Arrival, ownVars, handlers, RmqTypeOK, OneHandlerEach, ExhaustionIsKnown
<1>5. ASSUME NEW r \in Replicas, NEW e \in Events, Deliver(r, e) PROVE RmqInv'
  <2>1. RmqTypeOK'
    BY <1>5 DEF Deliver, ownVars, RmqTypeOK
  <2>2. OneHandlerEach'
    BY <1>5 DEF Deliver, ownVars, RmqTypeOK, OneHandlerEach
  <2>3. ExhaustionIsKnown'
    BY <1>5 DEF Deliver, ownVars, ExhaustionIsKnown
  <2> QED
    BY <2>1, <2>2, <2>3
<1>6. ASSUME NEW r \in Replicas, NEW e \in Events, Handle(r, e) PROVE RmqInv'
  <2>1. RmqTypeOK'
    BY <1>6 DEF Handle, Parses, ownVars, RmqTypeOK
  <2>2. /\ \A q \in Replicas : known[q] \subseteq known'[q]
        /\ e \notin Garbled => e \in known'[r]
        /\ \A q \in Replicas : known'[q] # {} => q \in degraded'
        /\ degraded \subseteq degraded'
    BY <1>6 DEF Handle, Parses, RmqTypeOK, OneHandlerEach
  <2>3. OneHandlerEach'
    BY <1>6, <2>2 DEF Handle, Parses, ownVars, RmqTypeOK, OneHandlerEach
  <2>4. ExhaustionIsKnown'
    BY <1>6, <2>2 DEF Handle, Parses, ownVars, ExhaustionIsKnown, RmqTypeOK
  <2> QED
    BY <2>1, <2>3, <2>4
<1>7. ASSUME NEW r \in Replicas, NEW e \in Events, AnswerBroker(r, e) PROVE RmqInv'
  <2>1. RmqTypeOK'
    BY <1>7 DEF AnswerBroker, Parses, ownVars, RmqTypeOK
  <2>2. OneHandlerEach'
    BY <1>7 DEF AnswerBroker, Parses, ownVars, RmqTypeOK, OneHandlerEach
  <2>3. e \in rejected' \/ (e \in known[r] /\ r \in degraded)
    BY <1>7 DEF AnswerBroker, Parses, OneHandlerEach
  <2>4. ExhaustionIsKnown'
    BY <1>7, <2>3 DEF AnswerBroker, Parses, ownVars, ExhaustionIsKnown, OneHandlerEach
  <2> QED
    BY <2>1, <2>2, <2>4
<1>8. ASSUME NEW r \in Replicas, TakeBack(r) PROVE
        /\ unanswered' = {p \in unanswered : p[1] # r}
        /\ running' = {p \in running : p[1] # r}
        /\ returning' = {p \in returning : p[1] # r}
        /\ \A e \in Events : <<r, e>> \in unanswered => e \in ready'
        /\ ready \subseteq ready' /\ ready' \subseteq Events
        /\ \A p \in unanswered' : p[2] \notin ready'
        /\ \A e \in ready' : e \in arrived
  BY <1>8 DEF TakeBack, OfReplica, OneHandlerEach, RmqTypeOK
<1>9. ASSUME NEW r \in Replicas, Reconnect(r) PROVE RmqInv'
  <2>1. TakeBack(r)
    BY <1>9 DEF Reconnect
  <2>2. RmqTypeOK'
    BY <1>8, <1>9, <2>1 DEF Reconnect, OfReplica, ownVars, RmqTypeOK
  <2>3. OneHandlerEach'
    BY <1>8, <1>9, <2>1 DEF Reconnect, ownVars, RmqTypeOK, OneHandlerEach
  <2>4. ExhaustionIsKnown'
    BY <1>8, <1>9, <2>1 DEF Reconnect, ownVars, RmqTypeOK, ExhaustionIsKnown
  <2> QED
    BY <2>2, <2>3, <2>4
<1>10. ASSUME NEW r \in Replicas, Die(r) PROVE RmqInv'
  <2>1. TakeBack(r)
    BY <1>10 DEF Die
  <2>2. RmqTypeOK'
    BY <1>8, <1>10, <2>1 DEF Die, OfReplica, ownVars, RmqTypeOK
  <2>3. \A q \in Replicas : q # r => known'[q] = known[q] /\ (q \in degraded => q \in degraded')
    BY <1>10 DEF Die, RmqTypeOK
  <2>4. OneHandlerEach'
    BY <1>8, <1>10, <2>1, <2>3 DEF Die, ownVars, RmqTypeOK, OneHandlerEach
  <2>5. ExhaustionIsKnown'
    BY <1>8, <1>10, <2>1, <2>3 DEF Die, ownVars, RmqTypeOK, ExhaustionIsKnown
  <2> QED
    BY <2>2, <2>4, <2>5
<1>11. ASSUME UNCHANGED rmqVars PROVE RmqInv'
  BY <1>11 DEF rmqVars, RmqTypeOK, OneHandlerEach, ExhaustionIsKnown
<1> QED
  BY <1>2, <1>3, <1>4, <1>5, <1>6, <1>7, <1>9, <1>10, <1>11 DEF RmqNext

LEMMA RmqInvariant == RmqSpec => []RmqInv
  BY RmqInitially, RmqPreserved, PTL DEF RmqSpec

(* The queue, its deliveries and the replicas stay of their types.         *)
THEOREM RmqTypeCorrect == RmqSpec => []RmqTypeOK
<1>1. RmqInv => RmqTypeOK
  BY DEF RmqInv
<1> QED
  BY <1>1, RmqInvariant, PTL

(* Through lost connections, redeliveries and dying replicas, in whatever  *)
(* number, news of an exhausted budget gets to one of them.                *)
THEOREM ExhaustionGetsThrough == RmqSpec => []ExhaustionIsKnown
<1>1. RmqInv => ExhaustionIsKnown
  BY DEF RmqInv
<1> QED
  BY <1>1, RmqInvariant, PTL

-----------------------------------------------------------------------------
(* Consent.                                                                 *)

(* The four doors of the suppression list do one and the same to it.       *)
LEMMA OptOutIsAdd ==
  ASSUME OptOut
  PROVE  \E org \in Tenants, type \in IdentifierTypes, v \in Written :
             /\ Add(org, type, v)
             /\ Reappears(KeyOf(<<org, type, v>>))
             /\ UNCHANGED rowVars
<1> USE WritingAssumption
<1>1. PICK org \in Tenants :
        \/ \E id \in Identifiers :
               \/ /\ AddEntry(org, id) \/ Unsubscribe(org, id)
                  /\ Reappears(KeyOf(<<org, id[1], id[2]>>))
               \/ /\ id[1] = "email"
                  /\ PostalInbound(org, id[2])
                  /\ Reappears(KeyOf(<<org, "email", id[2]>>))
        \/ \E v \in Phones :
               /\ ZenviaInbound(org, v)
               /\ Reappears(KeyOf(<<org, "phone_e164", Plus[v]>>))
  BY DEF OptOut
<1>2. UNCHANGED rowVars
  BY DEF OptOut
<1>3. ASSUME NEW id \in Identifiers, AddEntry(org, id) \/ Unsubscribe(org, id),
             Reappears(KeyOf(<<org, id[1], id[2]>>))
      PROVE  \E type \in IdentifierTypes, v \in Written :
                 Add(org, type, v) /\ Reappears(KeyOf(<<org, type, v>>))
  <2>1. id[1] \in IdentifierTypes /\ id[2] \in Written
    OBVIOUS
  <2> QED
    BY <1>3, <2>1 DEF AddEntry, Unsubscribe
<1>4. ASSUME NEW id \in Identifiers, PostalInbound(org, id[2]),
             Reappears(KeyOf(<<org, "email", id[2]>>))
      PROVE  \E type \in IdentifierTypes, v \in Written :
                 Add(org, type, v) /\ Reappears(KeyOf(<<org, type, v>>))
  <2>1. "email" \in IdentifierTypes /\ id[2] \in Written
    OBVIOUS
  <2> QED
    BY <1>4, <2>1 DEF PostalInbound
<1>5. ASSUME NEW v \in Phones, ZenviaInbound(org, v),
             Reappears(KeyOf(<<org, "phone_e164", Plus[v]>>))
      PROVE  \E type \in IdentifierTypes, w \in Written :
                 Add(org, type, w) /\ Reappears(KeyOf(<<org, type, w>>))
  <2>1. "phone_e164" \in IdentifierTypes /\ Plus[v] \in Written
    OBVIOUS
  <2> QED
    BY <1>5, <2>1 DEF ZenviaInbound
<1> QED
  BY <1>1, <1>2, <1>3, <1>4, <1>5

LEMMA RecordedIsRecord ==
  ASSUME Recorded
  PROVE  \E i \in RowIds : \E row \in Recordings : Record(i, row)
  BY DEF Recorded, BreachNotify, CreateSubscription, Sent

LEMMA KeysAreEntries ==
  ASSUME NEW org \in Orgs, NEW type \in IdentifierTypes, NEW v \in Written
  PROVE  <<org, type, v>> \in Entry /\ KeyOf(<<org, type, v>>) \in Entry
  BY WritingAssumption DEF Entry, KeyOf, Normalize

(* An erasure under way is about somebody.                                 *)
ConsentTyped ==
    /\ ConsentTypeOK
    /\ stage # "idle" => subject \in Tenants \X Subjects

LEMMA ConsentTypeInitially == ConsentInit => ConsentTyped
  BY DEF ConsentInit, SuppressionInit, CleanupInit, ConsentTyped, ConsentTypeOK

LEMMA ConsentTypePreserved == ConsentTyped /\ [ConsentNext]_consentVars => ConsentTyped'
<1> SUFFICES ASSUME ConsentTyped, [ConsentNext]_consentVars PROVE ConsentTyped'
  OBVIOUS
<1> USE WritingAssumption, RowAssumption, SubjectAssumption DEF ConsentTyped, ConsentTypeOK
<1>1. ASSUME NEW org \in Tenants, NEW type \in IdentifierTypes, NEW v \in Written,
             Add(org, type, v), Reappears(KeyOf(<<org, type, v>>)), UNCHANGED rowVars
      PROVE  ConsentTyped'
  <2>1. entries' \subseteq Entry /\ asked' \subseteq Entry /\ pending' = pending
    BY <1>1, KeysAreEntries DEF Add
  <2>2. erased' \subseteq erased /\ disturbed' \in BOOLEAN /\ UNCHANGED <<subject, stage, noted>>
    BY <1>1 DEF Reappears
  <2>3. UNCHANGED <<rows, bad, sweeping, todo, aborted, swept, dropped>>
    BY <1>1 DEF rowVars, sweep
  <2> QED
    BY <2>1, <2>2, <2>3
<1>2. CASE OptIn
  <2>1. PICK org \in Orgs, e \in entries :
          RemoveEntry(org, e) /\ Remember({e}) /\ UNCHANGED erasure
    BY <1>2 DEF OptIn
  <2>2. entries' \subseteq Entry /\ asked' \subseteq Entry /\ pending' = pending
    BY <2>1 DEF RemoveEntry, Delete
  <2>3. dropped' \subseteq Entry /\ UNCHANGED <<rows, bad, sweeping, todo, aborted, swept>>
    BY <2>1 DEF Remember
  <2> QED
    BY <2>1, <2>2, <2>3 DEF erasure
<1>3. ASSUME NEW i \in RowIds, NEW row \in Recordings, Record(i, row) PROVE ConsentTyped'
  <2>1. rows' \in [RowIds -> Row \cup {NoRow}] /\ rows'[i] # NoRow /\ row \in Row
    BY <1>3 DEF Record, Insert, Row
  <2>2. bad' \subseteq {j \in RowIds : rows'[j] # NoRow}
    BY <1>3, <2>1 DEF Record, Insert
  <2>3. erased' \subseteq erased /\ UNCHANGED <<listVars, sweep, subject, stage, noted, disturbed>>
    BY <1>3 DEF Record, Insert
  <2> QED
    BY <2>1, <2>2, <2>3 DEF listVars, sweep
<1>4. ASSUME NEW i \in RowIds, TurnBad(i), UNCHANGED <<listVars, erasure>>
      PROVE  ConsentTyped'
  BY <1>4 DEF TurnBad, listVars, erasure, sweep
<1>5. ASSUME NEW t \in Tenants, NEW i \in RowIds, DeleteSubscription(t, i),
             UNCHANGED <<listVars, erasure>>
      PROVE  ConsentTyped'
  <2>1. bad' = bad \ {i} /\ rows' = [rows EXCEPT ![i] = NoRow]
    BY <1>5 DEF DeleteSubscription
  <2>2. bad' \subseteq {j \in RowIds : rows'[j] # NoRow} /\ rows' \in [RowIds -> Row \cup {NoRow}]
    BY <2>1
  <2> QED
    BY <1>5, <2>2 DEF DeleteSubscription, listVars, erasure, sweep
<1>6. ASSUME SweepRead, disturbed' \in BOOLEAN,
             UNCHANGED <<listVars, subject, stage, noted, erased>>
      PROVE  ConsentTyped'
  <2>1. \A i \in bad : rows[i] \in Row
    OBVIOUS
  <2>2. todo' \subseteq Tenants \X IdentifierTypes \X Written
    BY <1>6, <2>1 DEF SweepRead, SweepKey, Row
  <2> QED
    BY <1>6, <2>2 DEF SweepRead, listVars
<1>7. ASSUME NEW k \in todo, SweepInsert(k), UNCHANGED erasure PROVE ConsentTyped'
  <2>1. k[1] \in Orgs => k \in Entry
    BY DEF Entry
  <2> QED
    BY <1>7, <2>1 DEF SweepInsert, erasure
<1>8. ASSUME SweepCommit \/ SweepDies, UNCHANGED erasure PROVE ConsentTyped'
  BY <1>8 DEF SweepCommit, SweepDies, SweepEnds, erasure
<1>9. ASSUME NEW t \in Tenants, NEW v \in Subjects, StartErasure(<<t, v>>)
      PROVE  ConsentTyped'
  BY <1>9 DEF StartErasure, listVars, rowVars, sweep
<1>10. CASE DeleteEntries
  <2>1. Forgets(subject) \subseteq entries
    BY DEF Forgets, Of
  <2>2. entries' \subseteq Entry /\ asked' \subseteq Entry /\ pending' = pending
    BY <1>10 DEF DeleteEntries, Delete
  <2>3. dropped' \subseteq Entry /\ UNCHANGED <<rows, bad, sweeping, todo, aborted, swept>>
    BY <1>10, <2>1 DEF DeleteEntries, Remember
  <2> QED
    BY <1>10, <2>2, <2>3 DEF DeleteEntries
<1>11. CASE DeleteFails
  BY <1>11 DEF DeleteFails, listVars, rowVars, sweep
<1>12. CASE Redact
  <2>1. erased' \subseteq Tenants \X Subjects
    BY <1>12 DEF Redact, EndErasure, Outcome
  <2>2. \A i \in RowIds : /\ Overwrite(rows[i]) \in Row \cup {NoRow}
                          /\ rows[i] # NoRow => Overwrite(rows[i]) # NoRow
    BY DEF Overwrite, Row
  <2>3. /\ rows' \in [RowIds -> Row \cup {NoRow}]
        /\ bad' \subseteq {i \in RowIds : rows'[i] # NoRow}
    BY <1>12, <2>2 DEF Redact
  <2> QED
    BY <1>12, <2>1, <2>3 DEF Redact, EndErasure, listVars, sweep
<1>13. CASE NotRedacted
  BY <1>13 DEF NotRedacted, EndErasure, listVars, rowVars, sweep
<1>14. CASE UNCHANGED consentVars
  BY <1>14 DEF consentVars, listVars, rowVars, sweep, erasure
<1> QED
  BY <1>1, <1>2, <1>3, <1>4, <1>5, <1>6, <1>7, <1>8, <1>9, <1>10, <1>11, <1>12, <1>13,
     <1>14, OptOutIsAdd, RecordedIsRecord
     DEF ConsentNext, RowsChange, Sweep, Erasure

(* The list holds the key of every opt-out asked for.                      *)
Heeded == \A request \in asked : KeyOf(request) \in entries

LEMMA HeededIsFound == ConsentTyped /\ Heeded => OptOutsHeeded
<1> SUFFICES ASSUME ConsentTyped, Heeded, NEW request \in asked
             PROVE  GuardFinds(request[1], request[3])
  BY DEF OptOutsHeeded
<1>1. request \in Entry /\ request[3] \in Written /\ Strip[request[3]] \in Written
  BY WritingAssumption DEF ConsentTyped, ConsentTypeOK, Entry
<1>2. KeyOf(request) \in entries /\ KeyOf(request)[1] = request[1]
  BY DEF Heeded, KeyOf
<1>3. Lower[KeyOf(request)[3]] = Lower[Strip[request[3]]]
  BY <1>1, WritingAssumption DEF KeyOf, Normalize
<1> QED
  BY <1>2, <1>3 DEF GuardFinds

LEMMA HeededPreserved == ConsentTyped /\ Heeded /\ [ConsentNext]_consentVars => Heeded'
<1> SUFFICES ASSUME ConsentTyped, Heeded, [ConsentNext]_consentVars PROVE Heeded'
  OBVIOUS
<1>1. ASSUME asked' \subseteq asked,
             \A request \in asked' : KeyOf(request) \in entries => KeyOf(request) \in entries'
      PROVE  Heeded'
  BY <1>1 DEF Heeded, KeyOf
<1>2. ASSUME NEW org \in Tenants, NEW type \in IdentifierTypes, NEW v \in Written,
             Add(org, type, v)
      PROVE  Heeded'
  BY <1>2 DEF Add, Heeded, KeyOf
<1>3. CASE OptIn
  <2>1. PICK org \in Orgs, e \in entries : RemoveEntry(org, e)
    BY <1>3 DEF OptIn
  <2> QED
    BY <2>1, <1>1 DEF RemoveEntry, Delete
<1>4. CASE UNCHANGED listVars \/ SweepDies \/ SweepCommit \/ \E k \in todo : SweepInsert(k)
  <2>1. asked' = asked /\ entries \subseteq entries'
    BY <1>4 DEF listVars, SweepDies, SweepCommit, SweepEnds, SweepInsert
  <2> QED
    BY <2>1, <1>1
<1>5. CASE DeleteEntries
  <2>1. /\ entries' = entries \ Forgets(subject)
        /\ asked' = asked \ {request \in asked : IsAbout(KeyOf(request), subject)}
    BY <1>5 DEF DeleteEntries, Delete
  <2> QED
    BY <2>1, <1>1 DEF Forgets, Of
<1>6. (\E i \in RowIds : \E row \in Recordings : Record(i, row)) => UNCHANGED listVars
  BY DEF Record
<1>7. RowsChange \/ DeleteFails \/ Redact \/ NotRedacted \/ UNCHANGED consentVars
        \/ (\E t \in Tenants : \E v \in Subjects : StartErasure(<<t, v>>))
      => UNCHANGED listVars
  BY DEF RowsChange, DeleteFails, Redact, NotRedacted, consentVars, StartErasure
<1>8. Sweep => \/ UNCHANGED listVars \/ SweepDies \/ SweepCommit
               \/ \E k \in todo : SweepInsert(k)
  BY DEF Sweep
<1> QED
  BY <1>2, <1>3, <1>4, <1>5, <1>6, <1>7, <1>8, OptOutIsAdd, RecordedIsRecord
     DEF ConsentNext, Erasure

(* Nothing is left, nor about to be inserted, of whom an erasure has done  *)
(* with, and of the subject whose entries have been deleted.               *)
Gone(who) == \A k \in entries \cup todo \cup pending : ~IsAbout(k, who)

Forgotten ==
    /\ \A who \in erased :
           /\ Gone(who)
           /\ \A i \in RowIds : rows[i] # NoRow => ~IsAbout(rows[i], who)
    /\ stage = "rows" /\ ~noted /\ ~disturbed => Gone(subject)

LEMMA ForgottenPreserved ==
  ConsentTyped /\ Forgotten /\ [ConsentNext]_consentVars => Forgotten'
<1> SUFFICES ASSUME ConsentTyped, Forgotten, [ConsentNext]_consentVars PROVE Forgotten'
  OBVIOUS
<1> USE WritingAssumption, RowAssumption, SubjectAssumption
<1>1. ASSUME entries' \cup todo' \cup pending' \subseteq entries \cup todo \cup pending,
             erased' \subseteq erased,
             \A i \in RowIds : rows'[i] \in {rows[i], NoRow},
             stage' = "rows" /\ ~noted' /\ ~disturbed' =>
                 stage = "rows" /\ ~noted /\ ~disturbed /\ subject' = subject
      PROVE  Forgotten'
  BY <1>1 DEF Forgotten, Gone, IsAbout
<1>2. ASSUME NEW org \in Tenants, NEW type \in IdentifierTypes, NEW v \in Written,
             Add(org, type, v), Reappears(KeyOf(<<org, type, v>>)), UNCHANGED rowVars
      PROVE  Forgotten'
  <2> DEFINE k == KeyOf(<<org, type, v>>)
  <2>1. entries' \cup todo' \cup pending' \subseteq entries \cup todo \cup pending \cup {k}
    BY <1>2 DEF Add, rowVars, sweep
  <2>2. rows' = rows
    BY <1>2 DEF rowVars
  <2>3. /\ erased' = erased \ {<<k[1], k[3]>>}
        /\ disturbed' = (disturbed \/ (stage = "rows" /\ IsAbout(k, subject)))
        /\ UNCHANGED <<subject, stage, noted>>
    BY <1>2 DEF Reappears
  <2>4. \A who \in erased' : who \in erased /\ ~IsAbout(k, who)
    BY <2>3 DEF IsAbout, ConsentTyped, ConsentTypeOK
  <2> HIDE DEF k
  <2> QED
    BY <2>1, <2>2, <2>3, <2>4 DEF Forgotten, Gone, IsAbout
<1>3. CASE OptIn
  <2>1. PICK org \in Orgs, e \in entries :
          RemoveEntry(org, e) /\ Remember({e}) /\ UNCHANGED erasure
    BY <1>3 DEF OptIn
  <2> QED
    BY <2>1, <1>1 DEF RemoveEntry, Delete, Remember, erasure
<1>4. ASSUME NEW i \in RowIds, NEW row \in Recordings, Record(i, row) PROVE Forgotten'
  <2>1. /\ erased' = erased \ {<<row[1], row[3]>>}
        /\ rows' = [rows EXCEPT ![i] = row]
        /\ UNCHANGED <<entries, pending, todo, subject, stage, noted, disturbed>>
    BY <1>4 DEF Record, Insert, listVars, sweep
  <2>2. \A who \in erased' : who \in erased /\ ~IsAbout(row, who)
    BY <2>1 DEF IsAbout, ConsentTyped, ConsentTypeOK
  <2>3. \A j \in RowIds : rows'[j] \in {rows[j], row}
    BY <2>1 DEF ConsentTyped, ConsentTypeOK
  <2> QED
    BY <2>1, <2>2, <2>3 DEF Forgotten, Gone, IsAbout
<1>5. CASE RowsChange
  <2>1. \A j \in RowIds : rows'[j] \in {rows[j], NoRow}
    BY <1>5 DEF RowsChange, TurnBad, DeleteSubscription, ConsentTyped, ConsentTypeOK
  <2>2. UNCHANGED <<entries, pending, todo, erasure>>
    BY <1>5 DEF RowsChange, TurnBad, DeleteSubscription, listVars, sweep
  <2> QED
    BY <2>1, <2>2, <1>1 DEF erasure
<1>6. ASSUME SweepRead,
             disturbed' = (disturbed \/ (stage = "rows" /\ Of(todo', subject) # {})),
             UNCHANGED <<listVars, subject, stage, noted, erased>>
      PROVE  Forgotten'
  <2>1. todo' = {SweepKey(rows[i]) : i \in bad} /\ UNCHANGED <<entries, pending, rows>>
    BY <1>6 DEF SweepRead, listVars
  <2>2. \A i \in bad : i \in RowIds /\ rows[i] # NoRow
    BY DEF ConsentTyped, ConsentTypeOK
  <2>3. \A who \in erased : \A k \in todo' : ~IsAbout(k, who)
    BY <2>1, <2>2 DEF SweepKey, IsAbout, Forgotten
  <2>4. stage = "rows" /\ ~disturbed' => \A k \in todo' : ~IsAbout(k, subject)
    BY <1>6 DEF Of
  <2>5. ~disturbed' => ~disturbed
    BY <1>6
  <2> QED
    BY <1>6, <2>1, <2>3, <2>4, <2>5 DEF Forgotten, Gone, IsAbout
<1>7. ASSUME (\E k \in todo : SweepInsert(k)) \/ SweepCommit \/ SweepDies,
             UNCHANGED erasure
      PROVE  Forgotten'
  <2>1. /\ entries' \cup todo' \cup pending' \subseteq entries \cup todo \cup pending
        /\ rows' = rows
    BY <1>7 DEF SweepInsert, SweepCommit, SweepDies, SweepEnds
  <2> QED
    BY <1>7, <2>1, <1>1 DEF erasure
<1>8. ASSUME NEW t \in Tenants, NEW v \in Subjects, StartErasure(<<t, v>>)
      PROVE  Forgotten'
  BY <1>1, <1>8 DEF StartErasure, listVars, rowVars, sweep
<1>9. CASE DeleteEntries
  <2>1. /\ entries' = entries \ {e \in entries : IsAbout(e, subject)}
        /\ disturbed' = ({k \in todo \cup pending : IsAbout(k, subject)} # {})
        /\ UNCHANGED <<pending, todo, rows, subject, erased>>
    BY <1>9 DEF DeleteEntries, Delete, Forgets, Remember, Of
  <2>2. ~disturbed' => Gone(subject)'
    BY <2>1 DEF Gone, IsAbout
  <2> QED
    BY <2>1, <2>2 DEF Forgotten, Gone, IsAbout
<1>10. CASE DeleteFails
  BY <1>1, <1>10 DEF DeleteFails, listVars, rowVars, sweep
<1>11. CASE Redact
  <2>1. /\ stage = "rows" /\ stage' = "idle"
        /\ rows' = [i \in RowIds |-> Overwrite(rows[i])]
        /\ UNCHANGED <<entries, pending, todo>>
        /\ erased' = IF noted \/ disturbed THEN erased ELSE erased \cup {subject}
    BY <1>11 DEF Redact, EndErasure, Outcome, listVars, sweep
  <2>2. subject \in Tenants \X Subjects /\ erased \subseteq Tenants \X Subjects
    BY <2>1 DEF ConsentTyped, ConsentTypeOK
  <2>3. \A who \in erased' : Gone(who)'
    BY <2>1 DEF Forgotten, Gone, IsAbout
  <2>4. ASSUME NEW who \in erased', NEW i \in RowIds, rows'[i] # NoRow
        PROVE  ~IsAbout(rows'[i], who)
    <3>1. who[2] # Redacted /\ who \in Tenants \X Subjects
      BY <2>1, <2>2
    <3>2. CASE rows[i] # NoRow /\ rows[i][1] = subject[1] /\ rows[i][3] = subject[2]
      BY <2>1, <3>1, <3>2 DEF Overwrite, IsAbout
    <3>3. CASE ~(rows[i] # NoRow /\ rows[i][1] = subject[1] /\ rows[i][3] = subject[2])
      <4>1. rows'[i] = rows[i] /\ rows[i] # NoRow
        BY <2>1, <2>4, <3>3 DEF Overwrite
      <4> QED
        BY <2>1, <4>1, <3>3 DEF Forgotten, IsAbout
    <3> QED
      BY <3>2, <3>3
  <2> QED
    BY <2>1, <2>3, <2>4 DEF Forgotten, IsAbout
<1>12. CASE NotRedacted
  BY <1>1, <1>12 DEF NotRedacted, EndErasure, listVars, rowVars, sweep
<1>13. CASE UNCHANGED consentVars
  BY <1>1, <1>13 DEF consentVars, listVars, rowVars, sweep, erasure
<1> QED
  BY <1>2, <1>3, <1>4, <1>5, <1>6, <1>7, <1>8, <1>9, <1>10, <1>11, <1>12, <1>13,
     OptOutIsAdd, RecordedIsRecord DEF ConsentNext, Sweep, Erasure

(* While its transaction stands, what a run of the sweep has been through  *)
(* is in the list, on its way there, or taken off.                         *)
SweptSoFar ==
    /\ sweeping \in BOOLEAN /\ aborted \in BOOLEAN
    /\ sweeping /\ ~aborted =>
           \A k \in swept : k \in todo \cup entries \cup pending \cup dropped

LEMMA SweptPreserved == SweptSoFar /\ [ConsentNext]_consentVars => SweptSoFar'
<1> SUFFICES ASSUME SweptSoFar, [ConsentNext]_consentVars PROVE SweptSoFar'
  OBVIOUS
<1>1. ASSUME UNCHANGED <<sweeping, aborted, swept, todo, pending>>,
             dropped \subseteq dropped',
             sweeping => \A k \in entries : k \in entries' \cup dropped'
      PROVE  SweptSoFar'
  BY <1>1 DEF SweptSoFar
<1>2. ASSUME NEW org \in Tenants, NEW type \in IdentifierTypes, NEW v \in Written,
             Add(org, type, v), UNCHANGED rowVars
      PROVE  SweptSoFar'
  BY <1>1, <1>2 DEF Add, rowVars, sweep
<1>3. CASE OptIn
  <2>1. PICK org \in Orgs, e \in entries : RemoveEntry(org, e) /\ Remember({e})
    BY <1>3 DEF OptIn
  <2> QED
    BY <1>1, <2>1 DEF RemoveEntry, Delete, Remember
<1>4. ASSUME NEW i \in RowIds, NEW row \in Recordings, Record(i, row) PROVE SweptSoFar'
  BY <1>1, <1>4 DEF Record, Insert, listVars, sweep
<1>5. CASE RowsChange
  <2>1. UNCHANGED <<listVars, sweep>>
    BY <1>5 DEF RowsChange, TurnBad, DeleteSubscription
  <2> QED
    BY <1>1, <2>1 DEF listVars, sweep
<1>6. CASE SweepRead
  BY <1>6 DEF SweepRead, SweptSoFar
<1>7. ASSUME NEW k \in todo, SweepInsert(k) PROVE SweptSoFar'
  BY <1>7 DEF SweepInsert, SweptSoFar
<1>8. CASE SweepCommit \/ SweepDies
  BY <1>8 DEF SweepCommit, SweepDies, SweepEnds, SweptSoFar
<1>9. ASSUME NEW t \in Tenants, NEW v \in Subjects, StartErasure(<<t, v>>)
      PROVE  SweptSoFar'
  BY <1>1, <1>9 DEF StartErasure, listVars, rowVars, sweep
<1>10. CASE DeleteEntries
  BY <1>1, <1>10 DEF DeleteEntries, Delete, Remember
<1>11. CASE DeleteFails \/ NotRedacted \/ UNCHANGED consentVars
  BY <1>1, <1>11 DEF DeleteFails, NotRedacted, consentVars, listVars, rowVars, sweep
<1>12. CASE Redact
  BY <1>1, <1>12 DEF Redact, listVars, sweep
<1> QED
  BY <1>2, <1>3, <1>4, <1>5, <1>6, <1>7, <1>8, <1>9, <1>10, <1>11, <1>12,
     OptOutIsAdd, RecordedIsRecord DEF ConsentNext, Sweep, Erasure

LEMMA SweepEndsWhole ==
  SweptSoFar /\ [ConsentNext]_consentVars =>
    (sweeping /\ ~sweeping' => entries' = entries \/ swept \subseteq entries' \cup dropped)
<1> SUFFICES ASSUME SweptSoFar, [ConsentNext]_consentVars, sweeping, ~sweeping'
             PROVE  entries' = entries \/ swept \subseteq entries' \cup dropped
  OBVIOUS
<1>1. CASE SweepCommit
  BY <1>1 DEF SweepCommit, SweptSoFar
<1>2. CASE SweepDies
  BY <1>2 DEF SweepDies
<1>3. UNCHANGED sweeping \/ SweepRead => FALSE
  BY DEF SweepRead
<1>4. OptOut \/ RowsChange => UNCHANGED sweeping
  BY DEF OptOut, RowsChange, TurnBad, DeleteSubscription, rowVars, sweep
<1>5. OptIn => UNCHANGED sweeping
  BY DEF OptIn, Remember
<1>6. Recorded => UNCHANGED sweeping
  BY RecordedIsRecord DEF Record, Insert, sweep
<1>7. \A k \in todo : SweepInsert(k) => UNCHANGED sweeping
  BY DEF SweepInsert
<1>8. Erasure => UNCHANGED sweeping
  BY DEF Erasure, StartErasure, DeleteEntries, Remember, DeleteFails, Redact, NotRedacted,
         rowVars, sweep
<1>9. UNCHANGED consentVars => UNCHANGED sweeping
  BY DEF consentVars, rowVars, sweep
<1> QED
  BY <1>1, <1>2, <1>3, <1>4, <1>5, <1>6, <1>7, <1>8, <1>9 DEF ConsentNext, Sweep

ConsentInv == ConsentTyped /\ Heeded /\ Forgotten /\ SweptSoFar

LEMMA ConsentInvariant == ConsentSpec => []ConsentInv
<1>1. ConsentInit => ConsentInv
  BY ConsentTypeInitially
  DEF ConsentInit, SuppressionInit, CleanupInit, ConsentInv, Heeded, Forgotten, SweptSoFar
<1>2. ConsentInv /\ [ConsentNext]_consentVars => ConsentInv'
  BY ConsentTypePreserved, HeededPreserved, ForgottenPreserved, SweptPreserved DEF ConsentInv
<1> QED
  BY <1>1, <1>2, PTL DEF ConsentSpec

(* The list, the rows, the sweep and the erasure stay of their types.      *)
THEOREM ConsentTypeCorrect == ConsentSpec => []ConsentTypeOK
<1>1. ConsentInv => ConsentTypeOK
  BY DEF ConsentInv, ConsentTyped
<1> QED
  BY <1>1, ConsentInvariant, PTL

(* Any number of tenants, doors, sweeps and erasures: whoever opted out is *)
(* found by every later lookup.                                            *)
THEOREM OptOutsStayHeeded == ConsentSpec => []OptOutsHeeded
<1>1. ConsentInv => OptOutsHeeded
  BY HeededIsFound DEF ConsentInv
<1> QED
  BY <1>1, ConsentInvariant, PTL

(* An erasure that was reported without a note holds in both tables until  *)
(* the subject is written anew, whatever runs of the sweep it overlapped.  *)
THEOREM ErasuresHold == ConsentSpec => []ErasureHolds
<1>1. ConsentInv => ErasureHolds
  BY DEF ConsentInv, Forgotten, Gone, ErasureHolds, Of
<1> QED
  BY <1>1, ConsentInvariant, PTL

(* A run of the sweep stores all of what it read, or none of it.           *)
THEOREM SweepsAreAtomic == ConsentSpec => SweepAllOrNothing
<1>1. ConsentInv /\ [ConsentNext]_consentVars =>
        [sweeping /\ ~sweeping' =>
            entries' = entries \/ swept \subseteq entries' \cup dropped]_consentVars
  BY SweepEndsWhole DEF ConsentInv
<1> QED
  BY <1>1, ConsentInvariant, PTL DEF ConsentSpec, SweepAllOrNothing

-----------------------------------------------------------------------------
(* UsageReporter.                                                           *)

(* When the reports were made that Lago has an event of, or may get one.   *)
Reported == {a[2] + Window : a \in accepted}
                \cup {x \in {from + Window} : DOMAIN counts # {}}

Restarted(x, y) == \E s \in starts : x <= s /\ s <= y

(* Two reports are an Interval apart, unless the process was started in    *)
(* between, and the next will be so too.                                   *)
Spaced ==
    /\ \A x \in Reported : x \in Int /\ x <= time
    /\ \A x \in Reported : due >= x + Interval \/ Restarted(x, time)
    /\ \A x, y \in Reported : x < y => y >= x + Interval \/ Restarted(x, y)

(* What is counted or billed was recorded within the window it stands for. *)
WithinWindow ==
    /\ \A g \in DOMAIN counts : \A d \in counts[g] :
           from <= created[d] /\ created[d] < from + Window
    /\ \A b \in billed : b[2][2] <= created[b[1]] /\ created[b[1]] < b[2][2] + Window
    /\ \A b \in billed : b[1] \in DOMAIN created

UsageInv == UsageTypeOK /\ Spaced /\ WithinWindow

LEMMA UsageTyped == UsageTypeOK =>
    /\ time \in Int /\ due \in Int /\ from \in Int
    /\ \A a \in accepted : a[2] \in Int
    /\ \A d \in DOMAIN created : created[d] \in Int
    /\ starts \subseteq Int
  BY ReporterAssumption DEF UsageTypeOK

LEMMA UsageInitially == UsageInit => UsageInv
  BY ReporterAssumption
  DEF UsageInit, UsageInv, UsageTypeOK, Spaced, WithinWindow, Reported

LEMMA UsagePreserved == UsageInv /\ [UsageNext]_usageVars => UsageInv'
<1> SUFFICES ASSUME UsageInv, [UsageNext]_usageVars PROVE UsageInv'
  OBVIOUS
<1> USE ReporterAssumption, UsageTyped DEF UsageInv
<1>0. Window \in Nat /\ Interval \in Nat /\ Interval >= Window
  OBVIOUS
<1>1. ASSUME UNCHANGED <<due, from, counts, accepted, billed, starts>>,
             time' \in Int, time <= time'
      PROVE  Spaced'
  <2>1. Reported' = Reported
    BY <1>1 DEF Reported
  <2>2. \A x \in Int : Restarted(x, time) => Restarted(x, time)'
    BY <1>1 DEF Restarted, UsageTypeOK
  <2> QED
    BY <1>1, <2>1, <2>2 DEF Spaced, Restarted
<1>2. ASSUME NEW d \in Deliveries, RecordDelivery(d) PROVE UsageInv'
  <2>1. DOMAIN created' = DOMAIN created \cup {d} /\ d \notin DOMAIN created
        /\ (\A e \in DOMAIN created : created'[e] = created[e]) /\ created'[d] = time
    BY <1>2 DEF RecordDelivery
  <2>2. UsageTypeOK'
    BY <1>2, <2>1 DEF RecordDelivery, UsageTypeOK
  <2>3. \A g \in DOMAIN counts : counts[g] \subseteq DOMAIN created
    BY DEF UsageTypeOK
  <2>4. WithinWindow'
    BY <1>2, <2>1, <2>3 DEF RecordDelivery, WithinWindow, UsageTypeOK
  <2> QED
    BY <1>1, <1>2, <2>2, <2>4 DEF RecordDelivery
<1>3. ASSUME NEW d \in Deliveries, Settle(d) PROVE UsageInv'
  BY <1>1, <1>3 DEF Settle, UsageTypeOK, WithinWindow
<1>4. CASE Pass
  <2>1. UsageTypeOK' /\ WithinWindow'
    BY <1>4 DEF Pass, UsageTypeOK, WithinWindow
  <2> QED
    BY <1>1, <1>4, <2>1 DEF Pass
<1>5. CASE Report
  <2>1. /\ from' = time - Window /\ due' = time + Interval /\ due <= time
        /\ UNCHANGED <<time, created, countable, accepted, billed, starts>>
        /\ DOMAIN counts' = {g \in Groups : Counted(g) # {}}
        /\ \A g \in DOMAIN counts' : counts'[g] = Counted(g)
    BY <1>5 DEF Report
  <2>2. \A g \in DOMAIN counts' : \A d \in counts'[g] :
           /\ d \in countable
           /\ time - Window <= created[d] /\ created[d] < time
    BY <2>1 DEF Counted, InWindow
  <2>3. UsageTypeOK'
    BY <2>1, <2>2 DEF UsageTypeOK, Counted
  <2>4. WithinWindow'
    BY <2>1, <2>2 DEF WithinWindow, UsageTypeOK
  <2>5. \A x \in Reported' : x = time \/ (x \in Reported /\ x \in Int /\ x <= time)
    BY <2>1 DEF Reported, Spaced
  <2>6. \A x \in Reported : x < time => time >= x + Interval \/ Restarted(x, time)
    BY <2>1 DEF Spaced
  <2>7. Spaced'
    BY <2>1, <2>5, <2>6 DEF Spaced, Restarted
  <2> QED
    BY <2>3, <2>4, <2>7
<1>6. ASSUME NEW g \in DOMAIN counts, NEW left \in SUBSET DOMAIN counts,
             Accept(g) \/ Refuse, Rest(left),
             UNCHANGED <<time, created, countable, from, starts>>
      PROVE  UsageInv'
  <2>1. DOMAIN counts' = left /\ \A h \in left : counts'[h] = counts[h]
    BY <1>6 DEF Rest
  <2>2. /\ accepted' \subseteq accepted \cup {<<MetricOf[g], from>>}
        /\ accepted \subseteq accepted'
        /\ billed' \subseteq billed \cup (counts[g] \X {<<MetricOf[g], from>>})
        /\ \A b \in billed' : b \in billed \/ <<MetricOf[g], from>> \in accepted'
    BY <1>6 DEF Accept, Refuse, TransactionId
  <2>3. /\ g \in Groups /\ counts[g] \subseteq countable /\ countable \subseteq Deliveries
        /\ countable \subseteq DOMAIN created
    BY DEF UsageTypeOK
  <2>4. due' = due \/ due' = time + Interval
    BY <1>6 DEF Rest
  <2>5. UsageTypeOK'
    <3>1. due' \in Nat
      BY <2>4 DEF UsageTypeOK
    <3>2. billed' \subseteq Deliveries \X accepted'
      BY <2>2, <2>3 DEF UsageTypeOK
    <3>3. accepted' \subseteq {MetricOf[h] : h \in Groups} \X Int
      BY <2>2, <2>3 DEF UsageTypeOK
    <3> QED
      BY <1>6, <2>1, <3>1, <3>2, <3>3 DEF UsageTypeOK
  <2>6. Reported' \subseteq Reported
    BY <1>6, <2>1, <2>2 DEF Reported
  <2>7. Spaced'
    BY <1>6, <2>4, <2>6 DEF Spaced, Restarted
  <2>8. \A b \in billed' : b \in billed \/ (b[1] \in counts[g] /\ b[2][2] = from)
    BY <2>2
  <2>9. WithinWindow'
    BY <1>6, <2>1, <2>3, <2>8 DEF WithinWindow
  <2> QED
    BY <2>5, <2>7, <2>9
<1>7. ASSUME NEW g \in DOMAIN counts, Emit(g) \/ EmitRaises(g) PROVE UsageInv'
  <2>1. \E left \in SUBSET DOMAIN counts : Rest(left)
    BY <1>7 DEF Emit, EmitRaises
  <2> QED
    BY <1>6, <1>7, <2>1 DEF Emit, EmitRaises
<1>8. CASE Restart
  <2>1. /\ starts' = starts \cup {time} /\ due' = time /\ counts' = <<>>
        /\ UNCHANGED <<time, created, countable, from, accepted, billed>>
    BY <1>8 DEF Restart
  <2>2. UsageTypeOK'
    BY <2>1 DEF UsageTypeOK
  <2>3. WithinWindow'
    BY <2>1 DEF WithinWindow
  <2>4. Reported' \subseteq Reported
    BY <2>1 DEF Reported
  <2>5. Spaced'
    BY <2>1, <2>4 DEF Spaced, Restarted
  <2> QED
    BY <2>2, <2>3, <2>5
<1>9. CASE UNCHANGED usageVars
  BY <1>9 DEF usageVars, UsageTypeOK, Spaced, WithinWindow, Reported, Restarted
<1> QED
  BY <1>2, <1>3, <1>4, <1>5, <1>7, <1>8, <1>9 DEF UsageNext

LEMMA UsageInvariant == UsageSpec => []UsageInv
  BY UsageInitially, UsagePreserved, PTL DEF UsageSpec

(* The clock, the report and Lago's side of it stay of their types.        *)
THEOREM UsageTypeCorrect == UsageSpec => []UsageTypeOK
<1>1. UsageInv => UsageTypeOK
  BY DEF UsageInv
<1> QED
  BY <1>1, UsageInvariant, PTL

(* For every window that is no longer than the interval, and however long  *)
(* the emission of a report takes: nothing is billed twice by one process. *)
THEOREM OneProcessBillsOnce == UsageSpec => []BilledTwiceOnlyAfterRestart
<1>1. UsageInv => BilledTwiceOnlyAfterRestart
  <2> SUFFICES ASSUME UsageInv, NEW d \in Deliveries, NEW t \in accepted, NEW u \in accepted,
                      <<d, t>> \in billed, <<d, u>> \in billed, t[2] < u[2]
               PROVE  \E s \in starts : t[2] + Window <= s /\ s <= u[2] + Window
    BY DEF BilledTwiceOnlyAfterRestart
  <2> USE ReporterAssumption, UsageTyped DEF UsageInv
  <2>1. t[2] \in Int /\ u[2] \in Int /\ Window \in Int /\ Interval \in Int
    OBVIOUS
  <2>2. u[2] < t[2] + Window
    <3>1. u[2] <= created[d] /\ created[d] < t[2] + Window /\ created[d] \in Int
      BY DEF WithinWindow
    <3> QED
      BY <2>1, <3>1
  <2>3. t[2] + Window \in Reported /\ u[2] + Window \in Reported
    BY DEF Reported
  <2>4. ~(u[2] + Window >= t[2] + Window + Interval)
    BY <2>1, <2>2
  <2>5. t[2] + Window < u[2] + Window
    BY <2>1
  <2> QED
    BY <2>3, <2>4, <2>5 DEF Spaced, Restarted
<1> QED
  BY <1>1, UsageInvariant, PTL
-----------------------------------------------------------------------------
(* WebPushKeys.                                                             *)

(* Without an excuse there is no web application without a key, and either *)
(* one call is making the first key or there is at most one already.       *)
OneSource ==
    /\ \A a \in Apps : appKind[a] # "keyless"
    /\ \A c, d \in KeyCalls : keyCall[c] = "generating" /\ keyCall[d] = "generating" => c = d
    /\ \A c \in KeyCalls, a \in Apps : keyCall[c] = "generating" => appKind[a] # Keypair
    /\ \A a, b \in Apps : appKind[a] = Keypair /\ appKind[b] = Keypair => a = b

KeysInv == KeysTypeOK /\ (keyExcuse = {} => OneSource)

LEMMA KeysPreserved == KeysInv /\ [KeysNext]_keyVars => KeysInv'
<1> SUFFICES ASSUME KeysInv, [KeysNext]_keyVars PROVE KeysInv'
  OBVIOUS
<1> USE DEF KeysInv, KeysTypeOK, OneSource, AppKinds, Keyed,
           Keypair
<1>1. ASSUME NEW c \in KeyCalls, VapidPublicKey(c) PROVE KeysInv'
  BY <1>1 DEF VapidPublicKey, WebApps
<1>2. ASSUME NEW c \in KeyCalls, InsertKey(c) PROVE KeysInv'
  BY <1>2 DEF InsertKey
<1>3. ASSUME NEW c \in KeyCalls, KeyCallDies(c) PROVE KeysInv'
  BY <1>3 DEF KeyCallDies
<1>4. ASSUME NEW a \in Apps, NEW kind \in AppKinds \ {Keypair}, CreatePushApp(a, kind)
      PROVE  KeysInv'
  BY <1>4 DEF CreatePushApp
<1>5. ASSUME NEW a \in Apps, DeletePushApp(a) PROVE KeysInv'
  BY <1>5 DEF DeletePushApp
<1>6. CASE UNCHANGED keyVars
  BY <1>6 DEF keyVars
<1> QED
  BY <1>1, <1>2, <1>3, <1>4, <1>5, <1>6 DEF KeysNext

(* An organization whose first calls did not overlap, and that made no web *)
(* application without a key, never has two generated keys.                *)
THEOREM KeysAreSingle == KeysSpec => [](KeysTypeOK /\ OneKeyUnlessExcused)
<1>1. KeysInit => KeysInv
  BY DEF KeysInit, KeysInv, KeysTypeOK, OneSource, Keypair
<1>2. KeysInv => KeysTypeOK /\ OneKeyUnlessExcused
  BY DEF KeysInv, OneSource, OneKeyUnlessExcused
<1> QED
  BY <1>1, <1>2, KeysPreserved, PTL DEF KeysSpec

-----------------------------------------------------------------------------
(* Capabilities.                                                            *)

(* What a host has told and judged since its start is what it has cached.  *)
CapabilitiesInv ==
    /\ CapabilitiesTypeOK
    /\ \A h \in Hosts : {told[h], judged[h]} \subseteq {registry[h], Unread}

LEMMA CapabilitiesPreserved ==
  CapabilitiesInv /\ [CapabilitiesNext]_capVars => CapabilitiesInv'
<1> SUFFICES ASSUME CapabilitiesInv, [CapabilitiesNext]_capVars PROVE CapabilitiesInv'
  OBVIOUS
<1> USE CapabilitiesAssumption DEF CapabilitiesInv, CapabilitiesTypeOK, Registries
<1>1. ASSUME NEW h \in Hosts PROVE Loaded(h) \in Editions \cup {Unread}
  BY DEF Loaded, Snapshot
<1>2. ASSUME NEW h \in Hosts, BootHost(h) PROVE CapabilitiesInv'
  BY <1>1, <1>2 DEF BootHost, LoadsAt, Loaded, Snapshot
<1>3. ASSUME NEW h \in Hosts, Invalidate(h) PROVE CapabilitiesInv'
  BY <1>3 DEF Invalidate
<1>4. ASSUME NEW h \in Hosts, GetCapabilities(h) PROVE CapabilitiesInv'
  <2>1. copy' = Loaded(h) /\ registry[h] \in {Loaded(h), Unread}
    BY <1>4 DEF GetCapabilities, NotModified, Etag, Loaded
  <2>2. Loaded(h) \in Editions
    BY <1>1, <1>4 DEF GetCapabilities
  <2>3. /\ told' = [told EXCEPT ![h] = Loaded(h)]
        /\ registry' = [registry EXCEPT ![h] = Loaded(h)]
        /\ UNCHANGED <<file, hostStage, judged>> /\ summoned' = FALSE
    BY <1>4, <2>1 DEF GetCapabilities, LoadsAt
  <2>4. CapabilitiesTypeOK'
    BY <2>1, <2>2, <2>3
  <2>5. \A g \in Hosts : {told'[g], judged'[g]} \subseteq {registry'[g], Unread}
    BY <2>1, <2>2, <2>3
  <2> QED
    BY <2>4, <2>5
<1>5. ASSUME NEW h \in Hosts, Judge(h) PROVE CapabilitiesInv'
  <2>1. registry[h] \in {Loaded(h), Unread}
    BY DEF Loaded
  <2> QED
    BY <1>1, <1>5, <2>1 DEF Judge, LoadsAt
<1>6. ASSUME NEW h \in Hosts, Stop(h) PROVE CapabilitiesInv'
  BY <1>6 DEF Stop
<1>7. ASSUME NEW h \in Hosts, NEW content \in Editions \cup {Malformed},
             ReplaceFile(h, content)
      PROVE  CapabilitiesInv'
  BY <1>7 DEF ReplaceFile
<1>8. CASE GetFails
  BY <1>8 DEF GetFails
<1>9. CASE UNCHANGED capVars
  BY <1>9 DEF capVars
<1> QED
  BY <1>2, <1>3, <1>4, <1>5, <1>6, <1>7, <1>8, <1>9 DEF CapabilitiesNext

(* However often the file is replaced, a host judges by what it told.      *)
THEOREM InvocationsMeetTheContract ==
  CapabilitiesSpec => [](CapabilitiesTypeOK /\ JudgesAsTold)
<1>1. CapabilitiesInit => CapabilitiesInv
  BY DEF CapabilitiesInit, CapabilitiesInv, CapabilitiesTypeOK, Registries
<1>2. CapabilitiesInv => CapabilitiesTypeOK /\ JudgesAsTold
  BY DEF CapabilitiesInv, JudgesAsTold
<1> QED
  BY <1>1, <1>2, CapabilitiesPreserved, PTL DEF CapabilitiesSpec
-----------------------------------------------------------------------------
(* LegacyNotify.                                                            *)

(* How far a commit could get now.                                         *)
Reach == IF ConsumerRuns THEN position ELSE committed

(* What would be lost with a commit that got as far as it could.           *)
Slipped ==
    {i \in 1 .. Reach : /\ log[i] = "event" /\ i \notin tried \cup missed
                       /\ ~(task = "dispatch" /\ i = position)}

NotifyInv ==
    /\ NotifyTypeOK
    /\ ConsumerRuns => committed <= position
    /\ task = "dispatch" => position > 0
    /\ Cardinality(Slipped) <= RunsEnded

LEMMA SlippedIsFinite == NotifyTypeOK => IsFiniteSet(Slipped) /\ Cardinality(Slipped) \in Nat
<1> SUFFICES ASSUME NotifyTypeOK PROVE IsFiniteSet(Slipped)
  BY FS_CardinalityType
<1>1. Reach \in Int
  BY DEF Reach, NotifyTypeOK
<1>2. IsFiniteSet(1 .. Reach)
  BY <1>1, FS_Interval
<1> QED
  BY <1>2, FS_Subset DEF Slipped

(* A step that loses nothing, or one event at the end of a run.            *)
LEMMA LossesBounded ==
  ASSUME NotifyTypeOK, NotifyTypeOK', Cardinality(Slipped) <= RunsEnded,
         \/ Slipped' \subseteq Slipped /\ RunsEnded' \in {RunsEnded, RunsEnded + 1}
         \/ /\ \E x \in Int : Slipped' \subseteq Slipped \cup {x}
            /\ RunsEnded' = RunsEnded + 1
  PROVE  Cardinality(Slipped') <= RunsEnded'
<1>1. IsFiniteSet(Slipped) /\ Cardinality(Slipped) \in Nat /\ RunsEnded \in Int
  BY SlippedIsFinite DEF RunsEnded, NotifyTypeOK
<1>2. CASE Slipped' \subseteq Slipped /\ RunsEnded' \in {RunsEnded, RunsEnded + 1}
  <2>1. Cardinality(Slipped') <= Cardinality(Slipped) /\ Cardinality(Slipped') \in Nat
    BY <1>1, <1>2, FS_Subset, FS_CardinalityType
  <2> QED
    BY <1>1, <1>2, <2>1
<1>3. ASSUME NEW x \in Int, Slipped' \subseteq Slipped \cup {x}, RunsEnded' = RunsEnded + 1
      PROVE  Cardinality(Slipped') <= RunsEnded'
  <2>1. /\ IsFiniteSet(Slipped \cup {x})
        /\ Cardinality(Slipped \cup {x}) <= Cardinality(Slipped) + 1
        /\ Cardinality(Slipped \cup {x}) \in Nat
    <3>1. IsFiniteSet(Slipped \cup {x}) /\ Cardinality(Slipped \cup {x}) =
              IF x \in Slipped THEN Cardinality(Slipped) ELSE Cardinality(Slipped) + 1
      BY <1>1, FS_AddElement
    <3> QED
      BY <1>1, <3>1
  <2>2. Cardinality(Slipped') <= Cardinality(Slipped \cup {x}) /\ Cardinality(Slipped') \in Nat
    BY <1>3, <2>1, FS_Subset, FS_CardinalityType
  <2> QED
    BY <1>1, <1>3, <2>1, <2>2
<1> QED
  BY <1>2, <1>3

LEMMA NotifyPreserved == NotifyInv /\ [NotifyNext]_notifyVars => NotifyInv'
<1> SUFFICES ASSUME NotifyInv, [NotifyNext]_notifyVars PROVE NotifyInv'
  OBVIOUS
<1> USE NotifyAssumption DEF NotifyInv, ConsumerRuns
<1>0. /\ NotifyTypeOK /\ Cardinality(Slipped) <= RunsEnded
      /\ MaxLog \in Nat /\ MaxBoots \in Nat
  OBVIOUS
<1>1. ASSUME NEW shape \in Shapes, Produce(shape) PROVE NotifyInv'
  <2>1. NotifyTypeOK'
    BY <1>1 DEF Produce, NotifyTypeOK, history
  <2>2. Reach <= Len(log) /\ Reach \in Int /\ Reach' = Reach
    BY <1>1 DEF Produce, NotifyTypeOK, Reach
  <2>3. \A i \in 1 .. Reach : log'[i] = log[i]
    BY <1>1, <2>2 DEF Produce, NotifyTypeOK
  <2>4. Slipped' \subseteq Slipped /\ RunsEnded' = RunsEnded
    BY <1>1, <2>2, <2>3 DEF Slipped, Produce, history, RunsEnded
  <2> QED
    BY <1>0, <1>1, <2>1, <2>4, LossesBounded DEF Produce
<1>2. CASE Boot
  <2>1. NotifyTypeOK'
    <3>1. UNCHANGED <<log, position, committed, tried, missed>>
      BY <1>2 DEF Boot
    <3>2. boots' \in 0 .. MaxBoots /\ task' = "starting" /\ stopping' = FALSE
      BY <1>0, <1>2 DEF Boot, NotifyTypeOK
    <3> QED
      BY <1>0, <3>1, <3>2 DEF NotifyTypeOK
  <2>2. Slipped' \subseteq Slipped
    BY <1>2 DEF Boot, Slipped, Reach
  <2>3. RunsEnded' = RunsEnded
    BY <1>2 DEF Boot, RunsEnded, NotifyTypeOK
  <2> QED
    BY <1>0, <1>2, <2>1, <2>2, <2>3, LossesBounded DEF Boot
<1>3. CASE Join
  <2>1. NotifyTypeOK'
    BY <1>3 DEF Join, NotifyTypeOK
  <2>2. Slipped' \subseteq Slipped
    BY <1>3 DEF Join, Slipped, Reach, NotifyTypeOK
  <2>3. RunsEnded' = RunsEnded
    BY <1>3 DEF Join, RunsEnded
  <2>4. committed' <= position' /\ task' = "fetch"
    BY <1>3 DEF Join, NotifyTypeOK
  <2> QED
    BY <1>0, <2>1, <2>2, <2>3, <2>4, LossesBounded
<1>4. CASE JoinFails
  <2>1. NotifyTypeOK'
    BY <1>4 DEF JoinFails, NotifyTypeOK, history
  <2>2. Slipped' \subseteq Slipped
    BY <1>4 DEF JoinFails, Slipped, Reach, history
  <2>3. RunsEnded' = RunsEnded + 1
    BY <1>4 DEF JoinFails, RunsEnded, NotifyTypeOK, history
  <2> QED
    BY <1>0, <1>4, <2>1, <2>2, <2>3, LossesBounded DEF JoinFails
<1>5. CASE AutoCommit
  <2>1. NotifyTypeOK'
    BY <1>5 DEF AutoCommit, NotifyTypeOK, history
  <2>2. Slipped' \subseteq Slipped /\ RunsEnded' = RunsEnded
    BY <1>5 DEF AutoCommit, Slipped, Reach, RunsEnded, history
  <2>3. committed' <= position' /\ UNCHANGED <<task, position>>
    BY <1>5 DEF AutoCommit, NotifyTypeOK
  <2> QED
    BY <1>0, <2>1, <2>2, <2>3, LossesBounded
<1>6. CASE Fetch
  <2>1. NotifyTypeOK'
    BY <1>6 DEF Fetch, AfterStop, LeaveAt, NotifyTypeOK, history
  <2>2. CASE stopping
    <3>1. Reach' <= position + 1 /\ Reach' \in Int
      BY <1>6, <2>2, <2>1 DEF Fetch, AfterStop, LeaveAt, Reach, NotifyTypeOK
    <3>2. UNCHANGED <<log, tried, missed, boots>> /\ task = "fetch" /\ task' = "ended"
      BY <1>6, <2>2 DEF Fetch, AfterStop, LeaveAt, history
    <3>3. Slipped' \subseteq Slipped \cup {position + 1}
      BY <3>1, <3>2 DEF Slipped, Reach, NotifyTypeOK
    <3>4. RunsEnded' = RunsEnded + 1 /\ position + 1 \in Int
      BY <3>2 DEF RunsEnded, NotifyTypeOK
    <3> QED
      BY <1>0, <2>1, <3>2, <3>3, <3>4, LossesBounded
  <2>3. CASE ~stopping
    <3>1. /\ UNCHANGED <<log, committed, tried, missed, boots>>
          /\ task = "fetch" /\ position' = position + 1
          /\ task' = IF log[position + 1] = "event" THEN "dispatch" ELSE "fetch"
      BY <1>6, <2>3 DEF Fetch, history
    <3>2. Slipped' \subseteq Slipped
      BY <3>1 DEF Slipped, Reach, NotifyTypeOK
    <3>3. RunsEnded' = RunsEnded /\ committed' <= position' /\ position' > 0
      BY <3>1 DEF RunsEnded, NotifyTypeOK
    <3> QED
      BY <1>0, <2>1, <3>2, <3>3, LossesBounded
  <2> QED
    BY <2>2, <2>3
<1>7. CASE Choke
  <2>1. NotifyTypeOK'
    BY <1>7 DEF Choke, LeaveAt, NotifyTypeOK, history
  <2>2. /\ UNCHANGED <<log, tried, missed, boots, position>>
        /\ task = "fetch" /\ task' = "ended" /\ committed' \in {committed, position}
    BY <1>7 DEF Choke, LeaveAt, history
  <2>3. Slipped' \subseteq Slipped
    BY <2>2 DEF Slipped, Reach, NotifyTypeOK
  <2>4. RunsEnded' = RunsEnded + 1
    BY <2>2 DEF RunsEnded, NotifyTypeOK
  <2> QED
    BY <1>0, <2>1, <2>2, <2>3, <2>4, LossesBounded
<1>8. CASE Dispatch
  <2>1. NotifyTypeOK'
    BY <1>0, <1>8 DEF Dispatch, NotifyTypeOK
  <2>2. Slipped' \subseteq Slipped
    BY <1>8 DEF Dispatch, Slipped, Reach
  <2>3. RunsEnded' = RunsEnded
    BY <1>8 DEF Dispatch, RunsEnded
  <2> QED
    BY <1>0, <1>8, <2>1, <2>2, <2>3, LossesBounded DEF Dispatch
<1>9. CASE Shutdown
  <2>1. NotifyTypeOK'
    BY <1>9 DEF Shutdown, NotifyTypeOK, history
  <2>2. Slipped' \subseteq Slipped /\ RunsEnded' = RunsEnded
    BY <1>9 DEF Shutdown, Slipped, Reach, RunsEnded, history
  <2> QED
    BY <1>0, <1>9, <2>1, <2>2, LossesBounded DEF Shutdown
(* The two ends that may find an event in hand.                            *)
<1>10. ASSUME task' \in {"ended", "off"}, ConsumerRuns,
              committed' \in {committed, position},
              UNCHANGED <<log, tried, missed, boots, position>>, NotifyTypeOK'
       PROVE  NotifyInv'
  <2>1. Slipped' \subseteq Slipped \cup {position}
    BY <1>10 DEF Slipped, Reach, NotifyTypeOK
  <2>2. RunsEnded' = RunsEnded + 1 /\ position \in Int
    BY <1>10 DEF RunsEnded, NotifyTypeOK
  <2> QED
    BY <1>0, <1>10, <2>1, <2>2, LossesBounded
<1>11. ASSUME task' \in {"ended", "off"}, ~ConsumerRuns,
              UNCHANGED <<log, tried, missed, boots, position, committed>>, NotifyTypeOK'
       PROVE  NotifyInv'
  <2>1. Slipped' \subseteq Slipped
    BY <1>11 DEF Slipped, Reach
  <2>2. RunsEnded' \in {RunsEnded, RunsEnded + 1}
    BY <1>11 DEF RunsEnded, NotifyTypeOK
  <2> QED
    BY <1>0, <1>11, <2>1, <2>2, LossesBounded
<1>12. CASE CancelTask
  <2>1. NotifyTypeOK'
    <3>1. CASE ConsumerRuns
      <4>1. /\ UNCHANGED <<log, stopping, position, boots, tried, missed>>
            /\ task' = "ended" /\ committed' \in {committed, position}
        BY <1>12, <3>1 DEF CancelTask, LeaveAt, history
      <4> QED
        BY <1>0, <4>1 DEF NotifyTypeOK
    <3>2. CASE ~ConsumerRuns
      BY <1>0, <1>12, <3>2 DEF CancelTask, NotifyTypeOK, history
    <3> QED
      BY <3>1, <3>2
  <2> QED
    BY <1>10, <1>11, <1>12, <2>1 DEF CancelTask, LeaveAt, history
<1>13. CASE Exit
  <2>1. NotifyTypeOK'
    BY <1>13 DEF Exit, NotifyTypeOK, history
  <2> QED
    BY <1>11, <1>13, <2>1 DEF Exit, history
<1>14. CASE Killed
  <2>1. NotifyTypeOK'
    BY <1>14 DEF Killed, NotifyTypeOK, history
  <2> QED
    BY <1>10, <1>11, <1>14, <2>1 DEF Killed, history
<1>15. CASE UNCHANGED notifyVars
  BY <1>15 DEF notifyVars, NotifyTypeOK, Slipped, Reach, RunsEnded
<1> QED
  BY <1>1, <1>2, <1>3, <1>4, <1>5, <1>6, <1>7, <1>8, <1>9, <1>12, <1>13, <1>14, <1>15
  DEF NotifyNext

(* Offsets run ahead of the dispatches they stand for, but by one event at *)
(* most, and that is lost only with the run that has it.                   *)
THEOREM LossesAreOfRuns == NotifySpec => [](NotifyTypeOK /\ OneLossPerEnd)
<1>1. NotifyInit => NotifyInv
  <2> SUFFICES ASSUME NotifyInit PROVE NotifyInv
    OBVIOUS
  <2>1. NotifyTypeOK
    <3>1. MaxLog \in Nat /\ MaxBoots \in Nat
      BY NotifyAssumption
    <3>2. log \in Seq(Shapes) /\ Len(log) = 0
      BY DEF NotifyInit
    <3>3. tried \cup missed = {}
      BY DEF NotifyInit
    <3>4. /\ position \in 0 .. Len(log) /\ committed \in -1 .. Len(log)
          /\ Len(log) <= MaxLog /\ boots \in 0 .. MaxBoots
      BY <3>1, <3>2 DEF NotifyInit
    <3>5. task = "off" /\ stopping = FALSE
      BY DEF NotifyInit
    <3> QED
      BY <3>2, <3>3, <3>4, <3>5 DEF NotifyTypeOK
  <2>2. Slipped = {}
    BY DEF NotifyInit, Slipped, Reach, ConsumerRuns
  <2> QED
    BY <2>1, <2>2, FS_EmptySet DEF NotifyInit, NotifyInv, RunsEnded, ConsumerRuns
<1>2. ASSUME NotifyInv PROVE NotifyTypeOK /\ OneLossPerEnd
  <2>1. Lost \subseteq Slipped
    BY <1>2 DEF NotifyInv, Lost, Slipped, Reach, NotifyTypeOK
  <2>2. Cardinality(Lost) <= Cardinality(Slipped) /\ Cardinality(Lost) \in Nat
    BY <1>2, <2>1, SlippedIsFinite, FS_Subset, FS_CardinalityType DEF NotifyInv
  <2>3. RunsEnded \in Int /\ Cardinality(Slipped) \in Nat
    BY <1>2, SlippedIsFinite DEF NotifyInv, NotifyTypeOK, RunsEnded
  <2> QED
    BY <1>2, <2>2, <2>3 DEF NotifyInv, OneLossPerEnd
<1> QED
  BY <1>1, <1>2, NotifyPreserved, PTL DEF NotifySpec
-----------------------------------------------------------------------------
(* Sums over sets of numbers, which the shares of an A/B test are.           *)

(* Every set of numbers that is not empty has a least one.                  *)
LEMMA LeastOf ==
  ASSUME NEW K \in SUBSET Nat, K # {}
  PROVE  \E k \in K : \A j \in K : k <= j
<1> DEFINE Less == OpToRel(<, Nat)
<1>1. Less = {p \in Nat \X Nat : p[1] < p[2]}
  BY Zenon DEF OpToRel
<1>2. IsWellFoundedOn(Less, Nat)
  BY NatLessThanWellFounded
<1> HIDE DEF Less
<1>3. PICK k \in K : \A j \in K : <<j, k>> \notin Less
  BY <1>2, WFMin
<1>4. ASSUME NEW j \in K PROVE ~(j < k)
  <2>1. <<j, k>> \in Nat \X Nat
    OBVIOUS
  <2> QED
    BY <1>1, <1>3, <2>1
<1> QED
  BY <1>3, <1>4

(* Sums of functions.  SumFunctionOnSet takes one element after another, as *)
(* CHOOSE gives them, by a recursion over the parts of the set.             *)
Pick(s) == CHOOSE x \in s : TRUE

IsSum(iter, f, S) ==
    iter = [s \in SUBSET S |->
               IF s = {} THEN 0 ELSE f[Pick(s)] + iter[s \ {Pick(s)}]]

LEMMA SumUnfolds ==
  ASSUME NEW f, NEW S
  PROVE  SumFunctionOnSet(f, S) = (CHOOSE iter : IsSum(iter, f, S))[S]
  BY DEF SumFunctionOnSet, FoldFunctionOnSet, MapThenFoldSet, IsSum, Pick

(* What is left of a finite set without one of its elements is smaller.     *)
LEMMA OneLess ==
  ASSUME NEW S, IsFiniteSet(S), NEW s \in SUBSET S, NEW x \in s
  PROVE  /\ s \ {x} \in SUBSET S /\ IsFiniteSet(s) /\ IsFiniteSet(s \ {x})
         /\ Cardinality(s) \in Nat \ {0}
         /\ Cardinality(s \ {x}) = Cardinality(s) - 1
<1>1. IsFiniteSet(s)
  BY FS_Subset
<1>2. Cardinality(s) \in Nat /\ Cardinality(s) # 0
  BY <1>1, FS_CardinalityType, FS_EmptySet
<1> QED
  BY <1>1, <1>2, FS_RemoveElement, FS_Subset

(* The recursion has a solution.                                            *)
LEMMA SumsExist ==
  ASSUME NEW f, NEW S, IsFiniteSet(S)
  PROVE  \E iter : IsSum(iter, f, S)
<1> DEFINE Upto(k) == {s \in SUBSET S : Cardinality(s) <= k}
           Step(iter, s) == IF s = {} THEN 0 ELSE f[Pick(s)] + iter[s \ {Pick(s)}]
           Solves(iter, k) == iter = [s \in Upto(k) |-> Step(iter, s)]
           Unsolved == {k \in Nat : ~\E iter : Solves(iter, k)}
<1>0. ASSUME NEW s \in SUBSET S
      PROVE  Cardinality(s) \in Nat /\ (Cardinality(s) = 0 => s = {})
  BY FS_Subset, FS_CardinalityType, FS_EmptySet
<1>1. ASSUME NEW s \in SUBSET S, s # {}
      PROVE  /\ s \ {Pick(s)} \in SUBSET S
             /\ Cardinality(s \ {Pick(s)}) = Cardinality(s) - 1
  <2>1. Pick(s) \in s
    BY <1>1 DEF Pick
  <2> QED
    BY <2>1, OneLess
<1>2. ASSUME NEW k \in Nat, NEW g, Solves(g, k)
      PROVE  \E h : Solves(h, k + 1)
  <2> DEFINE h == [s \in Upto(k + 1) |-> Step(g, s)]
  <2>1. ASSUME NEW s \in Upto(k) PROVE s \in Upto(k + 1) /\ h[s] = g[s]
    <3>1. s \in Upto(k + 1)
      <4>1. s \in SUBSET S /\ Cardinality(s) <= k
        OBVIOUS
      <4>2. Cardinality(s) \in Nat
        BY <1>0, <4>1
      <4> QED
        BY <4>1, <4>2
    <3>2. h[s] = Step(g, s)
      BY <3>1
    <3>3. g[s] = Step(g, s)
      <4> HIDE DEF Step, Upto
      <4> QED
        BY <1>2
    <3> QED
      BY <3>1, <3>2, <3>3
  <2>2. ASSUME NEW s \in Upto(k + 1), s # {} PROVE s \ {Pick(s)} \in Upto(k)
    BY <1>0, <1>1, <2>2
  <2>3. ASSUME NEW s \in Upto(k + 1) PROVE Step(g, s) = Step(h, s)
    <3> HIDE DEF h, Upto
    <3> QED
      BY <2>1, <2>2
  <2>4. h = [s \in Upto(k + 1) |-> Step(h, s)]
    <3>1. h = [s \in Upto(k + 1) |-> Step(g, s)]
      OBVIOUS
    <3> HIDE DEF h, Upto, Step
    <3> QED
      BY <2>3, <3>1
  <2> HIDE DEF h
  <2> QED
    BY <2>4
<1>3. Unsolved = {}
  <2> SUFFICES ASSUME Unsolved # {} PROVE FALSE
    OBVIOUS
  <2>1. PICK k \in Unsolved : \A j \in Unsolved : k <= j
    <3>1. Unsolved \in SUBSET Nat
      OBVIOUS
    <3> HIDE DEF Unsolved
    <3> QED
      BY <3>1, LeastOf
  <2>2. CASE k = 0
    <3> DEFINE g == [s \in Upto(0) |-> 0]
    <3>1. ASSUME NEW s \in Upto(0) PROVE s = {}
      <4>1. s \in SUBSET S /\ Cardinality(s) <= 0
        OBVIOUS
      <4> QED
        BY <1>0, <4>1
    <3>2. g = [s \in Upto(0) |-> Step(g, s)]
      <4> HIDE DEF Upto
      <4> QED
        BY <3>1
    <3> HIDE DEF g
    <3>3. Solves(g, 0)
      BY <3>2
    <3> QED
      BY <2>2, <3>3
  <2>3. CASE k # 0
    <3>1. k - 1 \in Nat /\ k - 1 \notin Unsolved /\ (k - 1) + 1 = k
      <4> HIDE DEF Unsolved
      <4>1. k \in Nat
        BY DEF Unsolved
      <4> QED
        BY <2>1, <2>3, <4>1
    <3>2. \E g : Solves(g, k - 1)
      BY <3>1
    <3>3. \E g : Solves(g, k)
      <4> HIDE DEF Solves
      <4> QED
        BY <1>2, <3>1, <3>2
    <3> QED
      BY <3>3
  <2> QED
    BY <2>2, <2>3
<1>4. PICK g : Solves(g, Cardinality(S))
  BY <1>0, <1>3
<1>5. Upto(Cardinality(S)) = SUBSET S
  BY FS_Subset
<1>6. IsSum(g, f, S)
  <2>1. g = [s \in SUBSET S |-> Step(g, s)]
    <3> HIDE DEF Step
    <3> QED
      BY <1>4, <1>5
  <2> QED
    BY <2>1 DEF IsSum
<1> QED
  BY <1>6

(* And only one, on the parts that two of them share.                       *)
LEMMA SumsAgree ==
  ASSUME NEW f, NEW S, IsFiniteSet(S), NEW T \in SUBSET S,
         NEW g, IsSum(g, f, S), NEW h, IsSum(h, f, T)
  PROVE  \A s \in SUBSET T : g[s] = h[s]
<1> DEFINE Sizes == {Cardinality(s) : s \in {t \in SUBSET T : g[t] # h[t]}}
<1>1. ASSUME NEW s \in SUBSET S, s # {}
      PROVE  /\ Cardinality(s) \in Nat \ {0}
             /\ Cardinality(s \ {Pick(s)}) = Cardinality(s) - 1
  <2>1. Pick(s) \in s
    BY <1>1 DEF Pick
  <2> QED
    BY <2>1, OneLess
<1>2. ASSUME NEW s \in SUBSET T
      PROVE  /\ g[s] = IF s = {} THEN 0 ELSE f[Pick(s)] + g[s \ {Pick(s)}]
             /\ h[s] = IF s = {} THEN 0 ELSE f[Pick(s)] + h[s \ {Pick(s)}]
  BY DEF IsSum
<1>3. Sizes \in SUBSET Nat
  BY FS_Subset, FS_CardinalityType
<1>4. SUFFICES ASSUME NEW u \in SUBSET T, g[u] # h[u] PROVE FALSE
  OBVIOUS
<1>5. Cardinality(u) \in Sizes
  BY <1>4
<1>6. PICK k \in Sizes : \A j \in Sizes : k <= j
  <2> HIDE DEF Sizes
  <2> QED
    BY <1>3, <1>5, LeastOf
<1>7. PICK s \in SUBSET T : g[s] # h[s] /\ k = Cardinality(s)
  OBVIOUS
<1>8. s # {} /\ g[s \ {Pick(s)}] # h[s \ {Pick(s)}]
  BY <1>2, <1>7
<1>9. Cardinality(s \ {Pick(s)}) \in Sizes
  BY <1>8
<1> HIDE DEF Sizes
<1> QED
  BY <1>1, <1>3, <1>6, <1>7, <1>8, <1>9

(* So a sum is the one element that is chosen and the sum of the others.    *)
LEMMA SumRule ==
  ASSUME NEW f, NEW S, IsFiniteSet(S)
  PROVE  /\ S = {} => SumFunctionOnSet(f, S) = 0
         /\ S # {} => SumFunctionOnSet(f, S)
                        = f[Pick(S)] + SumFunctionOnSet(f, S \ {Pick(S)})
<1> DEFINE iter(T) == CHOOSE g : IsSum(g, f, T)
<1>1. ASSUME NEW T \in SUBSET S
      PROVE  SumFunctionOnSet(f, T) = iter(T)[T] /\ IsSum(iter(T), f, T)
  <2>1. \E g : IsSum(g, f, T)
    BY FS_Subset, SumsExist
  <2> QED
    BY <2>1, SumUnfolds
<1>2. S \in SUBSET S /\ S \ {Pick(S)} \in SUBSET S
  OBVIOUS
<1> HIDE DEF iter
<1>3. iter(S)[S] = IF S = {} THEN 0 ELSE f[Pick(S)] + iter(S)[S \ {Pick(S)}]
  BY <1>1, <1>2 DEF IsSum
<1>4. iter(S)[S \ {Pick(S)}] = iter(S \ {Pick(S)})[S \ {Pick(S)}]
  BY <1>1, <1>2, SumsAgree
<1> QED
  BY <1>1, <1>2, <1>3, <1>4

(* Whichever element is taken first.                                        *)
LEMMA SumIsInteger ==
  ASSUME NEW S, IsFiniteSet(S), NEW f, \A x \in S : f[x] \in Int
  PROVE  \A s \in SUBSET S : SumFunctionOnSet(f, s) \in Int
<1> DEFINE Sizes == {Cardinality(s) : s \in {t \in SUBSET S : SumFunctionOnSet(f, t) \notin Int}}
<1>1. ASSUME NEW s \in SUBSET S, s # {}
      PROVE  /\ Cardinality(s) \in Nat \ {0} /\ Pick(s) \in S
             /\ Cardinality(s \ {Pick(s)}) = Cardinality(s) - 1
  <2>1. Pick(s) \in s
    BY <1>1 DEF Pick
  <2> QED
    BY <2>1, OneLess
<1>2. ASSUME NEW s \in SUBSET S
      PROVE  /\ s = {} => SumFunctionOnSet(f, s) = 0
             /\ s # {} => SumFunctionOnSet(f, s)
                            = f[Pick(s)] + SumFunctionOnSet(f, s \ {Pick(s)})
  BY FS_Subset, SumRule
<1>3. Sizes \in SUBSET Nat
  BY FS_Subset, FS_CardinalityType
<1>4. SUFFICES ASSUME NEW u \in SUBSET S, SumFunctionOnSet(f, u) \notin Int PROVE FALSE
  OBVIOUS
<1>5. Cardinality(u) \in Sizes
  BY <1>4
<1>6. PICK k \in Sizes : \A j \in Sizes : k <= j
  <2> HIDE DEF Sizes
  <2> QED
    BY <1>3, <1>5, LeastOf
<1>7. PICK s \in SUBSET S : SumFunctionOnSet(f, s) \notin Int /\ k = Cardinality(s)
  OBVIOUS
<1>8. s # {} /\ SumFunctionOnSet(f, s \ {Pick(s)}) \notin Int
  BY <1>1, <1>2, <1>7
<1>9. Cardinality(s \ {Pick(s)}) \in Sizes
  BY <1>8
<1> HIDE DEF Sizes
<1> QED
  BY <1>1, <1>3, <1>6, <1>7, <1>8, <1>9

LEMMA SumSplits ==
  ASSUME NEW S, IsFiniteSet(S), NEW f, \A x \in S : f[x] \in Int
  PROVE  \A s \in SUBSET S : \A x \in s :
             SumFunctionOnSet(f, s) = f[x] + SumFunctionOnSet(f, s \ {x})
<1> DEFINE Sum(s) == SumFunctionOnSet(f, s)
           Splits(s) == \A x \in s : Sum(s) = f[x] + Sum(s \ {x})
           Sizes == {Cardinality(s) : s \in {t \in SUBSET S : ~Splits(t)}}
<1>1. ASSUME NEW s \in SUBSET S, NEW x \in s
      PROVE  /\ s \ {x} \in SUBSET S
             /\ Cardinality(s) \in Nat \ {0}
             /\ Cardinality(s \ {x}) = Cardinality(s) - 1
  BY OneLess
<1>2. ASSUME NEW s \in SUBSET S, s # {}
      PROVE  Pick(s) \in s /\ Sum(s) = f[Pick(s)] + Sum(s \ {Pick(s)})
  BY <1>2, FS_Subset, SumRule DEF Pick
<1>3. \A s \in SUBSET S : Sum(s) \in Int
  BY SumIsInteger
<1>4. Sizes \in SUBSET Nat
  BY FS_Subset, FS_CardinalityType
<1>5. SUFFICES ASSUME NEW u \in SUBSET S, ~Splits(u) PROVE FALSE
  OBVIOUS
<1> HIDE DEF Sum
<1>6. PICK s \in SUBSET S : ~Splits(s) /\ \A j \in Sizes : Cardinality(s) <= j
  <2>1. Cardinality(u) \in Sizes
    BY <1>5
  <2>2. PICK k \in Sizes : \A j \in Sizes : k <= j
    <3> HIDE DEF Sizes
    <3> QED
      BY <1>4, <2>1, LeastOf
  <2> QED
    BY <2>2
<1>7. ASSUME NEW x \in s PROVE Splits(s \ {x})
  <2>1. Cardinality(s \ {x}) \notin Sizes
    <3> HIDE DEF Sizes
    <3> QED
      BY <1>1, <1>6
  <2> HIDE DEF Splits
  <2> QED
    BY <1>1, <2>1
<1> HIDE DEF Sizes
<1>8. ASSUME NEW x \in s PROVE Sum(s) = f[x] + Sum(s \ {x})
  <2> DEFINE c == Pick(s)
  <2>1. c \in s /\ Sum(s) = f[c] + Sum(s \ {c})
    BY <1>2
  <2> HIDE DEF c
  <2>2. CASE x = c
    BY <2>1, <2>2
  <2>3. CASE x # c
    <3>1. Sum(s \ {c}) = f[x] + Sum((s \ {c}) \ {x})
      BY <1>7, <2>1, <2>3
    <3>2. Sum(s \ {x}) = f[c] + Sum((s \ {x}) \ {c})
      BY <1>7, <2>1, <2>3
    <3>3. (s \ {c}) \ {x} = (s \ {x}) \ {c} /\ (s \ {c}) \ {x} \in SUBSET S
      OBVIOUS
    <3>4. f[c] \in Int /\ f[x] \in Int /\ Sum((s \ {c}) \ {x}) \in Int
      BY <1>3, <2>1, <3>3
    <3>5. \A a, b, r \in Int : a + (b + r) = b + (a + r)
      OBVIOUS
    <3>6. Sum(s) = f[c] + (f[x] + Sum((s \ {c}) \ {x}))
      BY <2>1, <3>1
    <3>7. f[x] + Sum(s \ {x}) = f[x] + (f[c] + Sum((s \ {c}) \ {x}))
      BY <3>2, <3>3
    <3> QED
      BY <3>4, <3>5, <3>6, <3>7
  <2> QED
    BY <2>2, <2>3
<1> QED
  BY <1>6, <1>8

(* The sum of the first v is that of the first v - 1 and the next.          *)
LEMMA OneMore ==
  ASSUME NEW n \in Nat, NEW f, \A v \in 1 .. n : f[v] \in Int, NEW v \in 1 .. n
  PROVE  SumFunctionOnSet(f, 1 .. v) = f[v] + SumFunctionOnSet(f, 1 .. v - 1)
<1>1. (1 .. v) \ {v} = 1 .. v - 1 /\ v \in 1 .. v /\ 1 .. v \in SUBSET (1 .. n)
  OBVIOUS
<1>2. IsFiniteSet(1 .. n)
  BY FS_Interval
<1>3. SumFunctionOnSet(f, 1 .. v) = f[v] + SumFunctionOnSet(f, (1 .. v) \ {v})
  BY <1>1, <1>2, SumSplits
<1> QED
  BY <1>1, <1>3

(* The sum of a sequence is where running totals that add its elements one  *)
(* by one get to.                                                           *)
LEMMA Telescopes ==
  ASSUME NEW n \in Nat, NEW f, NEW total,
         \A v \in 1 .. n : f[v] \in Int,
         total[0] = 0, \A v \in 1 .. n : total[v] = total[v - 1] + f[v]
  PROVE  \A v \in 0 .. n : SumFunctionOnSet(f, 1 .. v) = total[v]
<1> DEFINE Sum(v) == SumFunctionOnSet(f, 1 .. v)
           Others == {v \in 0 .. n : Sum(v) # total[v]}
<1>1. Sum(0) = 0
  <2>1. 1 .. 0 = {}
    OBVIOUS
  <2>2. SumFunctionOnSet(f, {}) = 0
    BY SumRule, FS_EmptySet
  <2> QED
    BY <2>1, <2>2
<1>2. ASSUME NEW v \in 1 .. n PROVE Sum(v) = f[v] + Sum(v - 1)
  BY OneMore
<1>3. SUFFICES ASSUME Others # {} PROVE FALSE
  OBVIOUS
<1>4. PICK v \in Others : \A w \in Others : v <= w
  <2>1. Others \in SUBSET Nat
    OBVIOUS
  <2> HIDE DEF Others
  <2> QED
    BY <1>3, <2>1, LeastOf
<1>5. \A w \in 0 .. n : Sum(w) \in Int
  <2>1. IsFiniteSet(1 .. n) /\ \A w \in 0 .. n : 1 .. w \in SUBSET (1 .. n)
    BY FS_Interval
  <2> QED
    BY <2>1, SumIsInteger
<1> HIDE DEF Sum
<1>6. v # 0 /\ v \in 0 .. n
  BY <1>1
<1>7. Sum(v - 1) = total[v - 1]
  BY <1>4, <1>6
<1> QED
  BY <1>2, <1>5, <1>6, <1>7

-----------------------------------------------------------------------------
(* AbTests.                                                                 *)

(* Rates compared crosswise: if a of A is no less than b of B, and that no  *)
(* less than c of C, then a of A is no less than c of C.                   *)
LEMMA NoLess ==
  ASSUME NEW a \in Nat, NEW b \in Nat, NEW c \in Nat,
         NEW A \in Nat \ {0}, NEW B \in Nat \ {0}, NEW C \in Nat \ {0},
         a * B >= b * A, b * C >= c * B
  PROVE  /\ a * C >= c * A
         /\ a * B > b * A \/ b * C > c * B => a * C > c * A
<1>1. /\ (a * B) * C >= (b * A) * C
      /\ (b * C) * A >= (c * B) * A
      /\ a * B > b * A => (a * B) * C > (b * A) * C
      /\ b * C > c * B => (b * C) * A > (c * B) * A
  OBVIOUS
<1>2. /\ (a * B) * C = B * (a * C)
      /\ (b * A) * C = (b * C) * A
      /\ (c * B) * A = B * (c * A)
  OBVIOUS
<1>3. a * C \in Int /\ c * A \in Int
  OBVIOUS
<1>4. \A x, y \in Int : B * x >= B * y => x >= y
  OBVIOUS
<1>5. \A x, y \in Int : B * x > B * y => x > y
  OBVIOUS
<1> QED
  BY <1>1, <1>2, <1>3, <1>4, <1>5

(* R, a set of pairs, is a strict order on D; and every part of D has an   *)
(* element nothing in that part comes before.                              *)
IsStrictOrder(R, D) ==
    /\ \A x \in D : <<x, x>> \notin R
    /\ \A x, y, z \in D : <<x, y>> \in R /\ <<y, z>> \in R => <<x, z>> \in R

HasForemost(R, D) ==
    \A T \in SUBSET D : T # {} => \E x \in T : \A y \in T : <<y, x>> \notin R

(* In a strict order of a finite set there is always a foremost element.   *)
LEMMA ForemostExists ==
  ASSUME NEW D, IsFiniteSet(D), NEW R, IsStrictOrder(R, D)
  PROVE  HasForemost(R, D)
<1> SUFFICES ASSUME NEW T \in SUBSET D, T # {}
             PROVE  \E x \in T : \A y \in T : <<y, x>> \notin R
  BY DEF HasForemost
<1> USE DEF IsStrictOrder
<1> DEFINE Before(x) == {y \in D : <<y, x>> \in R}
           Befores == {Before(x) : x \in T}
<1>1. IsWellFoundedOn(StrictSubsetOrdering(D), FiniteSubsetsOf(D))
  BY FS_StrictSubsetOrderingWellFounded
<1>2. Befores \subseteq FiniteSubsetsOf(D)
  <2>1. ASSUME NEW x \in T PROVE Before(x) \in FiniteSubsetsOf(D)
    <3>1. Before(x) \in SUBSET D
      OBVIOUS
    <3> HIDE DEF Before
    <3> QED
      BY <3>1, FS_Subset DEF FiniteSubsetsOf
  <2> QED
    BY <2>1
<1>3. Befores # {}
  <2>1. PICK x : x \in T
    OBVIOUS
  <2>2. Before(x) \in Befores
    BY <2>1
  <2> QED
    BY <2>2
<1> HIDE DEF Befores
<1>4. PICK X \in Befores : \A Y \in Befores : <<Y, X>> \notin StrictSubsetOrdering(D)
  BY <1>1, <1>2, <1>3, WFMin
<1>5. PICK x \in T : X = Before(x)
  BY <1>4 DEF Befores
<1>6. ASSUME NEW y \in T, <<y, x>> \in R PROVE FALSE
  <2>1. Before(y) \subseteq Before(x)
    BY <1>6
  <2>2. y \in Before(x) /\ y \notin Before(y)
    BY <1>6
  <2>3. <<Before(y), Before(x)>> \in StrictSubsetOrdering(D)
    <3>1. Before(y) \in SUBSET D /\ Before(x) \in SUBSET D
      OBVIOUS
    <3>2. Before(y) # Before(x)
      BY <2>2
    <3> HIDE DEF Before
    <3> QED
      BY <2>1, <3>1, <3>2 DEF StrictSubsetOrdering
  <2>4. Before(y) \in Befores
    BY DEF Befores
  <2> QED
    BY <1>4, <1>5, <2>3, <2>4
<1> QED
  BY <1>6

(* Tests and counts; the metric of a test is a kind of event, and its      *)
(* weights were about 100 when it was created.                             *)
AbInv ==
    /\ AbTypeOK
    /\ weights # <<>> => metric \in Kinds /\ SumFunction(weights) \in 95 .. 105

(* The counts AheadOf compares: a variant without deliveries has rate 0/1. *)
Rated(v) == IF tally[v].delivered = 0 THEN 0 ELSE tally[v][metric]

OutOf(v) == IF tally[v].delivered = 0 THEN 1 ELSE tally[v].delivered

(* Counts are numbers, and a rate has a denominator.                       *)
LEMMA RatesAreRates ==
  ASSUME AbInv, weights # <<>>
  PROVE  /\ DOMAIN weights = 1 .. Len(weights) /\ Len(weights) \in Nat /\ Len(weights) >= 2
         /\ \A v \in DOMAIN weights : Rated(v) \in Nat /\ OutOf(v) \in Nat \ {0}
         /\ \A v \in DOMAIN weights : tally[v].delivered \in Nat /\ tally[v][metric] \in Nat
<1>1. weights \in Weightings /\ weights \in Seq(1 .. 99) /\ Len(weights) >= 2
  BY AbAssumption DEF AbInv, AbTypeOK
<1>2. DOMAIN weights = 1 .. Len(weights) /\ Len(weights) \in Nat
  BY <1>1
<1>3. \A v \in DOMAIN weights : tally[v].delivered \in Nat /\ tally[v][metric] \in Nat
  BY AbAssumption DEF AbInv, AbTypeOK, Kinds
<1> QED
  BY <1>1, <1>2, <1>3 DEF Rated, OutOf

(* The sort of the results is a total order.                               *)
LEMMA AheadIsOrder ==
  ASSUME AbInv, weights # <<>>
  PROVE  /\ \A v \in DOMAIN weights : ~AheadOf(v, v)
         /\ \A v, w \in DOMAIN weights : v # w => AheadOf(v, w) \/ AheadOf(w, v)
         /\ \A v, w \in DOMAIN weights :
                AheadOf(v, w) => Rated(v) * OutOf(w) >= Rated(w) * OutOf(v)
         /\ \A u, v, w \in DOMAIN weights : AheadOf(u, v) /\ AheadOf(v, w) => AheadOf(u, w)
<1>1. /\ DOMAIN weights \subseteq Nat
      /\ \A v \in DOMAIN weights : Rated(v) \in Nat /\ OutOf(v) \in Nat \ {0}
  BY RatesAreRates
<1>2. ASSUME NEW v \in DOMAIN weights, NEW w \in DOMAIN weights
      PROVE  AheadOf(v, w) <=> \/ Rated(v) * OutOf(w) > Rated(w) * OutOf(v)
                               \/ Rated(v) * OutOf(w) = Rated(w) * OutOf(v) /\ v < w
  BY DEF AheadOf, Rated, OutOf
<1>3. \A v, w \in DOMAIN weights : Rated(v) * OutOf(w) \in Int
  BY <1>1
<1>4. ASSUME NEW v \in DOMAIN weights PROVE ~AheadOf(v, v)
  <2>1. Rated(v) * OutOf(v) \in Int /\ v \in Nat
    BY <1>1, <1>3
  <2> QED
    BY <1>2, <2>1
<1>5. ASSUME NEW v \in DOMAIN weights, NEW w \in DOMAIN weights, v # w
      PROVE  AheadOf(v, w) \/ AheadOf(w, v)
  BY <1>1, <1>2, <1>3, <1>5
<1>6. ASSUME NEW v \in DOMAIN weights, NEW w \in DOMAIN weights, AheadOf(v, w)
      PROVE  Rated(v) * OutOf(w) >= Rated(w) * OutOf(v)
  BY <1>2, <1>3, <1>6
<1>7. ASSUME NEW u \in DOMAIN weights, NEW v \in DOMAIN weights, NEW w \in DOMAIN weights,
             AheadOf(u, v), AheadOf(v, w)
      PROVE  AheadOf(u, w)
  <2>1. /\ Rated(u) * OutOf(w) >= Rated(w) * OutOf(u)
        /\ Rated(u) * OutOf(v) > Rated(v) * OutOf(u)
              \/ Rated(v) * OutOf(w) > Rated(w) * OutOf(v)
             => Rated(u) * OutOf(w) > Rated(w) * OutOf(u)
    BY <1>1, <1>6, <1>7, NoLess
  <2>2. /\ u \in Nat /\ v \in Nat /\ w \in Nat
        /\ Rated(u) * OutOf(w) \in Int /\ Rated(w) * OutOf(u) \in Int
    BY <1>1, <1>3
  <2>3. CASE Rated(u) * OutOf(w) > Rated(w) * OutOf(u)
    BY <1>2, <2>3
  <2>4. CASE ~(Rated(u) * OutOf(w) > Rated(w) * OutOf(u))
    <3>1. u < v /\ v < w
      BY <1>2, <1>7, <2>1, <2>4
    <3> QED
      BY <1>2, <2>1, <2>2, <2>4, <3>1
  <2> QED
    BY <2>3, <2>4
<1> QED
  BY <1>4, <1>5, <1>6, <1>7

(* The sort puts one variant first and one second.                         *)
LEMMA BestTwo ==
  ASSUME AbInv, weights # <<>>
  PROVE  /\ Best \in DOMAIN weights /\ RunnerUp \in DOMAIN weights /\ RunnerUp # Best
         /\ \A v \in DOMAIN weights \ {Best} : AheadOf(Best, v)
         /\ \A v \in DOMAIN weights \ {Best, RunnerUp} : AheadOf(RunnerUp, v)
<1> DEFINE D == DOMAIN weights
           R == {p \in D \X D : AheadOf(p[1], p[2])}
           Leaders(v) == {w \in D : AheadOf(w, v)}
<1>1. /\ IsFiniteSet(D) /\ D = 1 .. Len(weights) /\ Len(weights) \in Nat
      /\ Len(weights) >= 2
  BY RatesAreRates, FS_Interval
<1>2. \A x, y \in D : <<x, y>> \in R <=> AheadOf(x, y)
  OBVIOUS
<1>3. IsStrictOrder(R, D)
  BY <1>2, AheadIsOrder DEF IsStrictOrder
<1> HIDE DEF R
<1> HIDE DEF D
<1>4. ASSUME NEW T \in SUBSET D, T # {}
      PROVE  \E x \in T : \A y \in T : ~AheadOf(y, x)
  <2>1. HasForemost(R, D)
    BY <1>1, <1>3, ForemostExists
  <2>2. PICK x \in T : \A y \in T : <<y, x>> \notin R
    BY <1>4, <2>1 DEF HasForemost
  <2> QED
    BY <1>2, <2>2
<1> USE DEF D
<1>5. \A v \in D : /\ IsFiniteSet(Leaders(v))
                    /\ Ranked(v) = Cardinality(Leaders(v))
  BY <1>1, FS_Subset DEF Ranked
<1> HIDE DEF Leaders
<1>6. Best \in D /\ Leaders(Best) = {} /\ Ranked(Best) = 0
  <2>1. PICK x \in D : \A y \in D : ~AheadOf(y, x)
    <3>1. 1 \in D
      BY <1>1
    <3> QED
      BY <1>4, <3>1
  <2>2. Leaders(x) = {}
    BY <2>1 DEF Leaders
  <2>3. Ranked(x) = 0
    BY <1>5, <2>2, FS_EmptySet
  <2>4. Best \in D /\ Ranked(Best) = 0
    BY <2>3 DEF Best
  <2> QED
    BY <1>5, <2>4, FS_EmptySet
<1>7. \A v \in D \ {Best} : AheadOf(Best, v)
  BY <1>6, AheadIsOrder DEF Leaders
<1>8. RunnerUp \in D /\ Ranked(RunnerUp) = 1
  <2>1. \E v \in D : v # Best
    BY <1>1
  <2>2. PICK x \in D \ {Best} : \A y \in D \ {Best} : ~AheadOf(y, x)
    BY <1>4, <2>1
  <2>3. Leaders(x) = {Best}
    BY <1>6, <1>7, <2>2 DEF Leaders
  <2>4. Ranked(x) = 1
    BY <1>5, <2>3, FS_Singleton
  <2> QED
    BY <2>4 DEF RunnerUp
<1>9. RunnerUp # Best
  BY <1>6, <1>8
<1>10. Leaders(RunnerUp) = {Best}
  <2>1. PICK x : Leaders(RunnerUp) = {x}
    BY <1>5, <1>8, FS_Singleton
  <2>2. Best \in Leaders(RunnerUp)
    BY <1>6, <1>7, <1>8, <1>9 DEF Leaders
  <2> QED
    BY <2>1, <2>2
<1>11. \A v \in D \ {Best, RunnerUp} : AheadOf(RunnerUp, v)
  BY <1>8, <1>10, AheadIsOrder DEF Leaders
<1> QED
  BY <1>6, <1>7, <1>8, <1>9, <1>11

(* Equal rates are no significant difference.                              *)
LEMMA EqualRatesAreNotSignificant ==
  ASSUME NEW a \in Nat, NEW A \in Nat, NEW b \in Nat, NEW B \in Nat,
         B # 0 => a * B = b * A
  PROVE  ChiSquare(a, A, b, B) = 0
<1> DEFINE N == A + B
<1>1. CASE A = 0 \/ B = 0 \/ a + b \in {0, N}
  BY <1>1 DEF ChiSquare
<1>2. CASE ~(A = 0 \/ B = 0 \/ a + b \in {0, N})
  <2>1. a * B - b * A = 0
    BY <1>2
  <2>2. \A d \in Int : d > 0 => 0 \div d = 0
    OBVIOUS
  <2>3. /\ N * A * (a + b) \in Int /\ N * A * (a + b) > 0
        /\ N * B * (a + b) \in Int /\ N * B * (a + b) > 0
    <3>1. N \in Nat /\ N > 0 /\ a + b \in Nat /\ a + b > 0 /\ A > 0 /\ B > 0
      BY <1>2
    <3>2. \A x, y \in Nat : x > 0 /\ y > 0 => x * y \in Nat /\ x * y > 0
      OBVIOUS
    <3> HIDE DEF N
    <3>3. N * A \in Nat /\ N * A > 0 /\ N * B \in Nat /\ N * B > 0
      BY <3>1, <3>2
    <3> QED
      BY <3>1, <3>2, <3>3
  <2>4. ASSUME NEW x \in Int
        PROVE  Max({N, x}) \in Int /\ Max({N, x}) > 0
    <3>1. \E y \in {N, x} : \A z \in {N, x} : y >= z
      OBVIOUS
    <3>2. Max({N, x}) \in {N, x} /\ Max({N, x}) >= N
      BY <3>1 DEF Max
    <3> QED
      BY <1>2, <3>2
  <2>5. ASSUME NEW x \in Int
        PROVE  N * Max({N, x}) \in Int /\ N * Max({N, x}) > 0
    <3>1. N \in Int /\ N > 0
      BY <1>2
    <3>2. \A p, q \in Int : p > 0 /\ q > 0 => p * q \in Int /\ p * q > 0
      OBVIOUS
    <3> QED
      BY <2>4, <3>1, <3>2
  <2> QED
    BY <1>2, <2>1, <2>2, <2>3, <2>5 DEF ChiSquare
<1> QED
  BY <1>1, <1>2

LEMMA AbPreserved == AbInv /\ [AbNext]_abVars => AbInv'
<1> SUFFICES ASSUME AbInv, [AbNext]_abVars PROVE AbInv'
  OBVIOUS
<1>0. MaxCount \in Nat
  BY AbAssumption
<1>1. ASSUME NEW w \in Weightings, NEW m \in Metrics, CreateTest(w, m) PROVE AbInv'
  <2>1. m \in Kinds
    BY AbAssumption DEF Kinds
  <2> QED
    BY <1>0, <1>1, <2>1 DEF CreateTest, AbInv, AbTypeOK, NoneYet
<1>2. ASSUME NEW v \in 1 .. Watched, NEW kind \in Kinds, RecordEvent(v, kind)
      PROVE  AbInv'
  <2>1. tally[v][kind] + 1 \in 0 .. MaxCount
    BY <1>0, <1>2 DEF RecordEvent, AbInv, AbTypeOK
  <2> QED
    BY <1>2, <2>1 DEF RecordEvent, AbInv, AbTypeOK
<1>3. CASE ForgetTests
  BY <1>3 DEF ForgetTests, AbInv, AbTypeOK
<1>4. CASE UNCHANGED abVars
  BY <1>4 DEF abVars, AbInv, AbTypeOK
<1> QED
  BY <1>1, <1>2, <1>3, <1>4 DEF AbNext

LEMMA AbInvariant == AbSpec => []AbInv
<1>1. AbInit => AbInv
  BY DEF AbInit, AbInv, AbTypeOK
<1> QED
  BY <1>1, AbPreserved, PTL DEF AbSpec

(* A test keeps counts for exactly its variants.                           *)
THEOREM AbTypeCorrect == AbSpec => []AbTypeOK
<1>1. AbInv => AbTypeOK
  BY DEF AbInv
<1> QED
  BY <1>1, AbInvariant, PTL

(* Whatever is counted of whatever number of variants, the results name a  *)
(* winner only if its rate is above that of every other.  The first of two *)
(* equal rates is not named, because the runner-up then has that rate too  *)
(* and the difference of equal rates is not significant.                   *)
THEOREM WinnersLead == AbSpec => []WinnersAreAhead
<1>1. ASSUME AbInv PROVE WinnersAreAhead
  <2> SUFFICES ASSUME HasWinner, NEW v \in DOMAIN weights \ {Best},
                      tally[v].delivered # 0
               PROVE  tally[Best][metric] * tally[v].delivered
                        > tally[v][metric] * tally[Best].delivered
    BY DEF WinnersAreAhead
  <2>1. weights # <<>> /\ tally[Best].delivered >= MinSample
    BY DEF HasWinner
  <2>2. /\ Best \in DOMAIN weights /\ RunnerUp \in DOMAIN weights /\ RunnerUp # Best
        /\ \A w \in DOMAIN weights \ {Best} : AheadOf(Best, w)
        /\ \A w \in DOMAIN weights \ {Best, RunnerUp} : AheadOf(RunnerUp, w)
    BY <1>1, <2>1, BestTwo
  <2>3. \A w \in DOMAIN weights : /\ tally[w].delivered \in Nat /\ tally[w][metric] \in Nat
                                   /\ Rated(w) \in Nat /\ OutOf(w) \in Nat \ {0}
    BY <1>1, <2>1, RatesAreRates
  <2>4. tally[Best].delivered # 0
    BY <2>1, <2>2, <2>3, AbAssumption
  <2>5. /\ Rated(Best) = tally[Best][metric] /\ OutOf(Best) = tally[Best].delivered
        /\ Rated(v) = tally[v][metric] /\ OutOf(v) = tally[v].delivered
    BY <2>4 DEF Rated, OutOf
  <2>6. Rated(Best) * OutOf(v) >= Rated(v) * OutOf(Best)
    BY <1>1, <2>1, <2>2, AheadIsOrder
  <2>7. ASSUME Rated(Best) * OutOf(v) = Rated(v) * OutOf(Best) PROVE FALSE
    <3>1. Rated(Best) * OutOf(RunnerUp) = Rated(RunnerUp) * OutOf(Best)
      <4>1. CASE v = RunnerUp
        BY <2>7, <4>1
      <4>2. CASE v # RunnerUp
        <5>1. /\ Rated(Best) * OutOf(RunnerUp) >= Rated(RunnerUp) * OutOf(Best)
              /\ Rated(RunnerUp) * OutOf(v) >= Rated(v) * OutOf(RunnerUp)
          BY <1>1, <2>1, <2>2, <4>2, AheadIsOrder
        <5>2. ~(Rated(Best) * OutOf(RunnerUp) > Rated(RunnerUp) * OutOf(Best))
          <6>1. /\ Rated(Best) \in Nat /\ Rated(RunnerUp) \in Nat /\ Rated(v) \in Nat
                /\ OutOf(Best) \in Nat \ {0} /\ OutOf(RunnerUp) \in Nat \ {0}
                /\ OutOf(v) \in Nat \ {0}
            BY <2>2, <2>3
          <6>2. Rated(Best) * OutOf(RunnerUp) > Rated(RunnerUp) * OutOf(Best)
                  => Rated(Best) * OutOf(v) > Rated(v) * OutOf(Best)
            BY <5>1, <6>1, NoLess
          <6>3. Rated(Best) * OutOf(v) \in Int
            BY <6>1
          <6> QED
            BY <2>7, <6>2, <6>3
        <5>3. /\ Rated(Best) * OutOf(RunnerUp) \in Int
              /\ Rated(RunnerUp) * OutOf(Best) \in Int
          BY <2>2, <2>3
        <5> QED
          BY <5>1, <5>2, <5>3
      <4> QED
        BY <4>1, <4>2
    <3>2. tally[RunnerUp].delivered # 0 =>
              tally[Best][metric] * tally[RunnerUp].delivered
                = tally[RunnerUp][metric] * tally[Best].delivered
      BY <2>5, <3>1 DEF Rated, OutOf
    <3>3. ChiSquare(tally[Best][metric], tally[Best].delivered,
                    tally[RunnerUp][metric], tally[RunnerUp].delivered) = 0
      BY <2>2, <2>3, <3>2, EqualRatesAreNotSignificant
    <3> QED
      BY <3>3 DEF HasWinner, Significant
  <2>8. Rated(Best) * OutOf(v) \in Int /\ Rated(v) * OutOf(Best) \in Int
    BY <2>2, <2>3
  <2> QED
    BY <2>5, <2>6, <2>7, <2>8
<1> QED
  BY <1>1, AbInvariant, PTL

(* The weights add up one after another, to about 100.                      *)
LEMMA WeightsAddUp ==
  ASSUME AbInv, weights # <<>>
  PROVE  /\ Len(weights) \in Nat /\ Len(weights) >= 2 /\ DOMAIN weights = 1 .. Len(weights)
         /\ \A v \in 1 .. Len(weights) : weights[v] \in Nat
         /\ \A v \in 0 .. Len(weights) : Cumulative(v) \in Nat
         /\ Cumulative(0) = 0
         /\ Cumulative(Len(weights)) \in 95 .. 105
         /\ \A v \in 1 .. Len(weights) : Cumulative(v) = Cumulative(v - 1) + weights[v]
<1> DEFINE n == Len(weights)
<1>1. weights \in Seq(1 .. 99) /\ n >= 2
  BY AbAssumption DEF AbInv, AbTypeOK
<1>2. n \in Nat /\ DOMAIN weights = 1 .. n /\ \A v \in 1 .. n : weights[v] \in Nat
  <2>1. n \in Nat /\ DOMAIN weights = 1 .. n
    BY <1>1
  <2>2. \A v \in 1 .. n : weights[v] \in 1 .. 99
    BY <1>1, ElementOfSeq
  <2>3. \A x \in 1 .. 99 : x \in Nat
    OBVIOUS
  <2>4. \A v \in 1 .. n : weights[v] \in Nat
    BY <2>2, <2>3
  <2> QED
    BY <2>1, <2>4
<1> HIDE DEF n
<1>3. Cumulative(n) \in 95 .. 105
  BY <1>2 DEF AbInv, SumFunction, Cumulative
<1>4. \A v \in 1 .. n : Cumulative(v) = weights[v] + Cumulative(v - 1)
  BY <1>2, OneMore DEF Cumulative
<1>5. Cumulative(0) = 0
  <2>1. 1 .. 0 = {}
    OBVIOUS
  <2>2. SumFunctionOnSet(weights, {}) = 0
    BY SumRule, FS_EmptySet
  <2> QED
    BY <2>1, <2>2 DEF Cumulative
<1> DEFINE Bad == {v \in 0 .. n : Cumulative(v) \notin Nat}
<1>6. Bad = {}
  <2> SUFFICES ASSUME Bad # {} PROVE FALSE
    OBVIOUS
  <2>1. Bad \in SUBSET Nat
    BY <1>2
  <2>2. PICK v \in Bad : \A w \in Bad : v <= w
    <3> HIDE DEF Bad
    <3> QED
      BY <2>1, LeastOf
  <2>3. v # 0 /\ v \in 1 .. n
    BY <1>2, <1>5
  <2>4. Cumulative(v - 1) \in Nat
    BY <1>2, <2>2, <2>3
  <2> QED
    BY <1>2, <1>4, <2>3, <2>4
<1>7. \A v \in 1 .. n : Cumulative(v) = Cumulative(v - 1) + weights[v]
  <2> TAKE v \in 1 .. n
  <2>1. Cumulative(v - 1) \in Nat /\ weights[v] \in Nat
    BY <1>2, <1>6
  <2> QED
    BY <1>4, <2>1
<1> QED
  BY <1>1, <1>2, <1>3, <1>5, <1>6, <1>7 DEF n

LEMMA CumulativeGrows ==
  ASSUME AbInv, weights # <<>>, NEW u \in 0 .. Len(weights), NEW v \in u .. Len(weights)
  PROVE  Cumulative(u) <= Cumulative(v)
<1> DEFINE n == Len(weights)
           Bad == {w \in u .. n : ~(Cumulative(u) <= Cumulative(w))}
<1>1. /\ n \in Nat
      /\ \A w \in 1 .. n : weights[w] \in Nat
      /\ \A w \in 0 .. n : Cumulative(w) \in Nat
      /\ \A w \in 1 .. n : Cumulative(w) = Cumulative(w - 1) + weights[w]
  BY WeightsAddUp
<1> SUFFICES ASSUME Bad # {} PROVE FALSE
  OBVIOUS
<1> HIDE DEF n
<1>2. PICK w \in Bad : \A x \in Bad : w <= x
  <2>1. Bad \in SUBSET Nat
    BY <1>1 DEF n
  <2> HIDE DEF Bad
  <2> QED
    BY <2>1, LeastOf
<1>3. u \in 0 .. n /\ w \in u .. n /\ w # u
  BY <1>1 DEF n
<1>4. w - 1 \in u .. n /\ w - 1 \notin Bad /\ w \in 1 .. n
  <2>1. w - 1 \in u .. n /\ w \in 1 .. n /\ ~(w <= w - 1)
    BY <1>1, <1>3
  <2> HIDE DEF Bad
  <2> QED
    BY <1>2, <2>1
<1>5. /\ Cumulative(u) <= Cumulative(w - 1)
      /\ ~(Cumulative(u) <= Cumulative(w))
  BY <1>4
<1>6. Cumulative(w - 1) \in Nat /\ weights[w] \in Nat /\ Cumulative(u) \in Nat
  BY <1>1, <1>3, <1>4
<1> QED
  BY <1>1, <1>4, <1>5, <1>6

(* The buckets of a variant lie between what its weight is added to and the *)
(* sum; the last variant has what is left.                                  *)
LEMMA AssignedBetween ==
  ASSUME AbInv, weights # <<>>, NEW v \in DOMAIN weights, NEW bucket \in 0 .. 99
  PROVE  Assigned(bucket) = v <=> /\ Cumulative(v - 1) <= bucket
                                  /\ v # Len(weights) => bucket < Cumulative(v)
<1> DEFINE n == Len(weights)
           reached == {w \in DOMAIN weights : bucket < Cumulative(w)}
<1>1. /\ n \in Nat /\ n >= 2 /\ DOMAIN weights = 1 .. n /\ Cumulative(0) = 0
      /\ \A w \in 0 .. n : Cumulative(w) \in Nat
  BY WeightsAddUp
<1>2. Assigned(bucket) = IF reached = {} THEN n ELSE Min(reached)
  BY DEF Assigned
<1>3. \A w \in 0 .. n : \A x \in w .. n : Cumulative(w) <= Cumulative(x)
  BY CumulativeGrows
<1> HIDE DEF n
<1>4. reached # {} => Min(reached) \in reached /\ \A w \in reached : Min(reached) <= w
  <2>1. reached \in SUBSET Nat
    BY <1>1
  <2> HIDE DEF reached
  <2> HAVE reached # {}
  <2>2. \E k \in reached : \A j \in reached : k <= j
    BY <2>1, LeastOf
  <2> QED
    BY <2>2 DEF Min
<1>5. ASSUME Assigned(bucket) = v
      PROVE  Cumulative(v - 1) <= bucket /\ (v # n => bucket < Cumulative(v))
  <2>1. v - 1 \notin reached
    <3>1. CASE reached = {}
      BY <3>1
    <3>2. CASE reached # {}
      <4>1. ~(v <= v - 1)
        BY <1>1
      <4> HIDE DEF reached
      <4> QED
        BY <1>2, <1>4, <1>5, <3>2, <4>1
    <3> QED
      BY <3>1, <3>2
  <2>2. v # n => v \in reached
    <3> HIDE DEF reached
    <3> QED
      BY <1>2, <1>4, <1>5
  <2>3. v - 1 \in 0 .. n /\ (v - 1 = 0 \/ v - 1 \in DOMAIN weights)
    BY <1>1
  <2> QED
    BY <1>1, <2>1, <2>2, <2>3
<1>6. ASSUME Cumulative(v - 1) <= bucket, v # n => bucket < Cumulative(v)
      PROVE  Assigned(bucket) = v
  <2>1. ASSUME NEW w \in reached PROVE v <= w
    <3>1. w \in 1 .. n /\ bucket < Cumulative(w)
      BY <1>1
    <3>2. v \in 1 .. n /\ v - 1 \in 0 .. n
      BY <1>1
    <3>3. ~(v <= w) => v - 1 \in w .. n
      BY <1>1, <3>1, <3>2
    <3>4. ~(v <= w) => Cumulative(w) <= Cumulative(v - 1)
      BY <1>3, <3>1, <3>3
    <3> QED
      BY <1>1, <1>6, <3>1, <3>2, <3>4
  <2>2. CASE v \in reached
    <3>1. Min(reached) \in reached /\ Min(reached) <= v /\ v <= Min(reached)
      <4> HIDE DEF reached
      <4> QED
        BY <1>4, <2>1, <2>2
    <3>2. Min(reached) \in 1 .. n
      BY <1>1, <3>1
    <3> HIDE DEF reached
    <3> QED
      BY <1>1, <1>2, <2>2, <3>1, <3>2
  <2>3. CASE v \notin reached
    <3>1. v = n
      BY <1>6, <2>3
    <3>2. reached = {}
      <4>1. ASSUME NEW w \in reached PROVE w = v
        <5>1. w \in 1 .. n /\ v <= w
          BY <1>1, <2>1
        <5> QED
          BY <1>1, <3>1, <5>1
      <4> HIDE DEF reached
      <4> QED
        BY <2>3, <4>1
    <3> QED
      BY <1>2, <3>1, <3>2
  <2> QED
    BY <2>2, <2>3
<1> QED
  BY <1>5, <1>6 DEF n

(* What lies below a hundred.                                               *)
Capped(x) == IF x > 100 THEN 100 ELSE x

LEMMA SharesCounted ==
  ASSUME AbInv, weights # <<>>, NEW v \in DOMAIN weights
  PROVE  Share(v) = (IF v = Len(weights) THEN 100 ELSE Capped(Cumulative(v)))
                      - Capped(Cumulative(v - 1))
<1> DEFINE a == Cumulative(v - 1)
           b == Cumulative(v)
           low  == Capped(a)
           high == IF v = Len(weights) THEN 100 ELSE Capped(b)
<1>1. v - 1 \in 0 .. Len(weights) /\ v \in v - 1 .. Len(weights) /\ v \in 0 .. Len(weights)
  BY WeightsAddUp
<1>2. a \in Nat /\ b \in Nat /\ a <= b
  BY <1>1, WeightsAddUp, CumulativeGrows
<1>3. ASSUME NEW bucket \in 0 .. 99
      PROVE  Assigned(bucket) = v <=> a <= bucket /\ (v # Len(weights) => bucket < b)
  BY AssignedBetween
<1> HIDE DEF a, b
<1>4. low \in Nat /\ high \in Nat /\ low <= high /\ high <= 100
  BY <1>2 DEF Capped
<1>5. ASSUME NEW bucket \in 0 .. 99
      PROVE  Assigned(bucket) = v <=> low <= bucket /\ bucket < high
  <2>1. bucket \in Nat /\ bucket < 100
    OBVIOUS
  <2>2. a <= bucket <=> low <= bucket
    BY <1>2, <2>1 DEF Capped
  <2>3. (v # Len(weights) => bucket < b) <=> bucket < high
    BY <1>2, <2>1 DEF Capped
  <2> QED
    BY <1>3, <2>2, <2>3
<1> HIDE DEF low, high
<1>6. {bucket \in 0 .. 99 : Assigned(bucket) = v} = low .. high - 1
  <2>1. \A bucket \in low .. high - 1 : bucket \in 0 .. 99 /\ low <= bucket /\ bucket < high
    BY <1>4
  <2>2. \A bucket \in 0 .. 99 :
            low <= bucket /\ bucket < high => bucket \in low .. high - 1
    BY <1>4
  <2> QED
    BY <1>5, <2>1, <2>2
<1>7. Cardinality(low .. high - 1) = high - low
  <2>1. low \in Int /\ high - 1 \in Int
    BY <1>4
  <2>2. Cardinality(low .. high - 1)
          = IF low > high - 1 THEN 0 ELSE (high - 1) - low + 1
    BY <2>1, FS_Interval
  <2> QED
    BY <1>4, <2>2
<1> QED
  BY <1>6, <1>7 DEF Share, low, high, a, b

(* Shares are off by as much as the weights are from 100.                   *)
LEMMA SharesAreWeights ==
  ASSUME AbInv
  PROVE  AssignedAsWeighted
<1> SUFFICES ASSUME weights # <<>>
             PROVE  SumFunction([v \in DOMAIN weights |->
                        IF Share(v) > weights[v] THEN Share(v) - weights[v]
                        ELSE weights[v] - Share(v)]) <= 5
  BY DEF AssignedAsWeighted
<1> DEFINE n   == Len(weights)
           T   == Cumulative(n)
           off == [v \in DOMAIN weights |->
                      IF Share(v) > weights[v] THEN Share(v) - weights[v]
                      ELSE weights[v] - Share(v)]
           total == [v \in 0 .. n |->
                      IF v < n THEN Cumulative(v) - Capped(Cumulative(v))
                      ELSE IF T >= 100 THEN T - 100 ELSE 100 - T]
<1>1. /\ n \in Nat /\ n >= 2 /\ DOMAIN weights = 1 .. n /\ Cumulative(0) = 0
      /\ T \in 95 .. 105
      /\ \A v \in 1 .. n : weights[v] \in Nat
      /\ \A v \in 0 .. n : Cumulative(v) \in Nat
      /\ \A v \in 1 .. n : Cumulative(v) = Cumulative(v - 1) + weights[v]
  BY WeightsAddUp
<1>2. \A v \in 1 .. n : Share(v) = (IF v = n THEN 100 ELSE Capped(Cumulative(v)))
                                     - Capped(Cumulative(v - 1))
  BY <1>1, SharesCounted
<1> HIDE DEF n
<1>3. ASSUME NEW v \in 1 .. n
      PROVE  off[v] \in Int /\ total[v] = total[v - 1] + off[v]
  <2>1. /\ v \in 0 .. n /\ v - 1 \in 0 .. n /\ v - 1 < n
        /\ v \in Nat /\ (v < n <=> v # n) /\ v \in DOMAIN weights
    BY <1>1
  <2>2. /\ Cumulative(v) \in Nat /\ Cumulative(v - 1) \in Nat /\ weights[v] \in Nat
        /\ Cumulative(v) = Cumulative(v - 1) + weights[v]
    BY <1>1, <2>1
  <2>3. total[v - 1] = Cumulative(v - 1) - Capped(Cumulative(v - 1))
    BY <2>1
  <2>4. total[v] = IF v # n THEN Cumulative(v) - Capped(Cumulative(v))
                   ELSE IF T >= 100 THEN T - 100 ELSE 100 - T
    BY <2>1
  <2>5. off[v] = IF Share(v) > weights[v] THEN Share(v) - weights[v]
                 ELSE weights[v] - Share(v)
    BY <2>1
  <2>6. Share(v) = (IF v = n THEN 100 ELSE Capped(Cumulative(v)))
                     - Capped(Cumulative(v - 1))
    BY <1>2
  <2>7. v = n => Cumulative(v) = T
    OBVIOUS
  <2> HIDE DEF off, total, T
  <2>8. CASE v # n
    BY <2>2, <2>3, <2>4, <2>5, <2>6, <2>8 DEF Capped
  <2>9. CASE v = n
    <3> DEFINE c == Cumulative(v - 1)
               share == Share(v)
               weight == weights[v]
    <3>1. c \in Nat /\ weight \in Nat /\ T \in Nat /\ T = c + weight
      BY <1>1, <2>2, <2>7, <2>9
    <3>2. /\ total[v - 1] = c - Capped(c)
          /\ total[v] = IF T >= 100 THEN T - 100 ELSE 100 - T
          /\ off[v] = IF share > weight THEN share - weight ELSE weight - share
          /\ share = 100 - Capped(c)
      BY <2>3, <2>4, <2>5, <2>6, <2>9
    <3> HIDE DEF c, share, weight
    <3> QED
      BY <3>1, <3>2 DEF Capped
  <2> QED
    BY <2>8, <2>9
<1>4. total[0] = 0
  BY <1>1 DEF Capped
<1>5. total[n] \in Int /\ total[n] <= 5
  <2>1. total[n] = IF T >= 100 THEN T - 100 ELSE 100 - T
    BY <1>1
  <2> HIDE DEF T, total
  <2> QED
    BY <1>1, <2>1
<1>6. SumFunction(off) = SumFunctionOnSet(off, 1 .. n)
  BY <1>1 DEF SumFunction
<1> HIDE DEF off, total, T
<1>7. SumFunctionOnSet(off, 1 .. n) = total[n]
  <2>1. (\A v \in 1 .. n : off[v] \in Int) /\ \A v \in 1 .. n : total[v] = total[v - 1] + off[v]
    BY <1>3
  <2>2. n \in Nat
    BY <1>1
  <2>3. \A v \in 0 .. n : SumFunctionOnSet(off, 1 .. v) = total[v]
    BY <1>4, <2>1, <2>2, Telescopes
  <2> QED
    BY <2>2, <2>3
<1> QED
  BY <1>5, <1>6, <1>7 DEF off

(* A test is shared out as its weights say from when it is created, for    *)
(* any number of variants, and its results never name a winner that is not *)
(* ahead.                                                                  *)
THEOREM TestsAreFair == AbSpec => FairTests
<1>1. AbInv => AssignedAsWeighted
  BY SharesAreWeights
<1>2. WinnersAreAhead' /\ AssignedAsWeighted'
        => WinnersAreAhead' /\ (weights' # weights => AssignedAsWeighted')
  OBVIOUS
<1> QED
  BY <1>1, <1>2, AbInvariant, WinnersLead, PTL DEF FairTests

-----------------------------------------------------------------------------
(* The whole: a step of it is a step of one part and none of the others.   *)

LEMMA StepsOfParts ==
  ASSUME [Next]_cpVars
  PROVE  /\ [ConsentNext]_consentVars
         /\ [UsageNext]_usageVars
         /\ [DomainsNext]_domainVars
         /\ [SegmentsNext]_segmentVars
         /\ [RmqNext]_rmqVars
         /\ [NotifyNext]_notifyVars
         /\ [AbNext]_abVars
         /\ [KeysNext]_keyVars
         /\ [CapabilitiesNext]_capVars
<1> USE DEF cpVars
<1>1. CASE ConsentStep
  BY <1>1 DEF ConsentStep
<1>2. CASE UsageStep
  BY <1>2 DEF UsageStep
<1>3. CASE DomainsStep
  BY <1>3 DEF DomainsStep
<1>4. CASE AccessStep
  BY <1>4 DEF AccessStep
<1>5. CASE BusStep
  BY <1>5 DEF BusStep
<1>6. CASE NotifyStep
  BY <1>6 DEF NotifyStep
<1>7. CASE KeysStep
  BY <1>7 DEF KeysStep
<1>8. CASE CapabilitiesStep
  BY <1>8 DEF CapabilitiesStep
<1>9. CASE AbStep
  BY <1>9 DEF AbStep
<1>10. CASE UNCHANGED cpVars
  BY <1>10
<1> QED
  BY <1>1, <1>2, <1>3, <1>4, <1>5, <1>6, <1>7, <1>8, <1>9, <1>10 DEF Next

LEMMA PartsRun ==
  Spec => /\ ConsentSpec /\ UsageSpec /\ DomainsSpec /\ SegmentsSpec
          /\ RmqSpec /\ NotifySpec /\ AbSpec /\ KeysSpec /\ CapabilitiesSpec
<1>1. Init => /\ ConsentInit /\ UsageInit /\ DomainsInit /\ SegmentsInit
              /\ RmqInit /\ NotifyInit /\ AbInit /\ KeysInit /\ CapabilitiesInit
  BY DEF Init
<1> QED
  BY <1>1, StepsOfParts, PTL
  DEF Spec, ConsentSpec, UsageSpec, DomainsSpec, SegmentsSpec, RmqSpec, NotifySpec,
      AbSpec, KeysSpec, CapabilitiesSpec

(* Every variable of every part keeps its type, whichever part runs.       *)
THEOREM TypesOfTheWhole == Spec => []TypeOK
<1>1. Spec => [](part \in Parts)
  <2>1. Init => part \in Parts
    BY DEF Init
  <2>2. [Next]_cpVars => UNCHANGED part
    BY DEF Next, cpVars, ConsentStep, UsageStep, DomainsStep, AccessStep, BusStep,
           NotifyStep, AbStep, KeysStep, CapabilitiesStep
  <2>3. part \in Parts /\ UNCHANGED part => (part \in Parts)'
    OBVIOUS
  <2> QED
    BY <2>1, <2>2, <2>3, PTL DEF Spec
<1> QED
  BY <1>1, PartsRun, ConsentTypeCorrect, UsageTypeCorrect, DomainsTypeCorrect,
     AccessTypeCorrect, RmqTypeCorrect, LossesAreOfRuns, AbTypeCorrect, KeysAreSingle,
     InvocationsMeetTheContract, PTL DEF TypeOK

(* What the parts promise by themselves they promise together.             *)
THEOREM PromisesOfTheWhole ==
  Spec => /\ [](OptOutsHeeded /\ ErasureHolds)
          /\ [](BilledTwiceOnlyAfterRestart /\ VerifiedWasPublished)
          /\ [](TouchesOnlyOwn /\ ExhaustionIsKnown)
          /\ [](OneLossPerEnd /\ OneKeyUnlessExcused /\ JudgesAsTold)
          /\ SweepAllOrNothing /\ FairTests
  BY PartsRun, OptOutsStayHeeded, ErasuresHold, OneProcessBillsOnce,
     VerificationsAreFounded, RequestsKeepToTheirOwn, ExhaustionGetsThrough,
     LossesAreOfRuns, KeysAreSingle, InvocationsMeetTheContract, TestsAreFair,
     SweepsAreAtomic, PTL
=============================================================================
