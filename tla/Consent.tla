-------------------------------- MODULE Consent --------------------------------
(***************************************************************************)
(* Who may still be written to, and who has been forgotten: the opt-out    *)
(* requests of SuppressionList, the sweep of BadTokenCleanup, and the      *)
(* erasure of a data subject (api/internal_dsar.py), all at work on the    *)
(* same two tables.                                                        *)
(***************************************************************************)
EXTENDS BadTokenCleanup

CONSTANTS Recordings, \* the rows that are written to beacon.notifications
          Subjects,   \* identifiers whose owner may ask to be forgotten
          Redacted,   \* a recipient that has been overwritten
          Nobody

ASSUME SubjectAssumption ==
    /\ Recordings \subseteq Tenants \X Channels \X (Written \ {Redacted})
    /\ Subjects \subseteq Written
    /\ Redacted \in Written \ Subjects
    /\ Nobody \notin Tenants \X Subjects

VARIABLES subject,    \* whom the erasure under way is about; bound: one at a time
          stage,      \* which of its two transactions comes next
          noted,      \* the first of them failed, and its notes say so
          disturbed,  \* history: an entry of the subject came, or was on its
                      \* way, when the entries had been deleted
          erased      \* history: who was erased without a note, and of whom
                      \* nothing has been written since

erasure == <<subject, stage, noted, disturbed, erased>>

listVars == <<entries, pending, asked>>

rowVars == <<rows, bad, sweep>>

consentVars == <<listVars, rowVars, erasure>>

ConsentInit ==
    /\ SuppressionInit
    /\ CleanupInit
    /\ subject = Nobody
    /\ stage = "idle"
    /\ noted = FALSE
    /\ disturbed = FALSE
    /\ erased = {}

IsAbout(k, who) == k[1] = who[1] /\ k[3] = who[2]

Of(keys, who) == {k \in keys : IsAbout(k, who)}

(* The list gets a key.                                                    *)
Reappears(k) ==
    /\ erased' = erased \ {<<k[1], k[3]>>}
    /\ disturbed' = (disturbed \/ (stage = "rows" /\ IsAbout(k, subject)))
    /\ UNCHANGED <<subject, stage, noted>>

OptOut ==
    /\ \E org \in Tenants :
        \/ \E id \in Identifiers :
               \/ /\ AddEntry(org, id) \/ Unsubscribe(org, id)
                  /\ Reappears(KeyOf(<<org, id[1], id[2]>>))
               \/ /\ id[1] = "email"
                  /\ PostalInbound(org, id[2])
                  /\ Reappears(KeyOf(<<org, "email", id[2]>>))
        \/ \E v \in Phones :
               /\ ZenviaInbound(org, v)
               /\ Reappears(KeyOf(<<org, "phone_e164", Plus[v]>>))
    /\ UNCHANGED rowVars

Remember(gone) ==
    /\ dropped' = IF sweeping THEN dropped \cup gone ELSE dropped
    /\ UNCHANGED <<rows, bad, sweeping, todo, aborted, swept>>

OptIn ==
    \E org \in Orgs : \E e \in entries :
        RemoveEntry(org, e) /\ Remember({e}) /\ UNCHANGED erasure

(* An INSERT into beacon.notifications.                                    *)
Record(i, row) ==
    /\ Insert(i, row)
    /\ erased' = erased \ {<<row[1], row[3]>>}
    /\ UNCHANGED <<listVars, subject, stage, noted, disturbed>>

(* POST /v1/audit/lgpd/breach-notify: the recipient is the incident's id.  *)
BreachNotify(i, row) == row[2] = "breach_incident" /\ Record(i, row)

(* POST /v1/webpush/subscriptions: the recipient is the endpoint.          *)
CreateSubscription(i, row) == row[2] = "push_web_sub" /\ Record(i, row)

(* The pipeline that records what was sent is not in the repository.       *)
Sent(i, row) == row[2] \notin Unsent /\ Record(i, row)

Recorded ==
    \E i \in RowIds : \E row \in Recordings :
        BreachNotify(i, row) \/ CreateSubscription(i, row) \/ Sent(i, row)

RowsChange ==
    \E i \in RowIds :
        /\ TurnBad(i) \/ \E t \in Tenants : DeleteSubscription(t, i)
        /\ UNCHANGED <<listVars, erasure>>

Sweep ==
    \/ /\ SweepRead
       /\ disturbed' = (disturbed \/ (stage = "rows" /\ Of(todo', subject) # {}))
       /\ UNCHANGED <<listVars, subject, stage, noted, erased>>
    \/ /\ (\E k \in todo : SweepInsert(k)) \/ SweepCommit \/ SweepDies
       /\ UNCHANGED erasure

-----------------------------------------------------------------------------
(* DELETE of a subject, which the AUDIT service asks for.  Each of the two *)
(* statements is a transaction of its own; one that fails is rolled back   *)
(* and noted, and the other is tried all the same.                         *)
StartErasure(who) ==
    /\ stage = "idle"
    /\ stage' = "entries"
    /\ subject' = who
    /\ noted' = FALSE
    /\ disturbed' = FALSE
    /\ UNCHANGED <<listVars, rowVars, erased>>

(* Mutant of Forgets: the WHERE clause names the tenant only.              *)
ForgetsTenant(who) == {e \in entries : e[1] = who[1]}

Forgets(who) == Of(entries, who)

(* _SOFT_DELETE_SQL                                                        *)
DeleteEntries ==
    /\ stage = "entries"
    /\ Delete(Forgets(subject), {request \in asked : IsAbout(KeyOf(request), subject)})
    /\ Remember(Forgets(subject))
    /\ stage' = "rows"
    /\ disturbed' = (Of(todo \cup pending, subject) # {})
    /\ UNCHANGED <<subject, noted, erased>>

DeleteFails ==
    /\ stage = "entries"
    /\ stage' = "rows"
    /\ noted' = TRUE
    /\ UNCHANGED <<listVars, rowVars, subject, disturbed, erased>>

Overwrite(row) ==
    IF row # NoRow /\ row[1] = subject[1] /\ row[3] = subject[2]
    THEN <<row[1], row[2], Redacted>> ELSE row

(* Mutant of Outcome: a note of the first statement is lost.                *)
OutcomeOfTheLast == erased \cup {subject}

(* The AUDIT service takes an outcome without notes for an erasure.        *)
Outcome == IF noted \/ disturbed THEN erased ELSE erased \cup {subject}

EndErasure ==
    /\ stage = "rows"
    /\ stage' = "idle"
    /\ subject' = Nobody
    /\ noted' = FALSE
    /\ disturbed' = FALSE

(* _RETAINED_SQL                                                           *)
Redact ==
    /\ EndErasure
    /\ rows' = [i \in RowIds |-> Overwrite(rows[i])]
    /\ erased' = Outcome
    /\ UNCHANGED <<listVars, bad, sweep>>

(* The second statement fails, or the server dies before or after it.      *)
NotRedacted == EndErasure /\ UNCHANGED <<listVars, rowVars, erased>>

Erasure ==
    \/ \E t \in Tenants : \E v \in Subjects : StartErasure(<<t, v>>)
    \/ DeleteEntries
    \/ DeleteFails
    \/ Redact
    \/ NotRedacted

ConsentNext ==
    \/ OptOut
    \/ OptIn
    \/ Recorded
    \/ RowsChange
    \/ Sweep
    \/ Erasure

ConsentSpec == ConsentInit /\ [][ConsentNext]_consentVars

-----------------------------------------------------------------------------
ConsentTypeOK ==
    /\ entries \subseteq Entry
    /\ pending \subseteq Entry
    /\ asked \subseteq Entry
    /\ rows \in [RowIds -> Row \cup {NoRow}]
    /\ bad \subseteq {i \in RowIds : rows[i] # NoRow}
    /\ {sweeping, aborted, noted, disturbed} \subseteq BOOLEAN
    /\ todo \cup swept \subseteq Tenants \X IdentifierTypes \X Written
    /\ dropped \subseteq Entry
    /\ stage \in {"idle", "entries", "rows"}
    /\ subject \in (Tenants \X Subjects) \cup {Nobody}
    /\ erased \subseteq Tenants \X Subjects

(* Whoever opted out by any of the doors is found by the lookup of every   *)
(* later send, however the address is written there, whatever the sweep    *)
(* and erasures of others do, and although the second of two requests is   *)
(* answered with an error.                                                 *)
OptOutsHeeded == \A request \in asked : GuardFinds(request[1], request[3])

(* When an erasure was reported without a note, neither table names the    *)
(* subject again until somebody writes it anew.  An entry that the sweep   *)
(* had read before the rows were redacted is the exception: `disturbed`.   *)
ErasureHolds ==
    \A who \in erased :
        /\ Of(entries, who) = {}
        /\ \A i \in RowIds : rows[i] # NoRow => ~IsAbout(rows[i], who)

(* A run of the sweep stores every key it read or none: what is missing    *)
(* from the list when it has stored something was taken off meanwhile.     *)
SweepAllOrNothing ==
    [][sweeping /\ ~sweeping' =>
           entries' = entries \/ swept \subseteq entries' \cup dropped]_consentVars
=============================================================================
