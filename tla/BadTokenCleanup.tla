---------------------------- MODULE BadTokenCleanup ----------------------------
(***************************************************************************)
(* workers/bad_token_cleanup.py and the rows it reads: beacon.              *)
(* notifications, each with whether one of its deliveries ended in          *)
(* bad_token within the last hour.  One run is one transaction: it reads    *)
(* the rows, inserts one key after another and commits; a failing insert is *)
(* caught, but in Postgres it has aborted the transaction.                  *)
(***************************************************************************)
EXTENDS SuppressionList, FiniteSets

CONSTANTS RowIds,     \* bound: the notifications there may be at a time
          Channels,   \* values of channel_kind
          TypeOf,     \* the identifier type the sweep gives to a channel
          NoRow

ASSUME RowAssumption ==
    /\ IsFiniteSet(RowIds)
    /\ TypeOf \in [Channels -> IdentifierTypes]
    /\ NoRow \notin Tenants \X Channels \X Written

VARIABLES rows,      \* beacon.notifications: <<tenant, channel, recipient>>
          bad,       \* the rows with a recent bad_token delivery
          sweeping,  \* a run of the sweep is between its SELECT and its end
          todo,      \* the keys it has still to insert
          aborted,   \* its transaction has failed
          swept,     \* history: the keys that this run has read,
          dropped    \* and those deleted from the list since it did

sweep == <<sweeping, todo, aborted, swept, dropped>>

(* Written by the API and not by the pipeline that sends.                  *)
Unsent == {"breach_incident", "push_web_sub"}

Row == Tenants \X Channels \X Written

CleanupInit ==
    /\ rows = [i \in RowIds |-> NoRow]
    /\ bad = {}
    /\ sweeping = FALSE
    /\ todo = {}
    /\ aborted = FALSE
    /\ swept = {}
    /\ dropped = {}

Insert(i, row) ==
    /\ rows[i] = NoRow
    /\ rows' = [rows EXCEPT ![i] = row]
    /\ UNCHANGED <<bad, sweep>>

(* The channel decides the type, and the recipient is taken as it is.      *)
SweepKey(row) == <<row[1], TypeOf[row[2]], row[3]>>

(* A delivery ends in bad_token, or was last attempted an hour ago.  What  *)
(* is recorded and not sent has no deliveries.                             *)
TurnBad(i) ==
    /\ rows[i] # NoRow
    /\ rows[i][2] \notin Unsent
    /\ bad' = IF i \in bad THEN bad \ {i} ELSE bad \cup {i}
    /\ UNCHANGED <<rows, sweep>>

(* DELETE /v1/webpush/subscriptions/{id}                                   *)
DeleteSubscription(org, i) ==
    /\ rows[i] # NoRow
    /\ rows[i][1] = org
    /\ rows[i][2] = "push_web_sub"
    /\ rows' = [rows EXCEPT ![i] = NoRow]
    /\ bad' = bad \ {i}
    /\ UNCHANGED sweep

SweepRead ==
    /\ ~sweeping
    /\ bad # {}
    /\ sweeping' = TRUE
    /\ todo' = {SweepKey(rows[i]) : i \in bad}
    /\ swept' = todo'
    /\ UNCHANGED <<rows, bad, aborted, dropped>>

(* The insert of one key.  ON CONFLICT DO NOTHING covers a duplicate, not  *)
(* the foreign key: a tenant without an organization aborts it all.        *)
SweepInsert(k) ==
    /\ k \in todo
    /\ todo' = todo \ {k}
    /\ aborted' = (aborted \/ k[1] \notin Orgs)
    /\ pending' = IF aborted \/ k[1] \notin Orgs \/ k \in entries THEN pending
                  ELSE pending \cup {k}
    /\ UNCHANGED <<rows, bad, sweeping, swept, dropped, entries, asked>>

SweepEnds ==
    /\ pending' = {}
    /\ sweeping' = FALSE
    /\ aborted' = FALSE
    /\ todo' = {}
    /\ swept' = {}
    /\ dropped' = {}
    /\ UNCHANGED <<rows, bad, asked>>

(* Mutant of SweepCommit: a failing insert loses its own key only.         *)
SweepCommitsAnyway ==
    /\ sweeping
    /\ todo = {}
    /\ entries' = entries \cup pending
    /\ SweepEnds

(* The COMMIT of an aborted transaction rolls it back, without an error.   *)
SweepCommit ==
    /\ sweeping
    /\ todo = {}
    /\ entries' = IF aborted THEN entries ELSE entries \cup pending
    /\ SweepEnds

SweepDies ==
    /\ sweeping
    /\ UNCHANGED entries
    /\ SweepEnds
=============================================================================
