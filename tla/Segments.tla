-------------------------------- MODULE Segments --------------------------------
(***************************************************************************)
(* api/segments.py: audience segments, kept in a dictionary of the process *)
(* and so beyond row-level security: what keeps the organizations apart is *)
(* each handler's own comparison.  A segment goes by the request that made *)
(* it, which stands for its uuid.  Between two looks at the dictionary no  *)
(* handler awaits, so each is one step; of a segment's fields only its     *)
(* organization matters here.                                              *)
(***************************************************************************)
EXTENDS Access

VARIABLE segmentOf  \* _SegmentStore: organization of each segment

segmentVars == <<accessVars, segmentOf>>

SegmentsInit ==
    /\ AccessInit
    /\ segmentOf = [s \in Requests |-> Nowhere]

Finds(r, s) == segmentOf[s] # Nowhere /\ segmentOf[s] = OrganizationOf(r)

(* POST /v1/segments                                                       *)
CreateSegment(r) ==
    /\ Answer(r, {OrganizationOf(r)})
    /\ segmentOf' = [segmentOf EXCEPT ![r] = OrganizationOf(r)]
    /\ UNCHANGED tables

(* GET /v1/segments                                                        *)
ListSegments(r) ==
    /\ Answer(r, {segmentOf[s] : s \in {t \in Requests : Finds(r, t)}})
    /\ UNCHANGED <<tables, segmentOf>>

(* GET and PATCH of /v1/segments/{id}, and POST to its /estimate, whose    *)
(* size is computed from the segment alone; 404 for one they do not find.  *)
UseSegment(r, s) ==
    /\ Answer(r, IF Finds(r, s) THEN {segmentOf[s]} ELSE {})
    /\ UNCHANGED <<tables, segmentOf>>

(* DELETE /v1/segments/{id}                                                *)
DeleteSegment(r, s) ==
    /\ Answer(r, IF Finds(r, s) THEN {segmentOf[s]} ELSE {})
    /\ segmentOf' = IF Finds(r, s) THEN [segmentOf EXCEPT ![s] = Nowhere]
                    ELSE segmentOf
    /\ UNCHANGED tables

(* The process starts again, with an empty store and without the requests  *)
(* it was at.                                                              *)
AccessRestart ==
    /\ segmentOf # [s \in Requests |-> Nowhere]
    /\ segmentOf' = [s \in Requests |-> Nowhere]
    /\ place' = [r \in Requests |->
                    IF place[r] \in {"none", "answered"} THEN place[r] ELSE "refused"]
    /\ UNCHANGED <<policy, tables, credentials, touched, rights>>

SegmentsNext ==
    \/ AccessNext /\ UNCHANGED segmentOf
    \/ \E r \in Requests :
        \/ CreateSegment(r)
        \/ ListSegments(r)
        \/ \E s \in Requests : UseSegment(r, s) \/ DeleteSegment(r, s)
    \/ AccessRestart

SegmentsSpec == SegmentsInit /\ [][SegmentsNext]_segmentVars

-----------------------------------------------------------------------------
SegmentsTypeOK ==
    /\ AccessTypeOK
    /\ segmentOf \in [Requests -> Organizations \cup {Nowhere}]
=============================================================================
