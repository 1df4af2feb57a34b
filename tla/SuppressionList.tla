---------------------------- MODULE SuppressionList ----------------------------
(***************************************************************************)
(* suppression.entries and the requests that write it: services/           *)
(* suppression.py behind api/suppression.py, api/unsubscribe.py and        *)
(* api/webhooks_inbound.py.  Each request is one transaction on one row,   *)
(* and so one step.  add() is a plain INSERT: for an identifier that is    *)
(* there already, or a tenant without an organization, the caller gets an  *)
(* error and the table stays as it is.                                     *)
(*                                                                         *)
(* How an identifier is written is a value of Written; what strip(),       *)
(* lower() and the leading "+" do to it are functions on them.             *)
(***************************************************************************)
EXTENDS Tenancy

CONSTANTS IdentifierTypes,
          Written,        \* the ways identifiers are written
          Strip, Lower, Plus,
          Identifiers,    \* the <<type, written>> that requests name
          Phones          \* the numbers as Zenvia writes them

ASSUME WritingAssumption ==
    /\ {Strip, Lower, Plus} \subseteq [Written -> Written]
    /\ \A v \in Written : Lower[Lower[v]] = Lower[v]
    /\ Identifiers \subseteq IdentifierTypes \X Written
    /\ Phones \subseteq Written
    /\ {"email", "phone_e164", "push_token"} \subseteq IdentifierTypes

VARIABLES entries,   \* suppression.entries, each as its unique key
          pending,   \* keys inserted by a transaction that is still open
          asked      \* history: the opt-outs that reached add(), as written,
                     \* and neither removed nor erased since

Entry == Orgs \X IdentifierTypes \X Written

Normalize(type, v) == IF type = "email" THEN Lower[Strip[v]] ELSE Strip[v]

KeyOf(request) == <<request[1], request[2], Normalize(request[2], request[3])>>

SuppressionInit ==
    /\ entries = {}
    /\ pending = {}
    /\ asked = {}

(* Mutant of Add: nothing refers to tenancy.organizations.                 *)
AddUnchecked(org, type, v) ==
    /\ KeyOf(<<org, type, v>>) \notin pending
    /\ entries' = entries \cup {KeyOf(<<org, type, v>>)}
    /\ asked' = asked \cup {<<org, type, v>>}
    /\ UNCHANGED pending

(* The unique index makes an INSERT wait for the transaction that has      *)
(* inserted the same key.                                                  *)
Add(org, type, v) ==
    /\ KeyOf(<<org, type, v>>) \notin pending
    /\ entries' = IF org \in Orgs THEN entries \cup {KeyOf(<<org, type, v>>)}
                  ELSE entries
    /\ asked' = IF org \in Orgs THEN asked \cup {<<org, type, v>>} ELSE asked
    /\ UNCHANGED pending

(* POST /v1/suppression, for the organization of the caller.               *)
AddEntry(org, id) == org \in Orgs /\ Add(org, id[1], id[2])

(* POST /v1/u/{token}/all and /one: the token carries the three values,    *)
(* and both routes do the same to the list.                                *)
Unsubscribe(org, id) == Add(org, id[1], id[2])

(* POST /v1/webhooks/inbound/postal: a hard bounce or a complaint.  Other  *)
(* events, and events that name no organization, change nothing.           *)
PostalInbound(org, v) == Add(org, "email", v)

(* POST /v1/webhooks/inbound/zenvia: a reply with an opt-out keyword, on a *)
(* URL that names the organization.                                        *)
ZenviaInbound(org, v) == Add(org, "phone_e164", Plus[v])

Delete(gone, withdrawn) ==
    /\ entries' = entries \ gone
    /\ asked' = asked \ withdrawn
    /\ UNCHANGED pending

(* DELETE /v1/suppression/{id}, by the organization that owns the entry.   *)
RemoveEntry(org, e) ==
    /\ e \in entries
    /\ e[1] = org
    /\ Delete({e}, {request \in asked : KeyOf(request) = e})

(* What a send to v looks up: an entry of any type, in lower case.         *)
GuardFinds(org, v) ==
    \E e \in entries : e[1] = org /\ Lower[e[3]] = Lower[Strip[v]]
=============================================================================
