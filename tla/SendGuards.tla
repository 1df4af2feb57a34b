----------------------------- MODULE SendGuards -----------------------------
(***************************************************************************)
(* messaging_cp/send_guards.py: what the handlers of POST /v1/emails,      *)
(* /v1/sms and /v1/push ask before they send, and the state behind it.     *)
(*                                                                         *)
(* A request is a record                                                   *)
(*   tenant, channel   who sends, and through which of the endpoints       *)
(*   to                the recipients, normalised as the lookups do        *)
(*   template          template_id or push_app_id                          *)
(*   content           the rest of the payload: subject, body, ...         *)
(*   header            its Idempotency-Key, or NoHeader                    *)
(***************************************************************************)
EXTENDS Integers, Sequences, FiniteSets

CONSTANTS Tenants, Channels, Addresses, Templates, Contents, Headers,
          Organisations,  \* tenants with a row in tenancy.organizations
          MonthlyQuota,   \* what each channel of such a row has at the start
          Contacts,       \* who may opt out in the model: <<tenant, address>>
          Days,           \* the dates of the run, as far as the model goes
          NoHeader, Nothing

ASSUME GuardAssumption ==
    /\ Organisations \subseteq Tenants
    /\ Contacts \subseteq Tenants \X Addresses
    /\ MonthlyQuota \in Nat
    /\ Days \subseteq Nat
    /\ NoHeader \notin Headers

VARIABLES suppressed,  \* suppression.entries in force: <<tenant, address>>
          quota,       \* monthly_quota_<channel> of each organization
          kept         \* Redis: the response kept under each key, if any

guardVars == <<suppressed, quota, kept>>

Request == [tenant : Tenants, channel : Channels, to : Seq(Addresses),
            template : Templates, content : Contents,
            header : Headers \cup {NoHeader}]

DefaultKeys == Tenants \X Channels \X Addresses \X Templates \X Days

Keys == Headers \cup DefaultKeys

(* The response a handler returns and keeps: the message it sent, and the  *)
(* shape of the response, which is that of the channel.                    *)
Response == [id : Nat \ {0}, channel : Channels]

GuardInit ==
    /\ suppressed \in SUBSET Contacts
    /\ quota = [tc \in Organisations \X Channels |-> MonthlyQuota]
    /\ kept = [k \in Keys |-> Nothing]

(* The Idempotency-Key header as it is, or default_idempotency_key.        *)
KeyOf(ask, day) ==
    IF ask.header # NoHeader THEN ask.header
    ELSE <<ask.tenant, ask.channel, ask.to[1], ask.template, day>>

(* ensure_not_suppressed, when its lookup works.                           *)
Suppressed(ask, address) == <<ask.tenant, address>> \in suppressed

(* Mutant of HasQuota: the UPDATE lost its "AND quota > 0".                *)
HasQuotaWhateverIsLeft(ask) == ask.tenant \in Organisations

(* check_and_consume_quota: the conditional UPDATE found a row, or not.    *)
HasQuota(ask) ==
    ask.tenant \in Organisations /\ quota[<<ask.tenant, ask.channel>>] > 0

(* Mutant of Consume: the session is closed before the commit.             *)
ConsumeUncommitted(ask) == UNCHANGED quota

Consume(ask) == quota' = [quota EXCEPT ![<<ask.tenant, ask.channel>>] = @ - 1]

(* Mutant of Store: without nx, a later response replaces the one kept.    *)
StoreAnyway(key, response) == kept' = [kept EXCEPT ![key] = response]

(* idempotency_store: SET ... NX.                                          *)
Store(key, response) ==
    kept' = IF kept[key] = Nothing THEN [kept EXCEPT ![key] = response] ELSE kept

(* The 24 hours of a kept response are over.                               *)
Expire ==
    /\ \E key \in Keys :
           kept[key] # Nothing /\ kept' = [kept EXCEPT ![key] = Nothing]
    /\ UNCHANGED <<suppressed, quota>>
=============================================================================
