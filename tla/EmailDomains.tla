------------------------------ MODULE EmailDomains ------------------------------
(***************************************************************************)
(* services/domains.py behind api/domains.py: a domain of an organization  *)
(* is created with statuses "pending", and verified by looking up three    *)
(* records one after the other while DNS, which is not ours, changes.  A   *)
(* verification loads the row first and writes it last, and SQLAlchemy     *)
(* writes only the columns whose value differs from the one it loaded.     *)
(* What create_domain asks of Postal is best effort and read by nobody.    *)
(***************************************************************************)
EXTENDS Tenancy, Integers

CONSTANTS Names,       \* domain names
          Verifiers,   \* the requests to verify, once each
          ForceVerify, \* BEACON_FORCE_VERIFY, in the dev environment
          NoDomain

ASSUME DomainsAssumption ==
    /\ ForceVerify \in BOOLEAN
    /\ NoDomain \notin Orgs \X Names

VARIABLES zone,        \* DNS: the <<name, record>> there are
          inserting,   \* domains inserted by a request that has not committed
          domains,     \* senders.email_domains, each as its unique key,
          verified,    \* those with verified set,
          status,      \* spf_status and dmarc_status
          target,      \* the domain of each verification,
          loaded,      \* the statuses it has loaded,
          lookup,      \* the record it looks up next,
          found,       \* and those it has found
          shown        \* history: what DNS had at some time since it loaded

verifications == <<target, loaded, lookup, found, shown>>

domainVars == <<zone, inserting, domains, verified, status, verifications>>

Domain == Orgs \X Names

Checked == {"spf", "dmarc"}

Records == Checked \cup {"dkim"}

After == [dkim |-> "spf", spf |-> "dmarc", dmarc |-> "write"]

DomainsInit ==
    /\ zone = {}
    /\ inserting = {}
    /\ domains = {}
    /\ verified = {}
    /\ status = [d \in Domain |-> [c \in Checked |-> "pending"]]
    /\ target = [v \in Verifiers |-> NoDomain]
    /\ loaded = [v \in Verifiers |-> [c \in Checked |-> "pending"]]
    /\ lookup = [v \in Verifiers |-> "load"]
    /\ found = [v \in Verifiers |-> {}]
    /\ shown = [v \in Verifiers |-> {}]

(* POST /v1/domains up to the flush, which waits while another request has *)
(* inserted the same domain, and fails when it is there.                   *)
CreateDomain(d) ==
    /\ d \notin domains \cup inserting
    /\ inserting' = inserting \cup {d}
    /\ UNCHANGED <<zone, domains, verified, status, verifications>>

(* The commit, once Postal has answered or failed.                         *)
CommitDomain(d) ==
    /\ d \in inserting
    /\ inserting' = inserting \ {d}
    /\ domains' = domains \cup {d}
    /\ UNCHANGED <<zone, verified, status, verifications>>

CreationDies(d) ==
    /\ d \in inserting
    /\ inserting' = inserting \ {d}
    /\ UNCHANGED <<zone, domains, verified, status, verifications>>

Running(v) == lookup[v] \notin {"load", "done"}

DnsChanges(n, r) ==
    /\ zone' = IF <<n, r>> \in zone THEN zone \ {<<n, r>>}
                    ELSE zone \cup {<<n, r>>}
    /\ shown' = [v \in Verifiers |->
                    IF Running(v) /\ target[v][2] = n /\ <<n, r>> \in zone'
                    THEN shown[v] \cup {r} ELSE shown[v]]
    /\ UNCHANGED <<inserting, domains, verified, status, target, loaded, lookup, found>>

(* POST /v1/domains/{id}/verify, for a domain of the caller; others get 404. *)
Load(v, d) ==
    /\ lookup[v] = "load"
    /\ d \in domains
    /\ target' = [target EXCEPT ![v] = d]
    /\ loaded' = [loaded EXCEPT ![v] = status[d]]
    /\ lookup' = [lookup EXCEPT ![v] = "dkim"]
    /\ shown' = [shown EXCEPT ![v] = {r \in Records : <<d[2], r>> \in zone}]
    /\ UNCHANGED <<zone, inserting, domains, verified, status, found>>

(* The lookup of one record: what is there may also be missed, when the    *)
(* resolver raises.  _check_dkim compares the first 40 characters of the   *)
(* key, which all 2048-bit RSA keys share, so any such key will do.        *)
LookUp(v) ==
    /\ lookup[v] \in Records
    /\ \/ /\ <<target[v][2], lookup[v]>> \in zone
          /\ found' = [found EXCEPT ![v] = @ \cup {lookup[v]}]
       \/ UNCHANGED found
    /\ lookup' = [lookup EXCEPT ![v] = After[@]]
    /\ UNCHANGED <<zone, inserting, domains, verified, status, target, loaded, shown>>

Verdict(v, c) == IF c \in found[v] THEN "pass" ELSE "fail"

(* Mutant of Passes: a status of an earlier verification counts.           *)
PassesByStatus(v) ==
    "dkim" \in found[v] /\ \A c \in Checked : "pass" \in {Verdict(v, c), loaded[v][c]}

Passes(v) == found[v] = Records

(* The UPDATE: a column is written only when it is not as it was loaded.   *)
Write(v) ==
    /\ lookup[v] = "write"
    /\ status' = [status EXCEPT ![target[v]] =
                     [c \in Checked |-> IF Verdict(v, c) # loaded[v][c]
                                        THEN Verdict(v, c) ELSE @[c]]]
    /\ verified' = IF Passes(v) \/ ForceVerify THEN verified \cup {target[v]} ELSE verified
    /\ lookup' = [lookup EXCEPT ![v] = "done"]
    /\ UNCHANGED <<zone, inserting, domains, target, loaded, found, shown>>

DomainsNext ==
    \/ \E d \in Domain : CreateDomain(d) \/ CommitDomain(d) \/ CreationDies(d)
    \/ \E n \in Names : \E r \in Records : DnsChanges(n, r)
    \/ \E v \in Verifiers : (\E d \in Domain : Load(v, d)) \/ LookUp(v) \/ Write(v)

DomainsSpec == DomainsInit /\ [][DomainsNext]_domainVars

-----------------------------------------------------------------------------
DomainsTypeOK ==
    /\ zone \subseteq Names \X Records
    /\ inserting \subseteq Domain
    /\ domains \subseteq Domain \ inserting
    /\ verified \subseteq domains
    /\ status \in [Domain -> [Checked -> {"pending", "pass", "fail"}]]
    /\ target \in [Verifiers -> Domain \cup {NoDomain}]
    /\ loaded \in [Verifiers -> [Checked -> {"pending", "pass", "fail"}]]
    /\ lookup \in [Verifiers -> Records \cup {"load", "write", "done"}]
    /\ found \in [Verifiers -> SUBSET Records]
    /\ shown \in [Verifiers -> SUBSET Records]

Ended(d) == {v \in Verifiers : lookup[v] = "done" /\ target[v] = d}

(* A domain is verified only if all three records were published while one *)
(* and the same verification of it ran, and a status says "pass" only if   *)
(* its record was published while some verification of it ran, however     *)
(* verifications of a domain overlap.  (Not in dev with BEACON_FORCE_      *)
(* VERIFY, which verifies any domain.)                                     *)
VerifiedWasPublished ==
    \A d \in Domain :
        /\ d \in verified /\ ~ForceVerify => \E v \in Ended(d) : shown[v] = Records
        /\ \A c \in Checked : status[d][c] = "pass" => \E v \in Ended(d) : c \in shown[v]
=============================================================================
