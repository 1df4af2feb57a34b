--------------------------------- MODULE Access ---------------------------------
(***************************************************************************)
(* From a bearer token to the rows a request works on: AuthMiddleware      *)
(* resolves the caller, TenancyMiddleware the organization, and the        *)
(* handler opens a session scoped to it, under the row-level security of   *)
(* the migrations.  The handlers here are those of api/api_tokens.py, so   *)
(* the tokens they create and revoke are the ones that let requests in.    *)
(* Both middlewares look things up in a worker_session, which sets no      *)
(* organization; Settings has no DSN for it, so it runs as the same role   *)
(* as the others, and policies bind that role or do not.                   *)
(***************************************************************************)
CONSTANTS Organizations, \* ids of tenancy.organizations
          Tokens,      \* API tokens, once created,
          FirstTokens, \* those there are at the start
          Users,       \* subjects of verified JWTs
          Requests,    \* each is made once
          Nowhere      \* no organization

ASSUME AccessAssumption ==
    /\ FirstTokens \in [Tokens -> Organizations \cup {Nowhere}]
    /\ Tokens \cap Users = {}
    /\ Nowhere \notin Organizations

VARIABLES policy,     \* what row-level security asks of the role of the DSN
          owner,      \* beacon.api_tokens: organization of each token,
          revoked,    \* revoked_at is set
          expired,    \* expires_at has passed
          members,    \* tenancy.memberships: <<user, organization>>
          caller,     \* the credential of each request,
          claim,      \* organization in its JWT,
          header,     \* and in X-Organization-Id
          place,      \* where it is
          touched,    \* history: organizations whose tokens it read or wrote,
          rights      \* and those its credential stood for at some time
                      \* since it arrived

tables == <<owner, revoked, expired, members>>

credentials == <<caller, claim, header>>

accessVars == <<policy, tables, credentials, place, touched, rights>>

Places == {"none", "authentication", "tenancy", "handler", "answered", "refused"}

(* Migration 0003 forces a policy upon every table of an organization,     *)
(* which lets sessions without one see all rows, and 0006 closes that.     *)
Policies == {"none", "permissive", "strict"}

(* There is none yet, or the role is that of migration 0004.               *)
Unbound == policy = "none"

AccessInit ==
    /\ policy \in Policies
    /\ owner = FirstTokens
    /\ revoked = {}
    /\ expired = {}
    /\ members = {}
    /\ caller = [r \in Requests |-> Nowhere]
    /\ claim = [r \in Requests |-> Nowhere]
    /\ header = [r \in Requests |-> Nowhere]
    /\ place = [r \in Requests |-> "none"]
    /\ touched = [r \in Requests |-> {}]
    /\ rights = [r \in Requests |-> {}]

Live(t) == owner[t] # Nowhere /\ t \notin revoked \cup expired

(* The organizations that a credential stands for.                         *)
RightsOf(who) ==
    IF who \in Tokens THEN {o \in Organizations : Live(who) /\ o = owner[who]}
    ELSE {o \in Organizations : <<who, o>> \in members}

(* Strings that are no token of ours, and JWTs that do not verify, are     *)
(* answered 401 and left out.                                              *)
Arrive(r, who, c, h) ==
    /\ place[r] = "none"
    /\ who \in Tokens => owner[who] # Nowhere /\ c = Nowhere
    /\ caller' = [caller EXCEPT ![r] = who]
    /\ claim' = [claim EXCEPT ![r] = c]
    /\ header' = [header EXCEPT ![r] = h]
    /\ place' = [place EXCEPT ![r] = "authentication"]
    /\ rights' = [rights EXCEPT ![r] = RightsOf(who)]
    /\ UNCHANGED <<policy, tables, touched>>

(* org_isolation: the organization of a row is that of the session.        *)
Visible(scope, o) ==
    \/ Unbound
    \/ policy = "permissive" /\ scope = Nowhere
    \/ scope = o

Moves(r, passes, next) ==
    /\ place' = [place EXCEPT ![r] = IF passes THEN next ELSE "refused"]
    /\ UNCHANGED <<policy, tables, credentials, touched, rights>>

(* worker_session(): it sets no organization, and its engine has the DSN   *)
(* of the others, so it finds what their role may see.                     *)
WorkerFinds(o) == Visible(Nowhere, o)

(* AuthMiddleware: a token is looked up, a JWT is verified.                *)
Authenticate(r) ==
    /\ place[r] = "authentication"
    /\ Moves(r, caller[r] \in Tokens =>
                    Live(caller[r]) /\ WorkerFinds(owner[caller[r]]),
             "tenancy")

(* Mutant of OrganizationOf: the header comes first.                       *)
HeaderOr(r) ==
    IF header[r] # Nowhere THEN header[r]
    ELSE IF caller[r] \in Tokens THEN owner[caller[r]] ELSE claim[r]

(* A token's own organization, or a JWT's claim; the header if there is    *)
(* none.                                                                   *)
OrganizationOf(r) ==
    IF caller[r] \in Tokens THEN owner[caller[r]]
    ELSE IF claim[r] # Nowhere THEN claim[r] ELSE header[r]

(* TenancyMiddleware: only a JWT's membership is verified.                 *)
CheckOrganization(r) ==
    /\ place[r] = "tenancy"
    /\ Moves(r, /\ OrganizationOf(r) # Nowhere
                /\ caller[r] \in Users =>
                       /\ <<caller[r], OrganizationOf(r)>> \in members
                       /\ WorkerFinds(OrganizationOf(r)),
             "handler")

Answer(r, orgs) ==
    /\ place[r] = "handler"
    /\ place' = [place EXCEPT ![r] = "answered"]
    /\ touched' = [touched EXCEPT ![r] = orgs]
    /\ UNCHANGED <<policy, credentials, rights>>

(* tenant_scoped_session(o)                                                *)
ScopedTo(o) == {t \in Tokens : Visible(o, owner[t])}

(* What a query by organization finds there.                               *)
TokensOf(o) == {t \in ScopedTo(o) : owner[t] = o}

(* create_api_token(): the INSERT.                                         *)
NewToken(t, o) == [owner EXCEPT ![t] = o]

(* POST /v1/api-tokens.  For a JWT the row names its subject as the user   *)
(* who created it; that is not an id of tenancy.users, so the INSERT fails. *)
CreateToken(r, t) ==
    /\ Answer(r, {OrganizationOf(r)})
    /\ owner[t] = Nowhere
    /\ owner' = IF caller[r] \in Tokens THEN NewToken(t, OrganizationOf(r)) ELSE owner
    /\ UNCHANGED <<revoked, expired, members>>

(* GET /v1/api-tokens                                                      *)
ListTokens(r) ==
    /\ Answer(r, {owner[t] : t \in TokensOf(OrganizationOf(r))})
    /\ UNCHANGED tables

(* DELETE /v1/api-tokens/{id}; for a token it does not find, 404.          *)
RevokeToken(r, t) ==
    /\ Answer(r, {owner[u] : u \in TokensOf(OrganizationOf(r)) \cap {t}})
    /\ revoked' = revoked \cup (TokensOf(OrganizationOf(r)) \cap {t})
    /\ UNCHANGED <<owner, expired, members>>

(* A token's time runs out.                                                *)
Expire(t) ==
    /\ Live(t)
    /\ expired' = expired \cup {t}
    /\ UNCHANGED <<policy, owner, revoked, members, credentials, place, touched, rights>>

(* Memberships are managed outside the repository.                         *)
MembershipChanges(u, o) ==
    /\ members' = IF <<u, o>> \in members THEN members \ {<<u, o>>}
                  ELSE members \cup {<<u, o>>}
    /\ rights' = [r \in Requests |->
                     rights[r] \cup {p \in {o} : caller[r] = u /\ <<u, p>> \in members'}]
    /\ UNCHANGED <<policy, owner, revoked, expired, credentials, place, touched>>

AccessNext ==
    \/ \E r \in Requests :
        \/ \E who \in Tokens \cup Users : \E c, h \in Organizations \cup {Nowhere} :
               Arrive(r, who, c, h)
        \/ Authenticate(r)
        \/ CheckOrganization(r)
        \/ ListTokens(r)
        \/ \E t \in Tokens : CreateToken(r, t) \/ RevokeToken(r, t)
    \/ \E t \in Tokens : Expire(t)
    \/ \E u \in Users : \E o \in Organizations : MembershipChanges(u, o)

AccessSpec == AccessInit /\ [][AccessNext]_accessVars

-----------------------------------------------------------------------------
AccessTypeOK ==
    /\ policy \in Policies
    /\ owner \in [Tokens -> Organizations \cup {Nowhere}]
    /\ revoked \cup expired \subseteq {t \in Tokens : owner[t] # Nowhere}
    /\ members \subseteq Users \X Organizations
    /\ caller \in [Requests -> Tokens \cup Users \cup {Nowhere}]
    /\ {claim, header} \subseteq [Requests -> Organizations \cup {Nowhere}]
    /\ place \in [Requests -> Places]
    /\ {touched, rights} \subseteq [Requests -> SUBSET Organizations]

(* A request works on the rows of no organization but one its credential   *)
(* stood for while it was under way: a token that was revoked or expired   *)
(* before gets it nowhere, nor does a header or a claim of an organization *)
(* the caller is no member of.                                             *)
TouchesOnlyOwn == \A r \in Requests : touched[r] \subseteq rights[r]

(* The reverse of the medal: where the strict policy of migration 0006     *)
(* binds the role of the DSN, the lookups of the middlewares find nothing, *)
(* and no request gets to a handler.                                       *)
UnscopedFindsNothing ==
    policy = "strict" => \A r \in Requests : place[r] \notin {"handler", "answered"}
=============================================================================
