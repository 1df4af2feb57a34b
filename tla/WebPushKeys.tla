------------------------------ MODULE WebPushKeys ------------------------------
(***************************************************************************)
(* The VAPID keys of one organization: api/webpush_subs.py makes a keypair *)
(* for whoever first asks for the public key, in a row of                  *)
(* senders.push_apps that api/push_apps.py also creates and deletes.  The  *)
(* private key is dropped; of a public key it matters only where it comes  *)
(* from.                                                                   *)
(***************************************************************************)
CONSTANTS Apps,     \* rows of senders.push_apps
          KeyCalls  \* calls of GET /v1/webpush/vapid-public-key

VARIABLES appKind,   \* what each row is, if it is there
          keyCall,   \* where each call is
          keyExcuse  \* history: why there may be several keys

keyVars == <<appKind, keyCall, keyExcuse>>

(* generate_vapid_keypair: a new key every time.                           *)
Keypair == "generated"

Keyed == {"given", Keypair}

AppKinds == {"mobile", "keyless"} \cup Keyed

KeysInit ==
    /\ appKind = [a \in Apps |-> "absent"]
    /\ keyCall = [c \in KeyCalls |-> "idle"]
    /\ keyExcuse = {}

(* Mutant of WebApps: the query forgets the platform.                      *)
AnyApps == {a \in Apps : appKind[a] # "absent"}

WebApps == {a \in Apps : appKind[a] \in {"keyless"} \cup Keyed}

(* The first row of a query without ORDER BY is any row.  The session that *)
(* reads it is closed before a key is generated.                           *)
VapidPublicKey(c) ==
    /\ keyCall[c] = "idle"
    /\ \/ /\ \E a \in WebApps : appKind[a] \in Keyed
          /\ keyCall' = [keyCall EXCEPT ![c] = "over"]
          /\ UNCHANGED keyExcuse
       \/ /\ WebApps = {} \/ \E a \in WebApps : appKind[a] \notin Keyed
          /\ keyCall' = [keyCall EXCEPT ![c] = "generating"]
          /\ keyExcuse' = keyExcuse \cup
                 {e \in {"overlap"} : \E d \in KeyCalls : keyCall[d] = "generating"}
    /\ UNCHANGED appKind

(* The second session inserts the generated key, whatever is there by now. *)
InsertKey(c) ==
    /\ keyCall[c] = "generating"
    /\ \E a \in Apps :
           /\ appKind[a] = "absent"
           /\ appKind' = [appKind EXCEPT ![a] = Keypair]
    /\ keyCall' = [keyCall EXCEPT ![c] = "over"]
    /\ UNCHANGED keyExcuse

(* The insert fails, or the process dies before it.                        *)
KeyCallDies(c) ==
    /\ keyCall[c] = "generating"
    /\ keyCall' = [keyCall EXCEPT ![c] = "over"]
    /\ UNCHANGED <<appKind, keyExcuse>>

(* POST /v1/push-apps, for a web application with its key or without one.  *)
CreatePushApp(a, kind) ==
    /\ appKind[a] = "absent"
    /\ appKind' = [appKind EXCEPT ![a] = kind]
    /\ keyExcuse' = keyExcuse \cup ({kind} \cap {"keyless"})
    /\ UNCHANGED keyCall

(* DELETE /v1/push-apps/{id}                                               *)
DeletePushApp(a) ==
    /\ appKind[a] # "absent"
    /\ appKind' = [appKind EXCEPT ![a] = "absent"]
    /\ UNCHANGED <<keyCall, keyExcuse>>

KeysNext ==
    \/ \E c \in KeyCalls : VapidPublicKey(c) \/ InsertKey(c) \/ KeyCallDies(c)
    \/ \E a \in Apps :
        \/ \E kind \in AppKinds \ {Keypair} : CreatePushApp(a, kind)
        \/ DeletePushApp(a)

KeysSpec == KeysInit /\ [][KeysNext]_keyVars

-----------------------------------------------------------------------------
KeysTypeOK ==
    /\ appKind \in [Apps -> AppKinds \cup {"absent"}]
    /\ keyCall \in [KeyCalls -> {"idle", "generating", "over"}]
    /\ keyExcuse \subseteq {"overlap", "keyless"}

(* vapid.py:3, "Each org has 1 active VAPID keypair", as far as it holds:  *)
(* an organization gets a second generated key only if two calls for its   *)
(* first one overlapped, or if it made a web application without a key,    *)
(* which every call may take for the first row.                            *)
OneKeyUnlessExcused ==
    keyExcuse = {} =>
        \A a, b \in Apps :
            appKind[a] = Keypair /\ appKind[b] = Keypair => a = b
=============================================================================
