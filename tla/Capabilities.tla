------------------------------ MODULE Capabilities ------------------------------
(***************************************************************************)
(* The capability registry: agents/capability_loader.py reads it from a    *)
(* file once in a process's life, main.py at the start, and whoever asks   *)
(* first if that failed; agents/capabilities_router.py shows it to the     *)
(* aggregator, which keeps its copy by ETag, and agent_invoke_router.py    *)
(* judges invocations by it.  The aggregator asks any host that serves:    *)
(* when main.py tells it to, that is before the host itself does.          *)
(***************************************************************************)
CONSTANTS Hosts,     \* replicas of the control plane
          Editions,  \* well-formed contents of capabilities.yaml
          Malformed, \* a file that is missing or that _validate rejects
          Unread     \* no edition

ASSUME CapabilitiesAssumption == Malformed \notin Editions /\ Unread \notin Editions

VARIABLES file,      \* capabilities.yaml of each host
          registry,  \* what get_registry has cached there
          hostStage,     \* where the host is in its life
          copy,      \* edition the aggregator has
          summoned,     \* the aggregator is to ask again
          told,      \* history: its copy after each host's last answer,
          judged     \* and edition of the host's last invocation, both
                     \* since the host started

capVars == <<file, registry, hostStage, copy, summoned, told, judged>>

(* CapabilityRegistry                                                      *)
Registries == Editions \cup {Unread}

CapabilitiesInit ==
    /\ file \in [Hosts -> Editions \cup {Malformed}]
    /\ registry = [h \in Hosts |-> Unread]
    /\ hostStage = [h \in Hosts |-> "down"]
    /\ copy = Unread
    /\ summoned = FALSE
    /\ told = [h \in Hosts |-> Unread]
    /\ judged = [h \in Hosts |-> Unread]

(* load_capability_registry: a frozen snapshot of a file, or an exception. *)
Snapshot(content) == IF content = Malformed THEN Unread ELSE content

(* get_registry: lru_cache keeps a snapshot, and nothing of an exception.  *)
Loaded(h) == IF registry[h] # Unread THEN registry[h] ELSE Snapshot(file[h])

LoadsAt(h) == registry' = [registry EXCEPT ![h] = Loaded(h)]

(* lifespan(), as far as the load, whose failure is logged.                *)
BootHost(h) ==
    /\ hostStage[h] = "down"
    /\ LoadsAt(h)
    /\ hostStage' = [hostStage EXCEPT ![h] = "invalidating"]
    /\ UNCHANGED <<file, copy, summoned, told, judged>>

(* The rest of lifespan(): _aggregator_invalidate gets through or not, and *)
(* then the host serves.                                                   *)
Invalidate(h) ==
    /\ hostStage[h] = "invalidating"
    /\ summoned' \in {summoned, TRUE}
    /\ hostStage' = [hostStage EXCEPT ![h] = "serving"]
    /\ UNCHANGED <<file, registry, copy, told, judged>>

(* Mutant of Etag: the hash is of the service and its version, which an    *)
(* edited schema leaves as they are.                                       *)
EtagOfVersion(edition) == "version"

(* sha256 of the canonical JSON of the whole file.                         *)
Etag(edition) == edition

NotModified(h) == copy # Unread /\ Etag(copy) = Etag(Loaded(h))

(* GET /api/v1/capabilities by the aggregator, told to ask or on its own:  *)
(* 304 if the copy's ETag matches, else the body.                          *)
GetCapabilities(h) ==
    /\ hostStage[h] = "serving"
    /\ Loaded(h) # Unread
    /\ LoadsAt(h)
    /\ copy' = IF NotModified(h) THEN copy ELSE Loaded(h)
    /\ told' = [told EXCEPT ![h] = copy']
    /\ summoned' = FALSE
    /\ UNCHANGED <<file, hostStage, judged>>

(* The same, answered 500 for want of a registry, or of a host that serves. *)
GetFails ==
    /\ summoned
    /\ \/ \A h \in Hosts : hostStage[h] # "serving"
       \/ \E h \in Hosts : hostStage[h] = "serving" /\ Loaded(h) = Unread
    /\ summoned' = FALSE
    /\ UNCHANGED <<file, registry, hostStage, copy, told, judged>>

(* agent_invoke: the capability, its schema and its budget are looked up.  *)
(* Without a registry the answer is 500.                                   *)
Judge(h) ==
    /\ hostStage[h] = "serving"
    /\ Loaded(h) # Unread
    /\ LoadsAt(h)
    /\ judged' = [judged EXCEPT ![h] = Loaded(h)]
    /\ UNCHANGED <<file, hostStage, copy, summoned, told>>

(* A deployment, or a repair, replaces the file, under a running process   *)
(* or not.                                                                 *)
ReplaceFile(h, content) ==
    /\ file[h] # content
    /\ file' = [file EXCEPT ![h] = content]
    /\ UNCHANGED <<registry, hostStage, copy, summoned, told, judged>>

Stop(h) ==
    /\ hostStage[h] # "down"
    /\ hostStage' = [hostStage EXCEPT ![h] = "down"]
    /\ registry' = [registry EXCEPT ![h] = Unread]
    /\ told' = [told EXCEPT ![h] = Unread]
    /\ judged' = [judged EXCEPT ![h] = Unread]
    /\ UNCHANGED <<file, copy, summoned>>

CapabilitiesNext ==
    \/ \E h \in Hosts :
        \/ BootHost(h) \/ Invalidate(h) \/ GetCapabilities(h) \/ Judge(h) \/ Stop(h)
        \/ \E content \in Editions \cup {Malformed} : ReplaceFile(h, content)
    \/ GetFails

CapabilitiesSpec == CapabilitiesInit /\ [][CapabilitiesNext]_capVars

-----------------------------------------------------------------------------
CapabilitiesTypeOK ==
    /\ file \in [Hosts -> Editions \cup {Malformed}]
    /\ {registry, told, judged} \subseteq [Hosts -> Registries]
    /\ hostStage \in [Hosts -> {"down", "invalidating", "serving"}]
    /\ copy \in Registries
    /\ summoned \in BOOLEAN

(* A host judges invocations by the contract the aggregator had when the   *)
(* host last answered it, body or 304, as long as it runs, whatever        *)
(* becomes of the file and whichever hosts the copy came from before.      *)
JudgesAsTold ==
    \A h \in Hosts : told[h] # Unread /\ judged[h] # Unread => told[h] = judged[h]
=============================================================================
