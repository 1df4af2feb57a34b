------------------------------ MODULE ControlPlane ------------------------------
(***************************************************************************)
(* The parts of the control plane, and the legacy notifier, that share no  *)
(* state: behaviours of each, one part at a time.  A behaviour chooses its *)
(* part at the start, so the states of the parts add up, where a product   *)
(* would multiply them and show nothing more.                              *)
(***************************************************************************)
EXTENDS Consent, UsageReporter, EmailDomains, Segments, AgentBusRmq, LegacyNotify,
        AbTests, WebPushKeys, Capabilities

VARIABLE part

cpVars == <<part, consentVars, usageVars, domainVars, segmentVars, rmqVars,
            notifyVars, abVars, keyVars, capVars>>

Parts == {"consent", "usage", "domains", "access", "bus", "notify", "ab",
          "keys", "capabilities"}

Init ==
    /\ part \in Parts
    /\ ConsentInit
    /\ UsageInit
    /\ DomainsInit
    /\ SegmentsInit
    /\ part # "access" => Unbound
    /\ RmqInit
    /\ NotifyInit
    /\ AbInit
    /\ KeysInit
    /\ CapabilitiesInit
    /\ part # "capabilities" => \A h \in Hosts : file[h] = Malformed

ConsentStep ==
    /\ part = "consent"
    /\ ConsentNext
    /\ UNCHANGED <<part, usageVars, domainVars, segmentVars, rmqVars,
                    notifyVars, abVars, keyVars, capVars>>

UsageStep ==
    /\ part = "usage"
    /\ UsageNext
    /\ UNCHANGED <<part, consentVars, domainVars, segmentVars, rmqVars,
                    notifyVars, abVars, keyVars, capVars>>

DomainsStep ==
    /\ part = "domains"
    /\ DomainsNext
    /\ UNCHANGED <<part, consentVars, usageVars, segmentVars, rmqVars,
                    notifyVars, abVars, keyVars, capVars>>

AccessStep ==
    /\ part = "access"
    /\ SegmentsNext
    /\ UNCHANGED <<part, consentVars, usageVars, domainVars, rmqVars,
                    notifyVars, abVars, keyVars, capVars>>

BusStep ==
    /\ part = "bus"
    /\ RmqNext
    /\ UNCHANGED <<part, consentVars, usageVars, domainVars, segmentVars,
                    notifyVars, abVars, keyVars, capVars>>

NotifyStep ==
    /\ part = "notify"
    /\ NotifyNext
    /\ UNCHANGED <<part, consentVars, usageVars, domainVars, segmentVars,
                    rmqVars, abVars, keyVars, capVars>>

AbStep ==
    /\ part = "ab"
    /\ AbNext
    /\ UNCHANGED <<part, consentVars, usageVars, domainVars, segmentVars,
                    rmqVars, notifyVars, keyVars, capVars>>

KeysStep ==
    /\ part = "keys"
    /\ KeysNext
    /\ UNCHANGED <<part, consentVars, usageVars, domainVars, segmentVars,
                    rmqVars, notifyVars, abVars, capVars>>

CapabilitiesStep ==
    /\ part = "capabilities"
    /\ CapabilitiesNext
    /\ UNCHANGED <<part, consentVars, usageVars, domainVars, segmentVars,
                    rmqVars, notifyVars, abVars, keyVars>>

Next ==
    \/ ConsentStep
    \/ UsageStep
    \/ DomainsStep
    \/ AccessStep
    \/ BusStep
    \/ NotifyStep
    \/ AbStep
    \/ KeysStep
    \/ CapabilitiesStep

Spec == Init /\ [][Next]_cpVars

TypeOK ==
    /\ part \in Parts
    /\ ConsentTypeOK
    /\ UsageTypeOK
    /\ DomainsTypeOK
    /\ SegmentsTypeOK
    /\ RmqTypeOK
    /\ NotifyTypeOK
    /\ AbTypeOK
    /\ KeysTypeOK
    /\ CapabilitiesTypeOK
=============================================================================
