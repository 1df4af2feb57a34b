-------------------------- MODULE MCMessagingService --------------------------
EXTENDS MessagingService, TLC

CONSTANTS c1, c2, acme, ana, text, key

AskOf(category, header) ==
    [tenant |-> acme, channel |-> "email", recipient |-> ana,
     category |-> category, body |-> text, header |-> header]

(* One request under a key of its caller and never capped, one under the   *)
(* derived key and in a capped category.                                   *)
MCAsks == {AskOf("transactional", key), AskOf("digest", NoHeader)}

Pref(enabled, cap) == [enabled |-> enabled, cap |-> cap]

MCDefaults == [c \in Categories |-> Pref(TRUE, IF c = "digest" THEN 1 ELSE 0)]

MCPreferences == {Pref(FALSE, 0)}

MCGrants == {-1, 1}

Symmetry == Permutations(Calls)
=============================================================================
