--------------------------- MODULE MCCanonicalSend ---------------------------
EXTENDS CanonicalSend, TLC

CONSTANTS r1, r2, acme, nobody, ana, bob, tpl, hello, bye, header

Ask(tenant, channel, to, content, key) ==
    [tenant |-> tenant, channel |-> channel, to |-> to, template |-> tpl,
     content |-> content, header |-> key]

(* Two sends that differ in content only, without a header; and under one  *)
(* header an email, and a push of a tenant that has no organization row.   *)
Hello == Ask(acme, "email", <<ana, bob>>, hello, NoHeader)
Bye == Ask(acme, "email", <<ana, bob>>, bye, NoHeader)
Keyed == Ask(acme, "email", <<bob>>, hello, header)
Push == Ask(nobody, "push", <<ana>>, hello, header)

MCAsks == {Hello, Keyed, Push}
PlainAsks == {Hello, Bye}
OneAsk == {Keyed}

MCContacts == {<<acme, bob>>}

Symmetry == Permutations(Requests)
=============================================================================
