----------------------------- MODULE MCControlPlane -----------------------------
EXTENDS ControlPlane, TLC

CONSTANTS r1, r2, d1, d2, v1, v2, t1, t2, ana, q1, q2, p1, p2,
          a1, a2, c1, c2, c3, h1, h2, e1, e2

MCLower == [v \in Written |-> IF v = "Ana" THEN "ana" ELSE v]
MCStrip == [v \in Written |-> v]
MCPlus == [v \in Written |-> IF v = "55" THEN "+55" ELSE v]
MCTypeOf ==
    [c \in Channels |-> CASE c = "email" -> "email"
                          [] c \in {"push_ios", "push_web_sub"} -> "push_token"
                          [] OTHER -> "phone_e164"]
MCIdentifiers == {<<"email", "Ana">>}
MCRecordings == {<<"acme", "email", "ana">>, <<"ghost", "email", "ana">>,
                 <<"acme", "breach_incident", "ana">>,
                 <<"acme", "push_web_sub", "ana">>}

MCGroup == d1 :> <<"acme", "push_ios">> @@ d2 :> <<"acme", "push_android">>
MCMetric == [g \in {MCGroup[d] : d \in Deliveries} |-> <<g[1], "push_count">>]

MCFirstTokens == [t \in Tokens |-> IF t = t1 THEN "acme" ELSE Nowhere]

MCWeightings == {<<50, 55>>, <<30, 30, 35>>, <<60, 50>>}

MCSymmetry == Permutations(RowIds) \cup Permutations(Requests)
=================================================================================
