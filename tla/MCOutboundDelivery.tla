------------------------- MODULE MCOutboundDelivery -------------------------
EXTENDS OutboundDelivery, TLC

CONSTANTS m1, m2, s1, s2, email, sms

MCWorkerChannel == [w \in Senders |-> sms]
MCMsgChannel == [m \in Msgs |-> sms]
Sym == Permutations(Senders)
=============================================================================
