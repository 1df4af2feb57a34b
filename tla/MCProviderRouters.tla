-------------------------- MODULE MCProviderRouters --------------------------
EXTENDS ProviderRouters, TLC

CONSTANTS c1, c2

EmailRoute == <<"postal", "resend">>
MCRoutes == {EmailRoute, <<"apns">>, <<"fcm">>}
=============================================================================
