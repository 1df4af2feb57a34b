--------------------------- MODULE ProviderAdapters ---------------------------
(***************************************************************************)
(* The adapters of messaging_cp/adapters over the HTTP clients of          *)
(* beacon/integrations: what send() does with what the provider replies.   *)
(* Payloads, headers and signatures are left out.                          *)
(***************************************************************************)
CONSTANTS Providers,    \* the adapters in use
          Configured    \* those that were given their credentials.  The push
                        \* adapters take them from their caller only, and the
                        \* routers of the API and of the workers give none

Adapters == {"postal", "resend", "zenvia", "apns", "fcm"}

ASSUME AdapterAssumption == Providers \subseteq Adapters /\ Configured \subseteq Providers

(* What the provider says, and the messages it takes: one or none.         *)
Reply(said, took) == [said |-> said, took |-> took]

(* Every provider may take the message and say so, say so in a body that   *)
(* does not parse, refuse it with an error status, or not be heard of: the *)
(* client's timeout, or a connection that breaks, before or after it took  *)
(* the message.                                                            *)
CommonReplies ==
    {Reply("accepted", 1), Reply("unreadable", 1), Reply("refused", 0),
     Reply("nothing", 1), Reply("nothing", 0)}

(* Postal also refuses messages with status 200.                           *)
PostalReplies == CommonReplies \cup {Reply("declined", 0)}

(* Without a key Resend is not asked at all.                               *)
ResendReplies ==
    IF "resend" \in Configured THEN CommonReplies ELSE {Reply("no_request", 0)}

ZenviaReplies == CommonReplies

(* _generate_jwt(): signing takes the key of the app.                      *)
HasJwt == "apns" \in Configured

(* APNs and FCM have statuses that condemn the device token.               *)
ApnsReplies ==
    IF HasJwt THEN CommonReplies \cup {Reply("bad_token", 0)}
    ELSE {Reply("no_request", 0)}

(* _access(): Google's token endpoint, which is asked first, may refuse    *)
(* the client itself, or not be heard of.                                  *)
AccessReplies == {Reply("no_access", 0), Reply("nothing", 0)}

FcmReplies ==
    IF "fcm" \in Configured
    THEN CommonReplies \cup {Reply("bad_token", 0)} \cup AccessReplies
    ELSE {Reply("no_request", 0)}

RepliesOf(p) ==
    CASE p = "postal" -> PostalReplies
      [] p = "resend" -> ResendReplies
      [] p = "zenvia" -> ZenviaReplies
      [] p = "apns"   -> ApnsReplies
      [] p = "fcm"    -> FcmReplies

(* The clients' send methods, by what the provider says.                   *)
PostalSend(said) == IF said = "accepted" THEN "queued" ELSE "raised"

ResendSend(said) == IF said = "accepted" THEN "sent" ELSE "raised"

ZenviaSend(said) == IF said = "accepted" THEN "queued" ELSE "raised"

(* APNs accepts with an empty body, so none is read.                       *)
ApnsSend(said) ==
    CASE said \in {"accepted", "unreadable"} -> "sent"
      [] said = "bad_token"                  -> "bad_token"
      [] said = "no_request"                 -> "dev_skipped"
      [] OTHER                               -> "raised"

FcmSend(said) ==
    CASE said = "accepted"                    -> "sent"
      [] said = "bad_token"                   -> "bad_token"
      [] said \in {"no_request", "no_access"} -> "dev_skipped"
      [] OTHER                                -> "raised"

(* The adapters construct the clients above and hand on what they return   *)
(* or raise: none of them raises the error class it defines itself, since  *)
(* every client has a method to send with.                                 *)
PostalAdapter(reply) == PostalSend(reply.said)

ResendAdapter(reply) == ResendSend(reply.said)

ZenviaAdapter(reply) == ZenviaSend(reply.said)

ApnsAdapter(reply) == ApnsSend(reply.said)

FcmAdapter(reply) == FcmSend(reply.said)

(* The status of the result of send(), or "raised" for an exception.       *)
StatusOf(p, reply) ==
    CASE p = "postal" -> PostalAdapter(reply)
      [] p = "resend" -> ResendAdapter(reply)
      [] p = "zenvia" -> ZenviaAdapter(reply)
      [] p = "apns"   -> ApnsAdapter(reply)
      [] p = "fcm"    -> FcmAdapter(reply)

(* Statuses of results that stand for a message a provider has taken.      *)
Delivering == {"queued", "sent"}
=============================================================================
