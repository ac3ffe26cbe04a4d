------------------------------- MODULE Contract -------------------------------
(***************************************************************************)
(* What a mint takes: the contract of each kind, the Web Form's and the    *)
(* envelope's, for what a client sends (handlers.ts, prefill.ts and        *)
(* validation.ts of esign-node), and for what a host answers when it is    *)
(* asked for the terms (prefill.ts of esign-service).                      *)
(*                                                                         *)
(* A prefill is known by what its validation tells apart: its shape,       *)
(* whether it has too many fields, whether every name is a field's, and    *)
(* the kinds of values in it.  A signer by its shape, name and address.    *)
(***************************************************************************)

Kinds == {"webform", "envelope"}

\* "infinite" is a number too large for JSON's reader, "mixed" a list not only of
\* strings; a tab is text with or without a lock
Values == {"text", "blank", "number", "infinite", "strings", "mixed", "phone",
           "tab", "lockedTab", "lockedBlank", "other"}

Prefill == [shape : {"absent", "object", "other"}, many : BOOLEAN, names : BOOLEAN,
            values : SUBSET Values]

Signer == [shape : {"absent", "other", "strings"}, name : {"blank", "long", "fine"},
           email : {"invalid", "valid"}]

-----------------------------------------------------------------------------
(* The prefill *)

\* isWebFormPrefillValue, isPhoneNumber
WebFormValues == {"text", "blank", "number", "strings", "phone"}

\* A bare string, or isEnvelopeTabValue: a lock on nothing could never be filled
TabValues == {"text", "blank", "tab", "lockedTab"}

AcceptedValues(kind) == IF kind = "webform" THEN WebFormValues ELSE TabValues

\* parsePrefill: absent is an empty prefill
ParsesPrefill(kind, prefill) ==
  \/ prefill.shape = "absent"
  \/ /\ prefill.shape = "object"
     /\ ~prefill.many
     /\ prefill.names
     /\ prefill.values \subseteq AcceptedValues(kind)

-----------------------------------------------------------------------------
(* The signer *)

\* validateRecipient
ValidRecipient(signer) ==
  /\ signer.shape = "strings"
  /\ signer.name = "fine"
  /\ signer.email = "valid"

-----------------------------------------------------------------------------
(* The request *)

\* parseRequest of a body that is an object: a form's is never asked who signs
ParsesRequest(kind, prefill, signer) ==
  /\ kind = "envelope" => signer.shape # "other"
  /\ ParsesPrefill(kind, prefill)

\* envelopeMint refuses, before anything is created, what has nobody to sign it
CanBeMinted(kind, signer) == kind = "envelope" => ValidRecipient(signer)

-----------------------------------------------------------------------------
(* The host's terms *)

\* What asking the host ends in: "none" is no answer in time, "error" no 2xx
HostReply == [answers : {"none", "error", "notJson", "json"},
              prefill : Prefill, recipient : Signer]

\* parseReply: what both kinds take for an answer
ParsesReply(reply) == reply.answers = "json" /\ reply.prefill.shape = "object"

\* createPrefillHook takes any object; createEnvelopePrefillHook holds it to the
\* contract, and recipientFrom wants a name and an email
Terms(kind, reply) ==
  /\ ParsesReply(reply)
  /\ kind = "envelope" =>
       /\ ParsesPrefill("envelope", reply.prefill)
       /\ reply.recipient.shape = "strings"
=============================================================================
