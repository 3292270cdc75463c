----------------------------- MODULE MCMessaging -----------------------------
(***************************************************************************)
(* Scenarios of ReliableMessaging for TLC.                                 *)
(***************************************************************************)
EXTENDS ReliableMessaging

\* Requests that expect a response and responses that do not.
RequestResponse ==
    {[expectResponse |-> b, noAutoRequestAck |-> FALSE] : b \in BOOLEAN}

\* Messages that expect no response, each on an exchange of its own.
OneWay == {[expectResponse |-> FALSE, noAutoRequestAck |-> FALSE]}

\* Requests only.
RequestsOnly == {[expectResponse |-> TRUE, noAutoRequestAck |-> FALSE]}
===============================================================================
