------------------------------ MODULE MCProxy ------------------------------
(* Values of the constants of Proxy for TLC: the handshake, a list request, two
   tool calls, a request of another kind, and one roots/list of the daemon. *)
EXTENDS Proxy, TLC

CONSTANTS init, list, call1, call2, ping, roots

MCIds    == {init, list, call1, call2, ping}
MCKindOf == (init :> "initialize") @@ (list :> "list") @@ (call1 :> "call") @@
            (call2 :> "call") @@ (ping :> "other")
=============================================================================
