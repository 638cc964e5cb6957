----------------------------- MODULE MCRpcCall -----------------------------
(***************************************************************************)
(* RpcCall for TLC: the settings of client and server that differ in what  *)
(* they can do to a call.                                                  *)
(***************************************************************************)
EXTENDS RpcCall

Settings(kind, timeout, deadline, auth) ==
  [kind |-> kind, timeout |-> timeout, deadline |-> deadline, auth |-> auth]

MCConfigs ==
  {Settings("unary", "yes", "no", "strict"),
   Settings("unary", "no", "yes", "lenient"),
   Settings("unary", "yes", "yes", "off"),
   Settings("stream", "no", "no", "off")}
=============================================================================
