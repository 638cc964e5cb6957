----------------------------- MODULE MCRestGate -----------------------------
(***************************************************************************)
(* RestGate for TLC: targets and settings of the routes.                   *)
(***************************************************************************)
EXTENDS RestGate, TLC

MCRoute == {<<"GET", "/a">>, <<"PATCH", "/a">>}
MCTarget == MCRoute \cup {<<"PUT", "/a">>, <<"GET", "/b">>}

MCSetting(jwt, onUnauthorized, signature, onUnsigned) ==
  [jwt |-> jwt, onUnauthorized |-> onUnauthorized,
   signature |-> signature, onUnsigned |-> onUnsigned]

\* A request with the method PATCH is not checked for a signature.
MCSettings ==
  {[r \in MCRoute |-> IF r[1] = "GET" THEN s
                     ELSE MCSetting("off", "none", "strict", "none")] :
     s \in {MCSetting("transition", "none", "strict", "none"),
           MCSetting("on", "user", "lenient", "none"),
           MCSetting("off", "none", "strict", "user")}}

MCSymmetry == Permutations(Request)
=============================================================================
