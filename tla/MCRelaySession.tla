--------------------------- MODULE MCRelaySession ---------------------------
(* Small instances of RelaySession: one session, and hosts that share a key. *)
EXTENDS RelaySession, TLC

CONSTANTS a1, a2, b1,  \* connections
          ka, kb           \* the keys of the session's participants

MCOther == ka :> kb @@ kb :> ka

OneEach  == a1 :> ka @@ b1 :> kb
SameKey  == a1 :> ka @@ a2 :> ka @@ b1 :> kb
TwoOneWay == ka :> 2 @@ kb :> 0
Silent    == ka :> 0 @@ kb :> 0
=============================================================================
