------------------------------ MODULE MCWSFeed ------------------------------
(* One currency, two strikes, one of which is also a leg, and a perpetual. *)
EXTENDS WSFeed

MCSpot        == {"BTC"}
MCStrikes     == {"atm", "far"}
MCLegs        == {"far", "leg", "perp"}
MCChannelless == {"perp"}
=============================================================================
