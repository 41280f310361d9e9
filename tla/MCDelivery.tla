----------------------------- MODULE MCDelivery ------------------------------
(* Instances of Delivery for TLC.                                            *)
EXTENDS Delivery

\* No route, one dispatcher, and two.
SomeRoutes == {<<>>, <<"redis">>, <<"logger", "redis">>}
==============================================================================
