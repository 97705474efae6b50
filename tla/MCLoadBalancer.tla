--------------------------- MODULE MCLoadBalancer ---------------------------
(* Model checking of LoadBalancer: the three servers of init_mock_servers  *)
(* and weights up to 3.                                                    *)
EXTENDS LoadBalancer

MCWeights == <<3, 2, 1>>
=============================================================================
