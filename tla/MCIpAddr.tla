------------------------------ MODULE MCIpAddr ------------------------------
(* Model checking of IpAddr: octets around the boundaries of the masks.    *)
EXTENDS IpAddr

MCAddresses ==
    { <<10, 0, k, l>> : k \in {0, 1, 128, 255}, l \in {0, 1, 127, 128, 255} }
    \cup { <<0, 0, 0, 0>>, <<11, 0, 0, 1>>, <<224, 0, 0, 1>>,
           <<255, 255, 255, 255>> }
=============================================================================
