----------------------------- MODULE MCDiscovery -----------------------------
(* One phone with an address of its own, which it can lose and get again, *)
(* and a phone whose address begins with that one.                          *)
EXTENDS Discovery

MCIps == {"10.0.0.2"}
MCNoIp == "null"
MCPeers == {"10.0.0.23"}
MCContains(text, part) == text = part \/ <<text, part>> = <<"10.0.0.23", "10.0.0.2">>
=============================================================================
