---------------------------- MODULE MCRequestPath ----------------------------
(* Small instances of RequestPath for TLC.                                  *)
EXTENDS RequestPath

CONSTANTS ip1, ip2, ip3, cid1, noCid

MCIps == {ip1, ip2, ip3}
MCCids == {cid1}
MCAllowed == {ip1, ip2}
MCDevIps == {ip1}
MCCallers == {<<"auth_token", ip1, cid1>>, <<"auth_token", ip1, noCid>>,
              <<"auth_other", ip1, noCid>>,
              <<"data", ip1, cid1>>, <<"data", ip2, cid1>>, <<"data", ip3, cid1>>}
MCChanges == {[at |-> 1, autumn |-> FALSE], [at |-> 3, autumn |-> TRUE]}
MCLimit == [auth_token |-> 1, auth_other |-> 2, data |-> 1]
=============================================================================
