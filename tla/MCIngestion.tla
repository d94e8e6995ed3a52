---------------------------- MODULE MCIngestion ----------------------------
(* An instance of Ingestion for TLC. *)
EXTENDS Ingestion, TLC

CONSTANTS okta, sap, entra, ldap,  \* collectors and a connector of one tenant, a
                                   \* collector of another
          here, there,             \* the tenants
          joins, owns,             \* alice -> staff, staff -> disk
          mine,                    \* alice -> disk, where disk is a user
          adds,                    \* carol -> staff, where there are two carols
          uses,                    \* bob -> disk
          roots,                   \* root -> staff, where another user is called root
          k1

\* External ids are of a provider and of the id there.
Thing(kind, x) == [kind |-> kind, ext |-> <<"okta", x>>, name |-> <<"okta", x>>]
Alice == Thing("user", "alice")
Carol == Thing("user", "carol")
Bob == Thing("user", "bob")
Root == Thing("user", "root")
Staff == Thing("group", "staff")
DiskUser == Thing("user", "disk")
Disk == Thing("asset", "disk")
Projected == [kind |-> "user", ext |-> <<"okta", "carol">>, name |-> <<"entra", "carol">>]
Guid == [kind |-> "user", ext |-> <<"alice">>, name |-> <<"entra", "alice">>]
Seeded == [kind |-> "user", ext |-> <<"dev", "root">>, name |-> <<"okta", "root">>]
Moved == Thing("user", "dan")

MCNodes == {Alice, Carol, Bob, Root, Staff, DiskUser, Disk, Projected, Guid, Seeded, Moved}
MCTenantOf == [s \in Sources |-> IF s = ldap THEN there ELSE here]
MCNamespace == [s \in Sources |-> {n.ext : n \in Nodes}]
MCEnds == [r \in Relationships |->
    CASE r = joins -> <<Alice, Staff>> [] r = owns -> <<Staff, Disk>>
      [] r = mine -> <<Alice, DiskUser>> [] r = adds -> <<Carol, Staff>>
      [] r = uses -> <<Bob, Disk>> [] r = roots -> <<Root, Staff>>]

RowOf(s, t) == [source |-> s, tenant |-> here, at |-> t, attrs |-> 0]
\* An earlier batch has brought alice, carol and the group; the connector has
\* another user with carol's external id, and alice's under its own.  dan's
\* source has been given to another tenant since (test_foundation.py:94).
MCExisting == Seeded :> RowOf(None, 0) @@ Alice :> RowOf(okta, 1) @@ Carol :> RowOf(okta, 1)
              @@ Staff :> RowOf(okta, 1) @@ Projected :> RowOf(entra, 1)
              @@ Guid :> RowOf(entra, 1) @@ Moved :> RowOf(ldap, 1)

Ask(s, k, b, t, a) == [source |-> s, key |-> k, batch |-> b, at |-> t, attrs |-> a]
MCRequests ==
    {Ask(okta, k1, <<joins, owns>>, 0, 1), Ask(okta, None, <<owns, joins>>, 2, 1),
     Ask(okta, None, <<joins>>, 1, 2), Ask(okta, k1, <<mine>>, 1, 1),
     Ask(okta, None, <<adds>>, 2, 1), Ask(sap, k1, <<uses>>, 2, 1),
     Ask(okta, None, <<roots>>, 1, 1), Ask(ldap, None, <<joins>>, 1, 1)}

\* Deployments without a directory, and with a collector or the connector as it.
MCSettings ==
    {[tenant |-> None, directory |-> None, prefix |-> <<"okta">>, native |-> <<>>],
     [tenant |-> here, directory |-> okta, prefix |-> <<"okta">>, native |-> <<"okta">>],
     [tenant |-> None, directory |-> entra, prefix |-> <<"okta">>, native |-> <<>>]}

Session(issuer, tenant, x) == [issuer |-> issuer, tenant |-> tenant, ext |-> x]
MCTokens ==
    {Session("configured", here, <<"okta", x>>) : x \in {"alice", "carol", "bob", "disk", "dan"}}
    \cup {Session("configured", None, <<"okta", "alice">>), Session("configured", here, <<"okta">>),
          Session("configured", there, <<"okta", "alice">>), Session("other", here, <<"okta", "alice">>),
          Session("configured", here, <<"alice">>), Session("configured", there, <<"okta", "dan">>),
          Session("configured", here, <<"dev", "root">>), Session("dev", here, <<"dev", "root">>),
          Session("dev", there, <<"dev", "root">>)}
=============================================================================
