---------------------------- MODULE MCServiceParts ----------------------------
(* Finite instances of ServiceParts, with the route table that src/main.cpp
   registers. *)
EXTENDS ServiceParts

Route(m, p) == [method |-> m, path |-> p]

(* The five routes of a resource. *)
Crud(x) ==
    {Route(m, <<x>>) : m \in {"GET", "POST"}} \cup
    {Route(m, <<x, Param>>) : m \in {"GET", "PUT", "DELETE"}}

Getters ==
    {<<"health">>, <<"device", "status">>, <<"devices">>, <<"ota", "firmwares">>,
     <<"ota", "firmwares", "latest">>, <<"ota", "firmwares", Param>>,
     <<"ota", "firmwares", "download", Param, Param>>, <<"ota", "upgrades">>,
     <<"ota", "upgrades", Param>>, <<"ota", "stats", Param>>, <<"faults">>,
     <<"faults", "active">>, <<"faults", Param>>, <<"tenants">>,
     <<"tenants", "by-key">>, <<"tenants", Param>>, <<"tenants", Param, "devices">>,
     <<"config">>, <<"mqtt-tenant-key">>, <<"mqtt-tenant-key", "verify">>,
     <<"orgs", "tree">>, <<"auth", "profile">>}

Posters ==
    {<<"device", "activate">>, <<"ota", "firmwares">>, <<"ota", "firmwares", "upload">>,
     <<"ota", "push">>, <<"auth", "login">>, <<"auth", "logout">>}

Putters ==
    {<<"devices", Param, "tenant">>, <<"faults", "resolve">>, <<"config">>,
     <<"mqtt-tenant-key">>, <<"accounts", Param, "password">>}

Deleters ==
    {<<"devices", Param>>, <<"ota", "firmwares", Param>>, <<"mqtt-tenant-key">>}

ServiceRoutes ==
    UNION {Crud(x) : x \in {"device-types", "device-models", "orders", "recipes",
                            "orgs", "accounts"}} \cup
    {Route("GET", p) : p \in Getters} \cup {Route("POST", p) : p \in Posters} \cup
    {Route("PUT", p) : p \in Putters} \cup {Route("DELETE", p) : p \in Deleters}

(* PUT /devices/{device_id}/tenant searches for its last word. *)
Searching == {Route("PUT", <<"devices", Param, "tenant">>)}

(* Every route, called with the values v for its parameters. *)
Calls(v) ==
    {Route(r.method, [i \in DOMAIN r.path |-> IF r.path[i] = Param THEN v ELSE r.path[i]]) :
        r \in ServiceRoutes}

(* Parameters that are no other segment and some that are; a preflight; paths
   no route has. *)
ClientRequests ==
    Calls("7") \cup Calls("latest") \cup Calls("devices") \cup Calls("") \cup
    {Route("OPTIONS", <<"orgs">>), Route("GET", <<"orgs", "7", "extra">>),
     Route("PUT", <<"devices", "7", "status">>), Route("PUT", <<"devices", "7", "tenant", "x">>)}

(* The calls below /accounts/{id}. *)
AccountCalls ==
    {Route("PUT", <<"accounts", "7">>), Route("PUT", <<"accounts", "7", "password">>)}

=============================================================================
