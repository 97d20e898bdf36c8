----------------------------- MODULE MCRegistry -----------------------------
(***************************************************************************)
(* Registry for TLC: two versions of one package, a package of another     *)
(* name for the same protocol, and an inventory with two protocols.        *)
(***************************************************************************)
EXTENDS Registry

MCTokens == {"s3", "minio", "scw", "fs", "1.0", "1.1"}

Conn(type, protocol, executable) ==
    [type |-> type, protocol |-> protocol, executable |-> executable]

Package(name, version, connectors) ==
    [name |-> <<name>>, version |-> <<version>>, connectors |-> connectors]

MCPackages ==
    {Package("s3", "1.0", <<Conn("storage", "s3", "s3-1.0-storage"),
                            Conn("storage", "s3+http", "s3-1.0-storage"),
                            Conn("importer", "s3", "s3-1.0-importer")>>),
     Package("s3", "1.1", <<Conn("storage", "s3", "s3-1.1-storage"),
                            Conn("importer", "s3", "s3-1.1-importer"),
                            Conn("exporter", "s3", "s3-1.1-exporter")>>),
     Package("minio", "1.0", <<Conn("exporter", "s3", "minio-exporter"),
                               Conn("storage", "s3", "minio-storage")>>),
     Package("scw", "1.0", <<Conn("inventory", "scw", "scw-inventory"),
                             Conn("secret_provider", "scw", "scw-secrets"),
                             Conn("inventory", "scw2", "scw-inventory-2")>>)}

Location(proto) == <<[key |-> "region", val |-> "eu"],
                     [key |-> "location", val |-> proto]>>

MCConfigs ==
    [name : {<<"s3">>, <<"minio">>, <<"scw">>, <<"fs">>},
     version : {<<"1.0">>, <<"1.1">>},
     fields : {Location("s3"), Location("s3+http"), Location("other"), <<>>}]
=============================================================================
