------------------------------ MODULE Registry ------------------------------
(***************************************************************************)
(* Connector packages: the registry of plugins that the load and unload    *)
(* hooks of the package backend keep, kloset's own registry of storage     *)
(* protocols, which they keep too, and how the connectors of an operation  *)
(* are resolved through them.                                              *)
(*                                                                         *)
(* A manifest is the sequence of its connectors with one protocol each, in *)
(* the order of the nested loops over it. Names and versions are sequences *)
(* of tokens, so that a key is what the code makes: their concatenation.   *)
(***************************************************************************)
EXTENDS Naturals, Sequences, SequencesExt

CONSTANTS
    Tokens,    \* what names and versions are made of
    Packages,  \* records with name, version and connectors
    Configs    \* connector configurations: integration name, version, fields

ASSUME RegistryAssumption ==
    \* one package for each name and version
    /\ \A p, q \in Packages : p.name = q.name /\ p.version = q.version => p = q
    \* names and versions do not contain the separator of a key
    /\ ":" \notin Tokens
    /\ \A x \in Packages \cup Configs :
           x.name \in Seq(Tokens) /\ x.version \in Seq(Tokens)
    /\ \A pkg \in Packages : DOMAIN pkg.connectors \subseteq Nat

VARIABLES
    plugins,   \* pluginRegistry: from keys to plugins
    storages,  \* kloset's registry: from protocols to what was registered
    loaded,    \* the packages the backend has loaded
    request,   \* what was last asked to be resolved
    outcome    \* and to what it was

vars == <<plugins, storages, loaded, request, outcome>>

Types == {"importer", "exporter", "storage", "inventory"}

Idle     == [kind |-> "none"]
Builtin  == [how |-> "builtin"]
Failed   == [how |-> "error"]
Via(p)   == [how |-> "plugin", plugin |-> p]

Init ==
    /\ plugins = <<>> /\ storages = <<>> /\ loaded = {}
    /\ request = Idle /\ outcome = Failed

-----------------------------------------------------------------------------
(* The registry *)

\* The protocol left out for every type.
makePluginKeyNoProtocol(name, version, type, protocol) ==
    name \o <<":">> \o version \o <<":", type, ":">>

\* The types whose protocol is there for the manifest only.
Unkeyed == {"inventory", "secret_provider"}

makePluginKey(name, version, type, protocol) ==
    name \o <<":">> \o version \o <<":", type, ":">>
         \o (IF type \in Unkeyed THEN <<>> ELSE <<protocol>>)

key(p) == makePluginKey(p.name, p.version, p.type, p.protocol)

\* The plugins of a package, in the order in which they are registered.
Plugins(pkg) ==
    [i \in DOMAIN pkg.connectors |->
        [name |-> pkg.name, version |-> pkg.version,
         type |-> pkg.connectors[i].type,
         protocol |-> pkg.connectors[i].protocol,
         exec |-> pkg.connectors[i].executable]]

Keys(pkg) == {key(p) : p \in ToSet(Plugins(pkg))}

\* The first one registered stays; the error of a second one is ignored.
registerPlugin(ps, k) ==
    ps[CHOOSE i \in DOMAIN ps : /\ key(ps[i]) = k
                               /\ \A j \in DOMAIN ps : key(ps[j]) = k => i <= j]

RegisterPlugins(pkg) ==
    [k \in DOMAIN plugins \cup Keys(pkg) |->
        IF k \in DOMAIN plugins THEN plugins[k] ELSE registerPlugin(Plugins(pkg), k)]

Without(registry, keys) == [k \in DOMAIN registry \ keys |-> registry[k]]

\* Takes out the plugins of its first connector only.
UnregisterFirst(pkg) == Without(plugins, {key(Plugins(pkg)[1])})

\* One that is not registered is only logged.
UnregisterPlugins(pkg) == Without(plugins, Keys(pkg))

GetPlugin(name, version, type, protocol) ==
    LET k == makePluginKey(name, version, type, protocol) IN
    IF k \in DOMAIN plugins THEN Via(plugins[k]) ELSE Failed

-----------------------------------------------------------------------------
(* The hooks *)

StorageProtocols(pkg) == {p.protocol : p \in {q \in ToSet(Plugins(pkg)) :
                                                 q.type = "storage"}}

\* storage.Register refuses a protocol it has, and the error is ignored.
registerStorages(pkg) ==
    [proto \in DOMAIN storages \cup StorageProtocols(pkg) |->
        IF proto \in DOMAIN storages THEN storages[proto]
        ELSE [name |-> pkg.name, version |-> pkg.version]]

pkgLoadHook(pkg) ==
    /\ pkg \notin loaded
    /\ loaded' = loaded \cup {pkg}
    /\ plugins' = RegisterPlugins(pkg)
    /\ storages' = registerStorages(pkg)
    /\ request' = Idle /\ outcome' = Failed

\* storage.Unregister takes the protocol out, whoever had registered it.
pkgUnloadHook(pkg) ==
    /\ pkg \in loaded
    /\ loaded' = loaded \ {pkg}
    /\ plugins' = UnregisterPlugins(pkg)
    /\ storages' = Without(storages, StorageProtocols(pkg))
    /\ request' = Idle /\ outcome' = Failed

-----------------------------------------------------------------------------
(* Resolution *)

\* The scheme of the first location field; fields have their scheme as value here.
protocolOf(conf) ==
    LET at == {i \in DOMAIN conf.fields : conf.fields[i].key = "location"} IN
    IF at = {} THEN "" ELSE conf.fields[CHOOSE i \in at : \A j \in at : i <= j].val

pluginFor(conf, type) == GetPlugin(conf.name, conf.version, type, protocolOf(conf))

(***************************************************************************)
(* mkimporter, mkexporter, mkstorage and mkinventory. fs is compiled in,   *)
(* except as an inventory; an importer or an exporter without a plugin is  *)
(* looked for in kloset's own registry; the others are an error.           *)
(***************************************************************************)
Make(conf, type) ==
    /\ request' = [kind |-> "connector", conf |-> conf, type |-> type]
    /\ outcome' =
         IF conf.name = <<"fs">> /\ type # "inventory" THEN Builtin
         ELSE IF pluginFor(conf, type) # Failed THEN pluginFor(conf, type)
         ELSE IF type \in {"importer", "exporter"} THEN Builtin ELSE Failed
    /\ UNCHANGED <<plugins, storages, loaded>>

\* storage.New: the closure that was registered looks its plugin up each time.
StorageNew(proto) ==
    /\ request' = [kind |-> "storage.New", proto |-> proto]
    /\ outcome' = IF proto \in DOMAIN storages
                  THEN GetPlugin(storages[proto].name, storages[proto].version,
                                 "storage", proto)
                  ELSE Failed
    /\ UNCHANGED <<plugins, storages, loaded>>

Protocols == UNION {StorageProtocols(pkg) : pkg \in Packages}

Next ==
    \/ \E pkg \in Packages : pkgLoadHook(pkg) \/ pkgUnloadHook(pkg)
    \/ \E conf \in Configs, type \in Types : Make(conf, type)
    \/ \E proto \in Protocols : StorageNew(proto)

Spec == Init /\ [][Next]_vars

-----------------------------------------------------------------------------
(* Properties *)

\* The executables that loaded packages offer for a configuration.
Offered(conf, type) ==
    {p.exec : p \in {q \in UNION {ToSet(Plugins(pkg)) : pkg \in loaded} :
        /\ q.name = conf.name /\ q.version = conf.version /\ q.type = type
        /\ type = "inventory" \/ q.protocol = protocolOf(conf)}}

(***************************************************************************)
(* After any sequence of loads and unloads a connector runs the executable *)
(* that a loaded package of the configured name and version has for its    *)
(* type and protocol. A built-in one, or an error, is what it becomes only *)
(* where no loaded package offers one (kloset.go:42-44, pkgplugin.go:62).  *)
(***************************************************************************)
ConnectsAsConfigured ==
    request.kind = "connector" /\ request.conf.name # <<"fs">> =>
        LET offers == Offered(request.conf, request.type) IN
        IF offers # {}
        THEN /\ outcome.how = "plugin" /\ outcome.plugin.exec \in offers
             /\ outcome.plugin.type = request.type
        ELSE outcome = IF request.type \in {"importer", "exporter"}
                       THEN Builtin ELSE Failed

(***************************************************************************)
(* What storage.New runs is the storage plugin of a loaded package for the *)
(* protocol: a plugin that is gone is never dispatched to, although the    *)
(* registration outlives it or another package took the protocol over      *)
(* (pkgplugin.go:24).                                                      *)
(***************************************************************************)
StorageNewSound ==
    request.kind = "storage.New" /\ outcome.how = "plugin" =>
        \E pkg \in loaded : \E p \in ToSet(Plugins(pkg)) :
            p.type = "storage" /\ p.protocol = request.proto /\ p = outcome.plugin
=============================================================================
