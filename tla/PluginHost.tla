------------------------------ MODULE PluginHost ------------------------------
(***************************************************************************)
(* The plugin host (extensibility/host.py), the configuration rows         *)
(* (extensibility/config_store.py) and the requests that enable, disable   *)
(* and configure plugins (application/plugin_management_service.py).       *)
(*                                                                         *)
(* Such a request reads the plugin's row and writes it back whole, then    *)
(* builds a new host, which asks for the row of one plugin after the other *)
(* (whether it is on, then its settings) and subscribes the hooks of those *)
(* it loads to the bus of the process, and is put in the place of the old. *)
(* Requests run in threads of one process, with nothing to keep them       *)
(* apart. The first request of any kind builds the first host.             *)
(* Permissions, loaders, and what a plugin offers besides event hooks are  *)
(* left out: setting one up fails, or not, with its settings.              *)
(***************************************************************************)
EXTENDS Naturals, Sequences

CONSTANTS
  Catalog,     (* the executable plugins, in the order of their manifests  *)
  DefaultOn,   (* those with enabled_by_default                            *)
  Managers,    (* threads that serve requests                              *)
  MaxHosts     (* bound: hosts built                                       *)

Plugins == {Catalog[i] : i \in DOMAIN Catalog}

ASSUME PluginsAssumption ==
  Catalog \in Seq(Plugins) /\ DefaultOn \subseteq Plugins /\ MaxHosts \in Nat

VARIABLES
  configRows,   (* archub_plugin_config                                    *)
  bus,          (* <<host, plugin>>: the hooks a host has subscribed       *)
  host,         (* _HOST: the number of the host in place, or NoHost       *)
  hosts,        (* hosts built so far                                      *)
  call          (* where the request of each thread is                     *)

pluginVars == <<configRows, bus, host, hosts, call>>

NoHost == 0
NoRow == [enabled |-> FALSE, sound |-> TRUE, stored |-> FALSE]
NoCall == [at |-> "idle", plugin |-> "", row |-> NoRow, builds |-> NoHost, todo |-> <<>>]

Enabled(p) == IF configRows[p].stored THEN configRows[p].enabled ELSE p \in DefaultOn

\* Settings without a row are empty: sound. A row written now exists.
WithEnabled(row, on) == [row EXCEPT !.enabled = on, !.stored = TRUE]
WithSettings(row, sound) == [row EXCEPT !.sound = sound, !.stored = TRUE]

\* _require, and the SELECT of _upsert; without a row enabled is taken for 0.
BeginSave(m, p, row) ==
  /\ call[m] = NoCall
  /\ call' = [call EXCEPT ![m].at = "saving", ![m].plugin = p, ![m].row = row]
  /\ UNCHANGED <<configRows, bus, host, hosts>>

SetEnabled(m, p, on) == BeginSave(m, p, WithEnabled(configRows[p], on))
Configure(m, p, sound) == BeginSave(m, p, WithSettings(configRows[p], sound))

SaveRow(m) ==
  /\ call[m].at = "saving"
  /\ configRows' = [configRows EXCEPT ![call[m].plugin] = call[m].row]
  /\ call' = [call EXCEPT ![m] = [NoCall EXCEPT !.at = "reloading"]]
  /\ UNCHANGED <<bus, host, hosts>>

\* get_plugin_host: on demand when there is none, always on a reload.
BuildHost(m) ==
  /\ call[m].at = "reloading" \/ (call[m] = NoCall /\ host = NoHost)
  /\ hosts < MaxHosts
  /\ hosts' = hosts + 1
  /\ call' = [call EXCEPT ![m] = [NoCall EXCEPT
                !.at = "loading", !.builds = hosts + 1, !.todo = Catalog]]
  /\ UNCHANGED <<configRows, bus, host>>

\* load: a plugin that is off is passed over.
AskEnabled(m) ==
  LET c == call[m]
  IN  /\ c.at = "loading" /\ c.todo # <<>>
      /\ call' = [call EXCEPT ![m] =
           IF Enabled(Head(c.todo)) THEN [c EXCEPT !.at = "setup"]
           ELSE [c EXCEPT !.todo = Tail(@)]]
      /\ UNCHANGED <<configRows, bus, host, hosts>>

\* _load_one: the settings are read, and one that fails with them is left out.
LoadOne(m) ==
  LET p == Head(call[m].todo)
  IN  bus' = IF configRows[p].sound THEN bus \cup {<<call[m].builds, p>>} ELSE bus

SetupUntilFailure(m) ==
  LET c == call[m]
  IN  /\ c.at = "setup"
      /\ LoadOne(m)
      /\ call' = [call EXCEPT ![m].at = "loading",
           ![m].todo = IF configRows[Head(c.todo)].sound THEN Tail(@) ELSE <<>>]
      /\ UNCHANGED <<configRows, host, hosts>>
Setup(m) ==
  /\ call[m].at = "setup"
  /\ LoadOne(m)
  /\ call' = [call EXCEPT ![m].at = "loading", ![m].todo = Tail(@)]
  /\ UNCHANGED <<configRows, host, hosts>>

PutInPlace(m) ==
  /\ call[m].at = "loading" /\ call[m].todo = <<>>
  /\ host' = call[m].builds
  /\ call' = [call EXCEPT ![m] = NoCall]
  /\ UNCHANGED <<configRows, bus, hosts>>

PluginInit ==
  /\ configRows = [p \in Plugins |-> NoRow]
  /\ bus = {}
  /\ host = NoHost /\ hosts = 0
  /\ call = [m \in Managers |-> NoCall]

ManagerStep(m) ==
  \/ \E p \in Plugins : \E choice \in BOOLEAN : SetEnabled(m, p, choice) \/ Configure(m, p, choice)
  \/ SaveRow(m) \/ BuildHost(m) \/ AskEnabled(m) \/ Setup(m) \/ PutInPlace(m)

PluginNext == \E m \in Managers : ManagerStep(m)

PluginSpec == PluginInit /\ [][PluginNext]_pluginVars

-----------------------------------------------------------------------------
\* Nothing is under way, and the first host has been built.
AtRest == host # NoHost /\ \A m \in Managers : call[m] = NoCall

\* "isolates setup failures so one bad plugin can't break" the others
\* (docs/capabilities/plugins.md): whatever other plugins fail to load, and
\* however requests overlap and overwrite each other's rows, when all is done
\* every plugin that is enabled and sound hears the events of the process.
EnabledIsHeard ==
  AtRest => \A p \in Plugins :
    Enabled(p) /\ configRows[p].sound => \E h \in 1..hosts : <<h, p>> \in bus

\* "reload the host so the change takes effect immediately"
\* (application/plugin_management_service.py:5): a plugin that is disabled does
\* not hear events once nothing is under way.
DisabledIsSilent ==
  AtRest => \A p \in Plugins : ~Enabled(p) => \A h \in 1..hosts : <<h, p>> \notin bus
=============================================================================
