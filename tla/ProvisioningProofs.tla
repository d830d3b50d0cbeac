------------------------- MODULE ProvisioningProofs -------------------------
(***************************************************************************)
(* Types, what survives power failures and what the WiFi task is told: for *)
(* any set of networks and identities, any set of networks that the driver *)
(* refuses or that do not fit when a config is read back, and any number   *)
(* of power failures.                                                      *)
(***************************************************************************)
EXTENDS Provisioning, TLAPS

-----------------------------------------------------------------------------
(* The identity                                                             *)

\* A key that was used is in the file, and a new one is made only while there is
\* none: without the second part the key that is about to be written could replace
\* one that has been used.
IdentityInvariant ==
  /\ IdentityKept
  /\ used # 0 => identity_file = used
  /\ boot = "write_identity" => identity_file = 0

LEMMA IdentityStep == IdentityInvariant /\ [Next]_vars => IdentityInvariant'
<1> SUFFICES ASSUME IdentityInvariant, [Next]_vars PROVE IdentityInvariant'
  OBVIOUS
<1> USE DEF IdentityInvariant, IdentityKept
<1>1. CASE get_identity
  BY <1>1 DEF get_identity, Use, files
<1>2. CASE write_identity
  BY <1>2 DEF write_identity, Use
<1>3. CASE LoadConfig
  BY <1>3 DEF LoadConfig, files
<1>4. ASSUME NEW field, NEW value, Set(field, value) PROVE IdentityInvariant'
  BY <1>4 DEF Set, start_up, files
<1>5. CASE persist_connection_config \/ Reply
  BY <1>5 DEF persist_connection_config, Reply, start_up, files
<1>6. CASE WifiStep
  <2>1. ASSUME NEW c, Configure(c) PROVE IdentityInvariant'
    <3>1. boot' \in {boot, "panicked"} /\ UNCHANGED <<LT_IDENTITY, used, identity_file>>
      BY <2>1 DEF Configure, files
    <3> QED
      BY <3>1
  <2>2. CASE Start \/ Retry \/ Apply
    BY <2>1, <2>2 DEF Start, Retry, Apply
  <2>3. CASE \/ Scan \/ ConnectOk \/ ConnectFail \/ Disconnected
             \/ Again \/ Changed \/ NoSsid
    BY <2>3 DEF Scan, ConnectOk, ConnectFail, Disconnected, Again, Changed, NoSsid,
                start_up, files
  <2> QED
    BY <1>6, <2>2, <2>3 DEF WifiStep
<1>7. CASE LinkLost
  BY <1>7 DEF LinkLost, start_up, files
<1>8. CASE Reset
  BY <1>8 DEF Reset, files
<1>9. CASE UNCHANGED vars
  BY <1>9 DEF vars, start_up, files
<1> QED
  BY <1>1, <1>2, <1>3, <1>4, <1>5, <1>6, <1>7, <1>8, <1>9
     DEF Next, Command, send_wifi_settings, set_server_identity

\* The key the reader was known by once stays its key, whenever the power fails
\* (config.rs 33-51).
THEOREM IdentityIsKept == Spec => []IdentityKept
<1>1. Init => IdentityInvariant
  BY DEF Init, IdentityInvariant, IdentityKept
<1>2. IdentityInvariant => IdentityKept
  BY DEF IdentityInvariant
<1> QED
  BY <1>1, <1>2, IdentityStep, PTL DEF Spec

-----------------------------------------------------------------------------
(* The watch                                                                *)

\* The WiFi task does not run before the config is loaded, so loading one changes
\* nothing under it.
WatchInvariant ==
  /\ NoChangeForgotten
  /\ boot \notin {"running", "panicked"} => wifi = "start"

LEMMA WatchStep == WatchInvariant /\ [Next]_vars => WatchInvariant'
<1> SUFFICES ASSUME WatchInvariant, [Next]_vars PROVE WatchInvariant'
  OBVIOUS
<1> USE DEF WatchInvariant, NoChangeForgotten, map_config
<1>1. CASE get_identity \/ write_identity \/ LoadConfig
  BY <1>1 DEF get_identity, write_identity, LoadConfig, watch, radio
<1>2. ASSUME NEW field, NEW value, Set(field, value) PROVE WatchInvariant'
  BY <1>2 DEF Set, start_up, radio
<1>3. CASE persist_connection_config \/ Reply
  BY <1>3 DEF persist_connection_config, Reply, start_up, watch, radio
<1>4. CASE WifiStep
  <2>1. CASE Start \/ Retry \/ Apply
    BY <1>4, <2>1 DEF Start, Retry, Apply, Configure, Running
  <2>2. CASE Changed
    BY <2>2 DEF Changed, Running, start_up
  <2>3. CASE \/ Scan \/ ConnectOk \/ ConnectFail \/ Disconnected
             \/ Again \/ NoSsid
    BY <2>3 DEF Scan, ConnectOk, ConnectFail, Disconnected, Again, NoSsid, Running,
                start_up, watch
  <2> QED
    BY <1>4, <2>1, <2>2, <2>3 DEF WifiStep
<1>5. CASE LinkLost
  BY <1>5 DEF LinkLost, start_up, watch
<1>6. CASE Reset
  BY <1>6 DEF Reset
<1>7. CASE UNCHANGED vars
  BY <1>7 DEF vars, start_up, watch, radio
<1> QED
  BY <1>1, <1>2, <1>3, <1>4, <1>5, <1>6, <1>7
     DEF Next, Command, send_wifi_settings, set_server_identity

\* The WiFi task uses the latest config or will be told of it, in every state of
\* its loop (net/mod.rs 12-81).
THEOREM NoChangeIsForgotten == Spec => []NoChangeForgotten
<1>1. Init => WatchInvariant
  BY DEF Init, WatchInvariant, NoChangeForgotten
<1>2. WatchInvariant => NoChangeForgotten
  BY DEF WatchInvariant
<1> QED
  BY <1>1, <1>2, WatchStep, PTL DEF Spec

-----------------------------------------------------------------------------
(* The commands                                                             *)

\* A command is in force from its first step on, in the file from its second, and
\* promised at its third: between two steps the watch is one field ahead of the
\* promise, and the file is one of the two.  A file that cannot be read back may be
\* left from before the power failed, and is neither.
OneFieldAhead ==
  CONNECTION_CONFIG = [promised EXCEPT ![command.field] = command.value]

ConfigTypes ==
  /\ CONNECTION_CONFIG \in Configs \cup {NoConfig}
  /\ config_file \in Configs \cup {NoConfig}
  /\ promised \in Configs

CommandInvariant ==
  /\ ConfigTypes
  /\ improv \in {"idle", "persist", "reply"}
  /\ improv # "reply" /\ Fits(config_file) => OrDefault(config_file) = promised
  /\ improv = "reply" => config_file = CONNECTION_CONFIG
  /\ boot \notin {"running", "panicked"} /\ ~Fits(config_file) =>
       promised = default_connection_config
  /\ improv # "idle" =>
       boot = "running" /\ CONNECTION_CONFIG \in Configs /\ OneFieldAhead
  /\ Running => OrDefault(CONNECTION_CONFIG) = promised

\* There is always a config to go by, and one that was set is its own.
LEMMA OrDefaultConfig ==
  /\ \A c \in Configs : c # NoConfig /\ OrDefault(c) = c
  /\ \A c \in Configs \cup {NoConfig} : OrDefault(c) \in Configs
<1>1. default_connection_config \in Configs
  BY ProvisioningAssumption DEF default_connection_config, Configs
<1>2. ASSUME NEW c \in Configs PROVE c # NoConfig
  <2>1. c.identity \in Identities /\ NoConfig.identity = "none"
    BY DEF Configs, NoConfig
  <2> QED
    BY <2>1, ProvisioningAssumption
<1> QED
  BY <1>1, <1>2 DEF OrDefault

\* What is read back is the file, or nothing.
LEMMA LoadedConfig ==
  ASSUME config_file \in Configs \cup {NoConfig}
  PROVE  /\ get_connection_config \in Configs \cup {NoConfig}
         /\ Fits(config_file) => get_connection_config = config_file
         /\ ~Fits(config_file) =>
              OrDefault(get_connection_config) = default_connection_config
BY DEF get_connection_config, OrDefault

\* A config that was not read back is the default, which does fit.
LEMMA NoConfigFits == Fits(NoConfig) /\ Fits(default_connection_config)
BY ProvisioningAssumption DEF Fits, NoConfig, default_connection_config

\* Whatever leaves the configs, the Improv task and the start-up alone.
LEMMA CommandFrame ==
  ASSUME CommandInvariant,
         UNCHANGED <<CONNECTION_CONFIG, config_file, improv, command, promised>>,
         boot' = boot \/ (boot' = "panicked" /\ Running)
  PROVE  CommandInvariant'
BY DEF CommandInvariant, ConfigTypes, OneFieldAhead, OrDefault, Running, Fits,
       Configs, NoConfig, default_connection_config

LEMMA SetStep ==
  ASSUME CommandInvariant, NEW field, NEW value, Set(field, value),
         \/ field = "network" /\ value \in Networks
         \/ field = "identity" /\ value \in Identities
  PROVE  CommandInvariant'
<1>1. Running /\ OrDefault(CONNECTION_CONFIG) = promised
  BY DEF Set, Running, CommandInvariant
<1>2. /\ CONNECTION_CONFIG' = [promised EXCEPT ![field] = value]
      /\ command'.field = field /\ command'.value = value
      /\ improv' = "persist" /\ boot' = "running"
      /\ UNCHANGED <<promised, config_file>>
  BY <1>1 DEF Set, Running, start_up, files
<1>3. CONNECTION_CONFIG' \in Configs
  <2>1. promised \in Configs
    BY DEF CommandInvariant, ConfigTypes
  <2>2. CASE field = "network" /\ value \in Networks
    BY <1>2, <2>1, <2>2 DEF Configs
  <2>3. CASE field = "identity" /\ value \in Identities
    BY <1>2, <2>1, <2>3 DEF Configs
  <2> QED
    BY <2>2, <2>3
<1>4. OneFieldAhead'
  BY <1>2 DEF OneFieldAhead
<1>5. (Fits(config_file) => OrDefault(config_file) = promised)'
  BY <1>1, <1>2 DEF CommandInvariant, OrDefault, Running, Fits, NoConfig,
                    default_connection_config
<1>6. ConfigTypes'
  BY <1>2, <1>3 DEF CommandInvariant, ConfigTypes, Configs, NoConfig
<1> QED
  BY <1>2, <1>3, <1>4, <1>5, <1>6 DEF CommandInvariant, Running

LEMMA CommandStep == CommandInvariant /\ [Next]_vars => CommandInvariant'
<1> SUFFICES ASSUME CommandInvariant, [Next]_vars PROVE CommandInvariant'
  OBVIOUS
<1>1. CASE get_identity \/ write_identity
  <2>1. /\ UNCHANGED <<CONNECTION_CONFIG, config_file, improv, command, promised>>
        /\ boot \notin {"running", "panicked"} /\ boot' # "running"
    BY <1>1 DEF get_identity, write_identity, watch, serial, files
  <2> QED
    BY <2>1 DEF CommandInvariant, ConfigTypes, OneFieldAhead, OrDefault, Running, Fits,
                Configs, NoConfig, default_connection_config
<1>2. CASE LoadConfig
  <2>1. /\ UNCHANGED <<config_file, improv, command, promised>>
        /\ boot = "config" /\ boot' = "running"
        /\ CONNECTION_CONFIG' = get_connection_config
    BY <1>2 DEF LoadConfig, serial, files
  <2>2. improv = "idle"
    BY <2>1 DEF CommandInvariant
  <2>3. OrDefault(get_connection_config) = promised
    BY <2>1, <2>2, LoadedConfig DEF CommandInvariant, ConfigTypes
  <2>4. OrDefault(CONNECTION_CONFIG)' = promised'
    BY <2>1, <2>3 DEF OrDefault, NoConfig, default_connection_config
  <2>5. ConfigTypes'
    BY <2>1, LoadedConfig DEF CommandInvariant, ConfigTypes, Configs, NoConfig
  <2>6. (Fits(config_file) => OrDefault(config_file) = promised)'
    BY <2>1, <2>2 DEF CommandInvariant, Fits, OrDefault, NoConfig,
                      default_connection_config
  <2> QED
    BY <2>1, <2>2, <2>4, <2>5, <2>6 DEF CommandInvariant
<1>3. CASE Command
  BY <1>3, SetStep DEF Command, send_wifi_settings, set_server_identity
<1>4. CASE persist_connection_config
  <2>1. /\ UNCHANGED <<CONNECTION_CONFIG, boot, command, promised>>
        /\ config_file' = CONNECTION_CONFIG
        /\ improv = "persist" /\ improv' = "reply"
    BY <1>4 DEF persist_connection_config, watch, start_up
  <2> QED
    BY <2>1 DEF CommandInvariant, ConfigTypes, OneFieldAhead, Running, Configs, NoConfig
<1>5. CASE Reply
  <2>1. /\ UNCHANGED <<CONNECTION_CONFIG, boot, config_file>>
        /\ improv = "reply" /\ improv' = "idle"
        /\ promised' = [promised EXCEPT ![command.field] = command.value]
    BY <1>5 DEF Reply, watch, start_up, files
  <2>2. /\ config_file = CONNECTION_CONFIG /\ CONNECTION_CONFIG \in Configs
        /\ promised' = CONNECTION_CONFIG
    BY <2>1 DEF CommandInvariant, OneFieldAhead
  <2>3. OrDefault(CONNECTION_CONFIG) = CONNECTION_CONFIG
    BY <2>2, OrDefaultConfig
  <2>4. OrDefault(CONNECTION_CONFIG)' = promised' /\ OrDefault(config_file)' = promised'
    BY <2>1, <2>2, <2>3 DEF OrDefault, NoConfig, default_connection_config
  <2>5. ConfigTypes'
    BY <2>1, <2>2 DEF ConfigTypes, Configs, NoConfig
  <2> QED
    BY <2>1, <2>4, <2>5 DEF CommandInvariant
<1>6. CASE WifiStep
  <2>1. ASSUME NEW c, Running, Configure(c) PROVE CommandInvariant'
    BY <2>1, CommandFrame DEF Configure, serial, files
  <2>2. CASE Start \/ Retry \/ Apply
    BY <2>1, <2>2 DEF Start, Retry, Apply
  <2>3. CASE \/ Scan \/ ConnectOk \/ ConnectFail \/ Disconnected
             \/ Again \/ Changed \/ NoSsid
    BY <2>3, CommandFrame
       DEF Scan, ConnectOk, ConnectFail, Disconnected, Again, Changed, NoSsid,
           start_up, watch, serial, files
  <2> QED
    BY <1>6, <2>2, <2>3 DEF WifiStep
<1>7. CASE LinkLost
  BY <1>7, CommandFrame DEF LinkLost, start_up, watch, serial, files
<1>8. CASE Reset
  <2>1. /\ CONNECTION_CONFIG' = NoConfig /\ UNCHANGED config_file
        /\ improv' = "idle" /\ boot' = "identity"
        /\ promised' = IF improv = "idle" /\ Fits(config_file) THEN promised
                       ELSE OrDefault(get_connection_config)
    BY <1>8 DEF Reset, files
  <2>2. OrDefault(get_connection_config) \in Configs
    BY LoadedConfig, OrDefaultConfig DEF CommandInvariant, ConfigTypes
  <2>3. promised' = OrDefault(get_connection_config)
    BY <2>1, LoadedConfig DEF CommandInvariant, ConfigTypes
  <2>4. ConfigTypes'
    BY <2>1, <2>2, <2>3 DEF CommandInvariant, ConfigTypes, Configs, NoConfig
  <2>5. (Fits(config_file) => OrDefault(config_file) = promised)'
    BY <2>1, <2>3, LoadedConfig
       DEF CommandInvariant, ConfigTypes, OrDefault, Fits, NoConfig,
           default_connection_config
  <2>6. (~Fits(config_file) => promised = default_connection_config)'
    BY <2>1, <2>3, LoadedConfig
       DEF CommandInvariant, ConfigTypes, Fits, default_connection_config
  <2> QED
    BY <2>1, <2>4, <2>5, <2>6 DEF CommandInvariant, Running
<1>9. CASE UNCHANGED vars
  BY <1>9, CommandFrame DEF vars, start_up, watch, serial, files
<1> QED
  BY <1>1, <1>2, <1>3, <1>4, <1>5, <1>6, <1>7, <1>8, <1>9 DEF Next

\* A command that was answered is in force until the power fails, and survives every
\* power failure as long as the config fits in what reads it back; one that was not
\* answered happens entirely or not at all (improv.rs 273-299, config.rs 2-24).
THEOREM CommandsAlwaysSurvive == Spec => []CommandsSurvive
<1>1. Init => CommandInvariant
  BY OrDefaultConfig, ProvisioningAssumption
     DEF Init, CommandInvariant, ConfigTypes, Running, OrDefault, Configs,
         default_connection_config
<1>2. CommandInvariant => CommandsSurvive
  <2> SUFFICES ASSUME CommandInvariant PROVE CommandsSurvive
    OBVIOUS
  <2>1. ASSUME improv = "reply"
        PROVE  OrDefault(config_file) = [promised EXCEPT ![command.field] = command.value]
    BY <2>1, OrDefaultConfig DEF CommandInvariant, OneFieldAhead
  <2> QED
    BY <2>1 DEF CommandInvariant, CommandsSurvive
<1> QED
  BY <1>1, <1>2, CommandStep, PTL DEF Spec
-----------------------------------------------------------------------------
(* The types                                                                *)

Keys == 0 .. MaxResets + 1

\* The parts of TypeOK that the configs of CommandInvariant leave: the start-up with
\* its keys, the serial line, and the radio.
KeysOK ==
  /\ boot \in {"identity", "write_identity", "config", "running", "panicked"}
  /\ private_key \in Keys /\ LT_IDENTITY \in Keys /\ identity_file \in Keys /\ used \in Keys
  /\ resets \in 0 .. MaxResets

SerialOK ==
  /\ unseen \in BOOLEAN
  /\ command \in [field : {"network"}, value : Networks]
                   \cup [field : {"identity"}, value : Identities] \cup {NoCommand}

RadioOK ==
  /\ wifi \in {"start", "scan", "connecting", "connected", "no_ssid", "failed",
               "lost", "apply"}
  /\ client_config \in Networks \cup {NoNetwork}
  /\ new_config \in Configs \cup {NoConfig}
  /\ WIFI_STATUS \in {"Startup", "WifiConnecting", "WifiConnected"}
  /\ link \in Networks \cup {NoNetwork}

\* Every boot makes one key at most, and there are no more boots than power failures.
LEMMA KeysStep == KeysOK /\ [Next]_vars => KeysOK'
<1> SUFFICES ASSUME KeysOK, [Next]_vars PROVE KeysOK'
  OBVIOUS
<1>1. MaxResets \in Nat /\ NewKey \in Keys
  BY ProvisioningAssumption DEF KeysOK, Keys, NewKey
<1>2. CASE get_identity \/ write_identity \/ LoadConfig
  BY <1>1, <1>2 DEF get_identity, write_identity, LoadConfig, Use, files, KeysOK
<1>3. CASE Reset
  BY <1>1, <1>3 DEF Reset, files, KeysOK, Keys
<1>4. CASE WifiStep
  <2>1. boot' \in {boot, "panicked"}
        /\ UNCHANGED <<private_key, LT_IDENTITY, files, used, resets>>
    <3>1. CASE Start \/ Retry \/ Apply
      BY <3>1 DEF Start, Retry, Apply, Configure
    <3>2. CASE \/ Scan \/ ConnectOk \/ ConnectFail \/ Disconnected
               \/ Again \/ Changed \/ NoSsid
      BY <3>2 DEF Scan, ConnectOk, ConnectFail, Disconnected, Again, Changed, NoSsid,
                  start_up
    <3> QED
      BY <1>4, <3>1, <3>2 DEF WifiStep
  <2> QED
    BY <2>1 DEF KeysOK, files
<1>5. CASE \/ Command \/ persist_connection_config \/ Reply
           \/ LinkLost \/ UNCHANGED vars
  <2>1. UNCHANGED <<start_up, identity_file, used, resets>>
    BY <1>5 DEF Command, send_wifi_settings, set_server_identity, Set, Reply, LinkLost,
                persist_connection_config, vars, files
  <2> QED
    BY <2>1 DEF KeysOK, start_up
<1> QED
  BY <1>2, <1>3, <1>4, <1>5 DEF Next

\* A command is one of the two there are.
LEMMA SerialStep == SerialOK /\ [Next]_vars => SerialOK'
<1> SUFFICES ASSUME SerialOK, [Next]_vars PROVE SerialOK'
  OBVIOUS
<1>1. CASE get_identity \/ write_identity \/ LoadConfig
  BY <1>1 DEF get_identity, write_identity, LoadConfig, watch, serial, SerialOK
<1>2. ASSUME NEW field, NEW value, Set(field, value),
             \/ field = "network" /\ value \in Networks
             \/ field = "identity" /\ value \in Identities
      PROVE  SerialOK'
  <2>1. unseen' = TRUE /\ command' = [field |-> field, value |-> value]
    BY <1>2 DEF Set
  <2>2. \/ command' \in [field : {"network"}, value : Networks]
        \/ command' \in [field : {"identity"}, value : Identities]
    BY <1>2, <2>1
  <2> QED
    BY <2>1, <2>2 DEF SerialOK, NoCommand
<1>3. CASE persist_connection_config \/ Reply
  BY <1>3 DEF persist_connection_config, Reply, watch, SerialOK
<1>4. CASE WifiStep
  <2>1. unseen' \in {unseen, FALSE} /\ UNCHANGED command
    <3>1. CASE Start \/ Retry \/ Apply
      BY <3>1 DEF Start, Retry, Apply, Configure, serial
    <3>2. CASE \/ Scan \/ ConnectOk \/ ConnectFail \/ Disconnected
               \/ Again \/ Changed \/ NoSsid
      BY <3>2 DEF Scan, ConnectOk, ConnectFail, Disconnected, Again, Changed, NoSsid,
                  watch, serial
    <3> QED
      BY <1>4, <3>1, <3>2 DEF WifiStep
  <2> QED
    BY <2>1 DEF SerialOK
<1>5. CASE LinkLost \/ Reset \/ UNCHANGED vars
  BY <1>5 DEF LinkLost, Reset, vars, watch, serial, SerialOK
<1> QED
  BY <1>1, <1>2, <1>3, <1>4, <1>5
     DEF Next, Command, send_wifi_settings, set_server_identity

\* The radio is given the networks of the configs.
LEMMA RadioStep == RadioOK /\ ConfigTypes /\ [Next]_vars => RadioOK'
<1> SUFFICES ASSUME RadioOK, ConfigTypes, [Next]_vars PROVE RadioOK'
  OBVIOUS
<1>1. \A c \in Configs \cup {NoConfig} : map_config(c) \in Networks \cup {NoNetwork}
  BY DEF Configs, NoConfig, map_config
<1>2. CASE WifiStep
  <2>1. ASSUME NEW c \in Configs \cup {NoConfig}, Configure(c) PROVE RadioOK'
    <3>1. /\ client_config' = map_config(c) /\ wifi' \in {wifi, "scan"}
          /\ UNCHANGED <<new_config, WIFI_STATUS, link>>
      BY <2>1 DEF Configure
    <3> QED
      BY <1>1, <3>1 DEF RadioOK, Configs, NoConfig
  <2>2. CASE Start \/ Retry \/ Apply
    BY <2>1, <2>2 DEF Start, Retry, Apply, ConfigTypes, RadioOK
  <2>3. CASE Changed
    BY <2>3 DEF Changed, RadioOK, ConfigTypes, Configs, NoConfig
  <2>4. CASE \/ Scan \/ ConnectOk \/ ConnectFail \/ Disconnected \/ Again \/ NoSsid
    BY <2>4 DEF Scan, ConnectOk, ConnectFail, Disconnected, Again, NoSsid, RadioOK,
                Configs, NoConfig
  <2> QED
    BY <1>2, <2>2, <2>3, <2>4 DEF WifiStep
<1>3. CASE LinkLost
  BY <1>3 DEF LinkLost, RadioOK, Configs, NoConfig
<1>4. CASE Reset
  BY <1>4 DEF Reset, RadioOK, Configs, NoConfig
<1>5. CASE \/ get_identity \/ write_identity \/ LoadConfig
           \/ Command \/ persist_connection_config \/ Reply \/ UNCHANGED vars
  <2>1. UNCHANGED radio
    BY <1>5 DEF get_identity, write_identity, LoadConfig, Command, send_wifi_settings,
                set_server_identity, Set, persist_connection_config, Reply, vars
  <2> QED
    BY <2>1 DEF RadioOK, radio, Configs, NoConfig
<1> QED
  BY <1>2, <1>3, <1>4, <1>5 DEF Next

\* Every variable of the start-up, the serial line, the files and the WiFi task keeps
\* its type, whenever the power fails.
THEOREM TypeCorrect == Spec => []TypeOK
<1> DEFINE Types == KeysOK /\ SerialOK /\ RadioOK /\ CommandInvariant
<1>1. Init => Types
  <2> SUFFICES ASSUME Init PROVE Types
    OBVIOUS
  <2>1. CommandInvariant
    BY OrDefaultConfig, ProvisioningAssumption
       DEF Init, CommandInvariant, ConfigTypes, Running, OrDefault, Configs,
           default_connection_config
  <2>2. KeysOK
    BY ProvisioningAssumption DEF Init, KeysOK, Keys
  <2>3. SerialOK
    BY DEF Init, SerialOK
  <2>4. RadioOK
    BY DEF Init, RadioOK
  <2> QED
    BY <2>1, <2>2, <2>3, <2>4
<1>2. Types /\ [Next]_vars => Types'
  BY KeysStep, SerialStep, RadioStep, CommandStep DEF CommandInvariant
<1>3. Types => TypeOK
  BY DEF KeysOK, Keys, SerialOK, RadioOK, CommandInvariant, ConfigTypes, TypeOK
<1> HIDE DEF Types
<1> QED
  BY <1>1, <1>2, <1>3, PTL DEF Spec
=============================================================================
