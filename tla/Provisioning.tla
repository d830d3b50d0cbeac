---------------------------- MODULE Provisioning ----------------------------
(***************************************************************************)
(* How the reader gets its configuration: start-up (src/src/init.rs,       *)
(* src/src/config.rs), the Improv commands on the serial line              *)
(* (src/src/improv.rs), the watch CONNECTION_CONFIG, and the WiFi task     *)
(* that follows it (src/src/net/mod.rs).  The power may fail at any time.  *)
(*                                                                         *)
(* A file is the content that was written, whole or not at all, as         *)
(* littlefs makes it.  A config is read back through a buffer that not     *)
(* every config fits in.                                                   *)
(***************************************************************************)
EXTENDS Naturals

CONSTANTS
  Networks,     \* what a command may set: SSID and password
  NoNetwork,
  Nameless,     \* networks whose SSID is empty, NoNetwork to the WiFi task
  Refused,      \* networks the radio's driver does not accept
  Oversized,    \* networks with which a config takes more than 256 bytes
  Identities, Zero,   \* identities of a server; Zero is the default one
  MaxResets     \* bound: power failures

ASSUME ProvisioningAssumption ==
  /\ NoNetwork \notin Refused \cup Oversized
  /\ Zero \in Identities /\ "none" \notin Identities   \* see NoConfig
  /\ MaxResets \in Nat

VARIABLES
  boot, private_key,          \* main(): see TypeOK
  LT_IDENTITY,                \* the reader's own key, 0 before it is known
  CONNECTION_CONFIG,          \* the watch,
  unseen,                     \* and whether the WiFi task has yet to see it
  improv, command,            \* the Improv task, and the field it sets
  wifi, client_config, new_config, WIFI_STATUS,   \* the WiFi task
  link,                       \* the network the radio is connected to
  identity_file, config_file,
  resets,
  used, promised              \* history: the first LT_IDENTITY; what commands
                              \* have been answered

start_up == <<boot, private_key, LT_IDENTITY>>
watch == <<CONNECTION_CONFIG, unseen>>
serial == <<improv, command, promised>>
radio == <<wifi, client_config, new_config, WIFI_STATUS, link>>
files == <<identity_file, config_file>>
vars == <<start_up, watch, serial, radio, files, resets, used>>

Configs == [network : Networks \cup {NoNetwork}, identity : Identities]
NoConfig == [network |-> NoNetwork, identity |-> "none"]
NoCommand == [field |-> "none", value |-> "none"]

default_connection_config == [network |-> NoNetwork, identity |-> Zero]

\* Mutant: there is no default.
OrDefault_none(c) == c

OrDefault(c) == IF c = NoConfig THEN default_connection_config ELSE c

\* The other field, an identity of 32 bytes, does not change a config's size.
Fits(c) == c.network \notin Oversized

\* read::<256> gives the beginning of a config that is longer, and that does not
\* decode.
get_connection_config == IF Fits(config_file) THEN config_file ELSE NoConfig

\* The next key that is made: no boot makes two.
NewKey == resets + 1

TypeOK ==
  /\ boot \in {"identity", "write_identity", "config", "running", "panicked"}
  /\ private_key \in 0 .. MaxResets + 1 /\ LT_IDENTITY \in 0 .. MaxResets + 1
  /\ CONNECTION_CONFIG \in Configs \cup {NoConfig} /\ unseen \in BOOLEAN
  /\ improv \in {"idle", "persist", "reply"}
  /\ command \in [field : {"network"}, value : Networks]
                   \cup [field : {"identity"}, value : Identities] \cup {NoCommand}
  \* before its first step; scanning; connecting; connected; without a network;
  \* after a failed attempt; after a lost link; about to use a new config
  /\ wifi \in {"start", "scan", "connecting", "connected", "no_ssid", "failed",
               "lost", "apply"}
  /\ client_config \in Networks \cup {NoNetwork}
  /\ new_config \in Configs \cup {NoConfig}
  /\ WIFI_STATUS \in {"Startup", "WifiConnecting", "WifiConnected"}
  /\ link \in Networks \cup {NoNetwork}
  /\ identity_file \in 0 .. MaxResets + 1 /\ config_file \in Configs \cup {NoConfig}
  /\ resets \in 0 .. MaxResets
  /\ used \in 0 .. MaxResets + 1 /\ promised \in Configs

Init ==
  /\ boot = "identity" /\ private_key = 0 /\ LT_IDENTITY = 0
  /\ CONNECTION_CONFIG = NoConfig /\ unseen = FALSE
  /\ improv = "idle" /\ command = NoCommand
  /\ wifi = "start" /\ client_config = NoNetwork /\ new_config = NoConfig
  /\ WIFI_STATUS = "Startup" /\ link = NoNetwork
  /\ identity_file = 0 /\ config_file = NoConfig
  /\ resets = 0
  /\ used = 0 /\ promised = default_connection_config

-----------------------------------------------------------------------------
(* Start-up                                                                 *)

Use(key) ==
  /\ LT_IDENTITY' = key
  /\ used' = IF used = 0 THEN key ELSE used

\* get_identity() finds a key, or makes one,
get_identity ==
  /\ boot = "identity"
  /\ IF identity_file # 0
     THEN Use(identity_file) /\ boot' = "config" /\ UNCHANGED private_key
     ELSE private_key' = NewKey /\ boot' = "write_identity" /\ UNCHANGED <<LT_IDENTITY, used>>
  /\ UNCHANGED <<watch, serial, radio, files, resets>>

\* Mutant: the key is used before it is written.
write_identity_late ==
  /\ boot = "write_identity"
  /\ IF LT_IDENTITY = 0
     THEN Use(private_key) /\ UNCHANGED <<boot, identity_file>>
     ELSE identity_file' = private_key /\ boot' = "config" /\ UNCHANGED <<LT_IDENTITY, used>>
  /\ UNCHANGED <<private_key, watch, serial, radio, config_file, resets>>

\* which it writes before it returns it.
write_identity ==
  /\ boot = "write_identity"
  /\ identity_file' = private_key
  /\ Use(private_key)
  /\ boot' = "config"
  /\ UNCHANGED <<private_key, watch, serial, radio, config_file, resets>>

\* The config, if there is one, and the tasks.
LoadConfig ==
  /\ boot = "config"
  /\ boot' = "running"
  /\ CONNECTION_CONFIG' = get_connection_config
  /\ unseen' = (get_connection_config # NoConfig)
  /\ UNCHANGED <<private_key, LT_IDENTITY, serial, radio, files, resets, used>>

-----------------------------------------------------------------------------
(* The Improv task.  The file system's lock is free, so a command is one    *)
(* stretch without a wait: no task runs in between, but the power may fail. *)

Set(field, value) ==
  /\ boot = "running" /\ improv = "idle"
  /\ CONNECTION_CONFIG' = [OrDefault(CONNECTION_CONFIG) EXCEPT ![field] = value]
  /\ unseen' = TRUE
  /\ command' = [field |-> field, value |-> value]
  /\ improv' = "persist"
  /\ UNCHANGED <<promised, start_up, radio, files, resets, used>>

send_wifi_settings(n) == Set("network", n)

set_server_identity(s) == Set("identity", s)

\* Mutant: the answer comes first.
persist_connection_config_late ==
  /\ improv = "persist"
  /\ improv' = "reply"
  /\ UNCHANGED <<command, promised, start_up, watch, radio, files, resets, used>>

persist_connection_config ==
  /\ improv = "persist"
  /\ config_file' = CONNECTION_CONFIG
  /\ improv' = "reply"
  /\ UNCHANGED <<command, promised, start_up, watch, radio, identity_file, resets, used>>

\* send_command_result
Reply ==
  /\ improv = "reply"
  /\ promised' = [promised EXCEPT ![command.field] = command.value]
  /\ improv' = "idle" /\ command' = NoCommand
  /\ UNCHANGED <<start_up, watch, radio, files, resets, used>>

-----------------------------------------------------------------------------
(* The WiFi task                                                            *)

Running == boot = "running" /\ improv = "idle"

\* map_config, of which an empty SSID is all that the task looks at.
map_config(c) == IF c.network \in Nameless THEN NoNetwork ELSE c.network

HasSsid == client_config # NoNetwork

\* The config `c` is used; the result of set_configuration is unwrapped.
Configure(c) ==
  /\ client_config' = map_config(c)
  /\ IF map_config(c) \in Refused
     THEN boot' = "panicked" /\ UNCHANGED wifi
     ELSE wifi' = "scan" /\ UNCHANGED boot
  /\ UNCHANGED <<private_key, LT_IDENTITY, CONNECTION_CONFIG, serial, new_config,
                 WIFI_STATUS, link, files, resets, used>>

Start ==
  /\ Running /\ wifi = "start"
  /\ Configure(CONNECTION_CONFIG)
  /\ unseen' = FALSE

\* The top of the loop: the radio is started if it was stopped, and scans.
Scan ==
  /\ Running /\ wifi = "scan"
  /\ IF HasSsid
     THEN wifi' = "connecting" /\ WIFI_STATUS' = "WifiConnecting"
     ELSE wifi' = "no_ssid" /\ UNCHANGED WIFI_STATUS
  /\ UNCHANGED <<start_up, watch, serial, client_config, new_config, link, files,
                 resets, used>>

ConnectOk ==
  /\ Running /\ wifi = "connecting"
  /\ link' = client_config
  /\ WIFI_STATUS' = "WifiConnected"
  /\ wifi' = "connected"
  /\ UNCHANGED <<start_up, watch, serial, client_config, new_config, files, resets, used>>

ConnectFail ==
  /\ Running /\ wifi = "connecting"
  /\ wifi' = "failed"
  /\ UNCHANGED <<start_up, watch, serial, client_config, new_config, WIFI_STATUS, link,
                 files, resets, used>>

\* Mutant: the config is marked as seen and not used.
Retry_same ==
  /\ Running /\ wifi = "failed"
  /\ wifi' = "scan"
  /\ unseen' = FALSE
  /\ UNCHANGED <<start_up, CONNECTION_CONFIG, serial, client_config, new_config,
                 WIFI_STATUS, link, files, resets, used>>

\* A second later, the config is read again.
Retry ==
  /\ Running /\ wifi = "failed"
  /\ Configure(CONNECTION_CONFIG)
  /\ unseen' = FALSE

\* Mutant: the event does not end the wait.
Disconnected_ignored == Running /\ wifi = "connected" /\ link = NoNetwork /\ UNCHANGED vars

\* StaDisconnected, the first arm of the select.
Disconnected ==
  /\ Running /\ wifi = "connected" /\ link = NoNetwork
  /\ WIFI_STATUS' = "WifiConnecting"
  /\ wifi' = "lost"
  /\ UNCHANGED <<start_up, watch, serial, client_config, new_config, link, files,
                 resets, used>>

\* A second later.
Again ==
  /\ Running /\ wifi = "lost"
  /\ wifi' = "scan"
  /\ UNCHANGED <<start_up, watch, serial, client_config, new_config, WIFI_STATUS, link,
                 files, resets, used>>

\* A new config, with a network in use or without; the radio is stopped,
Changed ==
  /\ Running /\ unseen
  /\ wifi = "no_ssid" \/ (wifi = "connected" /\ link # NoNetwork)
  /\ new_config' = CONNECTION_CONFIG
  /\ unseen' = FALSE
  /\ link' = NoNetwork
  /\ wifi' = "apply"
  /\ UNCHANGED <<start_up, CONNECTION_CONFIG, serial, client_config, WIFI_STATUS, files,
                 resets, used>>

\* and the config is used, which may not be the latest by then.
Apply == /\ Running /\ wifi = "apply" /\ Configure(new_config) /\ UNCHANGED unseen

NoSsid ==
  /\ Running /\ wifi = "no_ssid"
  /\ wifi' = "scan"
  /\ UNCHANGED <<start_up, watch, serial, client_config, new_config, WIFI_STATUS, link,
                 files, resets, used>>

-----------------------------------------------------------------------------
\* The access point goes away, while the task waits for that.
LinkLost ==
  /\ wifi = "connected" /\ link # NoNetwork
  /\ link' = NoNetwork
  /\ UNCHANGED <<start_up, watch, serial, wifi, client_config, new_config, WIFI_STATUS,
                 files, resets, used>>

\* The power fails and comes back.  Whoever sent a command that was not answered
\* has to look which config there is, and a config that cannot be read back takes
\* what was answered before with it.
Reset ==
  /\ resets < MaxResets
  /\ resets' = resets + 1
  /\ boot' = "identity" /\ private_key' = 0 /\ LT_IDENTITY' = 0
  /\ CONNECTION_CONFIG' = NoConfig /\ unseen' = FALSE
  /\ improv' = "idle" /\ command' = NoCommand
  /\ wifi' = "start" /\ client_config' = NoNetwork /\ new_config' = NoConfig
  /\ WIFI_STATUS' = "Startup" /\ link' = NoNetwork
  /\ promised' = IF improv = "idle" /\ Fits(config_file) THEN promised
                 ELSE OrDefault(get_connection_config)
  /\ UNCHANGED <<files, used>>

Command ==
  \/ \E n \in Networks : send_wifi_settings(n)
  \/ \E s \in Identities : set_server_identity(s)

WifiStep ==
  \/ Start \/ Scan \/ ConnectOk \/ ConnectFail \/ Retry
  \/ Disconnected \/ Again \/ Changed \/ Apply \/ NoSsid

Next ==
  \/ get_identity \/ write_identity \/ LoadConfig
  \/ Command \/ persist_connection_config \/ Reply
  \/ WifiStep
  \/ LinkLost \/ Reset

Spec == Init /\ [][Next]_vars

\* Start-up and tasks run, and the radio completes what it is asked for, well or
\* not.  Between two commands the executor polls the WiFi task: strong fairness,
\* because a command is a stretch in which it does not.  A pending change is
\* taken: it is ready when the select is first polled, right after the attempt to
\* connect, the timer of the other arm is not.
FairSpec ==
  /\ Spec
  /\ WF_vars(get_identity \/ write_identity \/ LoadConfig)
  /\ WF_vars(persist_connection_config \/ Reply)
  /\ SF_vars(WifiStep)
  /\ SF_vars(Changed)

-----------------------------------------------------------------------------
\* A command that has been answered is in force until the power fails; as long as
\* the config can be read back it also survives any number of power failures, the
\* fields it does not set included; and one that was not answered happens entirely
\* or not at all (improv.rs 273-299, config.rs 2-24).
CommandsSurvive ==
  /\ Fits(config_file) =>
       \/ OrDefault(config_file) = promised
       \/ /\ improv = "reply"
          /\ OrDefault(config_file) = [promised EXCEPT ![command.field] = command.value]
  /\ Running => OrDefault(CONNECTION_CONFIG) = promised

\* The key the reader was known by once stays its key (config.rs 33-51).
IdentityKept == LT_IDENTITY # 0 => LT_IDENTITY = used

\* The WiFi task uses the latest config, or will be told of it: no branch of its
\* loop takes a change from the watch and forgets it (net/mod.rs 12-81).
NoChangeForgotten ==
  boot = "running" /\ wifi # "start" /\ ~unseen =>
    map_config(CONNECTION_CONFIG) = IF wifi = "apply" THEN map_config(new_config)
                                    ELSE client_config

\* A config that stays is used in the end, in whichever state the WiFi task was
\* when it came, and however often the link is lost (net/mod.rs 51-81).
ConfigApplied ==
  \A n \in Networks \cup {NoNetwork} :
    boot = "running" /\ map_config(CONNECTION_CONFIG) = n
      ~> client_config = n \/ map_config(CONNECTION_CONFIG) # n \/ boot # "running"

\* WIFI_STATUS does not stay at "connected" without a link while there is a network
\* to connect to; without one nobody corrects it (net/mod.rs 33-68, 70-81).
StatusCorrected ==
  boot = "running" /\ WIFI_STATUS = "WifiConnected" /\ link = NoNetwork
    ~> \/ WIFI_STATUS # "WifiConnected" \/ link # NoNetwork
       \/ boot # "running" \/ ~HasSsid
=============================================================================
