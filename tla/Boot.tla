-------------------------------- MODULE Boot --------------------------------
(***************************************************************************)
(* The start of a server process: main, ServiceIdentity::from_env and      *)
(* build_app_with_anchors.  A deployment is the configuration together     *)
(* with what the caller injects; the start checks it, wires a provider and *)
(* a self-check host per enabled anchor method, spawns the tasks and binds *)
(* the listener.                                                           *)
(*                                                                         *)
(*   load --> checks --> store --> wire --> spawn --> bind --> up          *)
(*     +--------+----------+--------+---------+-------+----> refused       *)
(***************************************************************************)
EXTENDS Naturals, FiniteSets

CONSTANTS
    Deployments     \* the deployments explored

\* Values of [anchors.evm].chain.  "custom" parses to a chain id no payload
\* label of the SDK reads back; "typo" does not parse.
ChainName == {"sepolia", "mainnet", "custom", "typo"}

AnchorMethod == {"evm", "qtsa"}

\* How a provider or a host came to be.
Source == {"none", "config", "injected"}

Deployment ==
    [entry        : {"main", "in_process"},   \* who calls build_app
     identity     : BOOLEAN,                  \* a wallet derives from the mnemonic
     enabled      : SUBSET AnchorMethod,      \* [anchors.*].enabled
     rpc_url      : BOOLEAN,                  \* [anchors.evm].rpc_url is not empty
     url          : BOOLEAN,                  \* [anchors.qtsa].url is not empty
     chain        : ChainName,
     labels       : SUBSET {"sepolia", "mainnet"},    \* the two deprecated labels
     timeout      : BOOLEAN,                  \* not_found_timeout_secs > 0
     injected     : SUBSET AnchorMethod,      \* AnchorOverrides: providers
     injectedHost : SUBSET AnchorMethod,      \* AnchorOverrides: check hosts
     driver       : {"interval", "channel", "off"},
     bonding      : BOOLEAN,                  \* [bonding_curve].enabled
     leaderboard  : BOOLEAN,                  \* [leaderboard].enabled
     wallet       : BOOLEAN]                  \* the watched address parses

\* main injects nothing and drives the sealer by time.
ASSUME BootAssumption ==
    /\ Deployments \subseteq Deployment
    /\ Deployments # {}
    /\ \A d \in Deployments :
          d.entry = "main" => d.injected = {} /\ d.injectedHost = {} /\ d.driver = "interval"

VARIABLES
    cfg,        \* the deployment of this process
    boot_pc,
    provider,   \* WitnessContext: method |-> Source of its provider
    host,       \* WitnessContext: method |-> Source of its self-check host
    tasks       \* the background tasks of this process

bootVars == <<cfg, boot_pc, provider, host, tasks>>

Nothing == [m \in AnchorMethod |-> "none"]

BootTypeOK ==
    /\ cfg \in Deployments
    /\ boot_pc \in {"load", "checks", "store", "wire", "spawn", "bind", "up", "refused"}
    /\ provider \in [AnchorMethod -> Source]
    /\ host \in [AnchorMethod -> Source]
    /\ tasks \subseteq {"interval", "bonding_curve", "channel", "watcher"}

BootInit ==
    /\ cfg \in Deployments
    /\ boot_pc = "load"
    /\ provider = Nothing
    /\ host = Nothing
    /\ tasks = {}

----------------------------------------------------------------------------
(* The configuration (config.rs). *)

\* evm_chain: the chain a name stands for, if any.
evm_chain(name) == IF name = "typo" THEN "invalid" ELSE name

\* EvmChain::network_claim read back by evm_chain_id_for_network: the chain a
\* reader finds in the payload of an anchor on chain c.
ReadBack(c) == IF c = "custom" THEN "unknown" ELSE c

\* check_enabled_anchors, for the methods ms.
check_enabled_anchors(d, ms) ==
    /\ "evm" \in ms => d.identity /\ d.rpc_url /\ evm_chain(d.chain) # "invalid"
    /\ "qtsa" \in ms => d.url

\* Faulty variant: an injected provider skips the check.
check_evm_chain_source_live(d) ==
    "evm" \in d.enabled \ d.injected =>
        /\ evm_chain(d.chain) # "invalid"
        /\ d.timeout
        /\ ReadBack(evm_chain(d.chain)) = evm_chain(d.chain)
        /\ \A l \in d.labels : l = evm_chain(d.chain)

\* check_evm_chain_source: one chain, also for an injected provider.
check_evm_chain_source(d) ==
    "evm" \in d.enabled =>
        /\ evm_chain(d.chain) # "invalid"
        /\ d.timeout
        /\ ReadBack(evm_chain(d.chain)) = evm_chain(d.chain)
        /\ \A l \in d.labels : l = evm_chain(d.chain)

----------------------------------------------------------------------------
(* The steps of the start. *)

Go(pc_, p, h, ts) ==
    /\ boot_pc' = pc_
    /\ provider' = p
    /\ host' = h
    /\ tasks' = ts
    /\ UNCHANGED cfg

Refuse == Go("refused", provider, host, {})

\* from_env refuses without a usable mnemonic.
from_env ==
    /\ boot_pc = "load"
    /\ IF cfg.identity THEN Go("checks", provider, host, tasks) ELSE Refuse

\* The configuration checks; only methods without an injected provider need
\* provider settings.
Checks ==
    /\ boot_pc = "checks"
    /\ IF /\ check_enabled_anchors(cfg, cfg.enabled \ cfg.injected)
          /\ check_evm_chain_source(cfg)
         THEN Go("store", provider, host, tasks)
         ELSE Refuse

\* Store::open and the last sealed epoch, read to number the next one.
OpenStore == boot_pc = "store" /\ Go("wire", provider, host, tasks)

StoreFails == boot_pc = "store" /\ Refuse

\* Provider and host of method m: injected, or made from the configuration; an
\* override of a disabled method is dropped.
Wired(m, overrides) ==
    CASE m \notin cfg.enabled -> "none"
      [] m \in cfg.enabled /\ m \in overrides -> "injected"
      [] OTHER -> "config"

\* WitnessContext::validate: providers, hosts, and the service DID, which the
\* identity brings.
validate(p, h) ==
    /\ \A m \in cfg.enabled : p[m] # "none" /\ h[m] # "none"
    /\ cfg.identity

Wire ==
    /\ boot_pc = "wire"
    /\ LET p == [m \in AnchorMethod |-> Wired(m, cfg.injected)]
           h == [m \in AnchorMethod |-> Wired(m, cfg.injectedHost)]
       IN  IF validate(p, h) THEN Go("spawn", p, h, tasks) ELSE Refuse

\* The seal task of the driver.
SealTask ==
    CASE cfg.driver = "interval" /\ cfg.bonding  -> {"bonding_curve"}
      [] cfg.driver = "interval" /\ ~cfg.bonding -> {"interval"}
      [] cfg.driver = "channel" -> {"channel"}
      [] cfg.driver = "off" -> {}

\* The watcher task; a wallet that does not parse is only logged.
WatcherTask == IF cfg.leaderboard /\ cfg.wallet THEN {"watcher"} ELSE {}

Spawn ==
    /\ boot_pc = "spawn"
    /\ Go("bind", provider, host, SealTask \cup WatcherTask)

\* main binds after the tasks run; when it cannot, the runtime goes down with
\* them.
Bind == boot_pc = "bind" /\ Go("up", provider, host, tasks)

BindFails ==
    /\ boot_pc = "bind"
    /\ cfg.entry = "main"
    /\ Refuse

BootStep ==
    \/ from_env
    \/ Checks
    \/ OpenStore
    \/ StoreFails
    \/ Wire
    \/ Spawn
    \/ Bind
    \/ BindFails

----------------------------------------------------------------------------
(* Properties. *)

\* A process that runs a seal task can serve what it anchors: each enabled
\* method, and no other, has a provider and a host; and an EVM anchor names, in
\* its payload and in every label of the configuration, the chain the self-check
\* looks it up on, so that no epoch spends a transaction on a witness that can
\* never verify (D51, OW1.6).
SealsWhatItCanServe ==
    tasks \cap {"interval", "bonding_curve", "channel"} # {} =>
        /\ \A m \in AnchorMethod :
              /\ provider[m] # "none" <=> m \in cfg.enabled
              /\ host[m] # "none" <=> m \in cfg.enabled
        /\ "evm" \in cfg.enabled =>
              /\ cfg.timeout
              /\ {ReadBack(evm_chain(cfg.chain))} \cup cfg.labels = {evm_chain(cfg.chain)}

\* The inductive form: what the checks and the wiring established holds from
\* there on, and tasks run only after both.
BootInv ==
    /\ tasks # {} => boot_pc \in {"bind", "up"}
    /\ boot_pc \in {"store", "wire", "spawn", "bind", "up"} => check_evm_chain_source(cfg)
    /\ boot_pc \in {"spawn", "bind", "up"} => \A m \in AnchorMethod :
          /\ provider[m] # "none" <=> m \in cfg.enabled
          /\ host[m] # "none" <=> m \in cfg.enabled

=============================================================================
