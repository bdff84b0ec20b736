----------------------------- MODULE MCFunding -----------------------------
(* TLC instance of Funding. *)
EXTENDS Funding, TLC

CONSTANTS s1

\* Every wiring, from main and in process, without the tasks on the chain.
Wirings ==
    {d \in Deployment :
        /\ ~d.bonding /\ ~d.leaderboard /\ d.wallet
        /\ d.entry = "main" => d.injected = {} /\ d.injectedHost = {} /\ d.driver = "interval"
        /\ d.entry = "in_process" => d.identity /\ d.driver # "off"
        /\ "evm" \notin d.enabled => d.timeout /\ d.labels = {}
        /\ "qtsa" \notin d.enabled => d.url}

\* One task on the chain at a time, over the default anchors: the two share
\* nothing but the chain.
Tasks ==
    {[entry |-> "main", identity |-> TRUE, enabled |-> {"evm", "qtsa"}, rpc_url |-> TRUE,
      url |-> TRUE, chain |-> "sepolia", labels |-> {}, timeout |-> TRUE, injected |-> {},
      injectedHost |-> {}, driver |-> "interval", bonding |-> b, leaderboard |-> TRUE,
      wallet |-> ~b] : b \in BOOLEAN}

MCDeployments == Wirings \cup Tasks

\* max(1, ceil(1 / r)) for n_half = 2, at b / g = 0.5, 1, 1.5 and more.
MCBlockInterval ==
    [p \in (1..MaxBalance) \X (1..MaxGas) |->
        CASE 2 * p[1] = p[2] -> 5
          [] p[1] = p[2] -> 3
          [] OTHER -> 2]
=============================================================================
