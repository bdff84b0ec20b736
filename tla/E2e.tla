-------------------------------- MODULE E2e --------------------------------
(***************************************************************************)
(* The end-to-end test as a program (e2e main.rs): a command checks its    *)
(* base URL, takes the standing identity and then runs the flow or the     *)
(* seal.  Other runs may use the identity directory at the same time; that *)
(* is the command "identity", in which nothing follows.                    *)
(***************************************************************************)
EXTENDS StandingIdentity, Flow, SealRun

CONSTANTS
    Main,       \* the run followed to its end; its base URL is loopback
    Commands    \* the commands explored

ASSUME E2eAssumption ==
    /\ Main \in Proc \ Remote
    /\ Commands \subseteq {"identity", "live", "selfcheck", "seal"}

VARIABLE cmd    \* the command, or "refused"

e2eVars == <<cmd, idVars, pollVars, flowVars, sealVars>>

E2eInit ==
    /\ cmd \in Commands
    /\ IdInit
    /\ FlowInit /\ in_process = (cmd = "selfcheck")
    /\ SealInit /\ (cmd # "seal" => target = "loopback")

Idle == UNCHANGED <<pollVars, flowVars, sealVars>>

\* check_base_url: production without --allow-production, or no URL at all.
check_base_url ==
    /\ cmd \in {"live", "seal"} /\ id_pc[Main] = "out"
    /\ cmd' = "refused"
    /\ UNCHANGED idVars /\ Idle

TakeIdentity ==
    /\ cmd \in {"live", "selfcheck", "seal"}
    /\ IdStep(Main)
    /\ UNCHANGED cmd /\ Idle

RaceForIdentity ==
    /\ cmd = "identity"
    /\ IdNext
    /\ UNCHANGED cmd /\ Idle

RunFlow ==
    /\ cmd \in {"live", "selfcheck"} /\ id_pc[Main] = "held"
    /\ FlowStep
    /\ UNCHANGED <<cmd, idVars, sealVars>>

\* A flow is under way: meanwhile the server settles things and time goes on.
FlowRuns ==
    /\ cmd \in {"live", "selfcheck"} /\ id_pc[Main] = "held"
    /\ flow_pc \notin {"passed", "failed"}

ServerMoves ==
    /\ FlowRuns
    /\ \E u \in Url : Happens(u)
    /\ UNCHANGED <<cmd, idVars, flowVars, sealVars>>

ClockTicks ==
    /\ FlowRuns
    /\ Tick \/ Delay
    /\ UNCHANGED <<cmd, idVars, flowVars, sealVars>>

RunSeal ==
    /\ cmd = "seal" /\ id_pc[Main] = "held"
    /\ SealNext
    /\ UNCHANGED <<cmd, idVars, pollVars, flowVars>>

E2eNext ==
    \/ check_base_url
    \/ TakeIdentity
    \/ RaceForIdentity
    \/ RunFlow
    \/ ServerMoves
    \/ ClockTicks
    \/ RunSeal

E2eSpec == E2eInit /\ [][E2eNext]_e2eVars

\* The test's tasks are scheduled, requests end (with an answer or by their
\* timeout), and time goes on.
E2eFairSpec ==
    /\ E2eSpec
    /\ WF_e2eVars(TakeIdentity)
    /\ WF_e2eVars(RunFlow)
    /\ WF_e2eVars(ClockTicks)

----------------------------------------------------------------------------
(* Properties. *)

\* Every flow that starts ends, with a verdict: failing reads, a lost answer or
\* an anchor that stays pending do not keep it going.
FlowEnds == (flow_pc = "health") ~> (flow_pc \in {"passed", "failed"})

============================================================================
