-------------------------------- MODULE Flow --------------------------------
(***************************************************************************)
(* The `live` run and the in-process self-check of the end-to-end test     *)
(* (flow.rs run_full_flow): sign in, submit one leaf, wait for the seal,   *)
(* fetch both witnesses, verify them, try what must be refused.            *)
(***************************************************************************)
EXTENDS Poll

CONSTANTS
    Served,     \* the bodies a witness request may bring
    MaxDelay    \* bound: ticks the requests before the polls take

ASSUME FlowAssumption ==
    /\ Served \subseteq {"good", "stub", "garbled", "foreign", "unverified", "other root"}
    /\ MaxDelay \in Nat

VARIABLES
    in_process, \* the self-check, which drives the seal and has a second DID
    seal_wait,  \* the caller's deadline for the seal, fixed before the first request
    flow_pc,    \* the request under way, or the end: "passed", "failed"
    fetched,    \* url |-> the witness body fetched
    expected    \* history: the server refused what it must refuse

flowVars == <<in_process, seal_wait, flow_pc, fetched, expected>>

FlowInit ==
    /\ PollInit
    /\ in_process \in BOOLEAN
    /\ seal_wait = 0
    /\ flow_pc = "out"
    /\ fetched = [u \in Witness |-> "none"]
    /\ expected = TRUE

Requests == {"health", "version", "identity", "challenge", "session", "submit"}

\* The one-shot requests in order; each must be answered as expected.
After == [health |-> "version", version |-> "identity", identity |-> "challenge",
          challenge |-> "session", session |-> "submit",
          submit |-> IF in_process THEN "drive" ELSE "begin"]

FlowStart ==
    /\ flow_pc = "out"
    /\ flow_pc' = "health"
    /\ seal_wait' = now + Budget
    /\ UNCHANGED <<in_process, fetched, expected, pollVars>>

\* /health, /version, /.well-known/aqua-identity, mint_bearer, POST /v1/leaves.
Request(ok) ==
    /\ flow_pc \in Requests
    /\ flow_pc' = IF ok THEN After[flow_pc] ELSE "failed"
    /\ UNCHANGED <<in_process, seal_wait, fetched, expected, pollVars>>

\* The in-process run seals the epoch itself.
Drive ==
    /\ flow_pc = "drive"
    /\ flow_pc' = "begin"
    /\ IF ~ready["schedule"] THEN Happens("schedule") ELSE UNCHANGED pollVars
    /\ UNCHANGED <<in_process, seal_wait, fetched, expected>>

\* Requests take time.
Delay ==
    /\ flow_pc \in Requests /\ now <= MaxDelay
    /\ now' = now + 1
    /\ UNCHANGED <<poll_pc, deadline, wake, ready, excused>>

\* The wait is bounded by seal_wait and by twice the time until the epoch
\* closes (dyn), which is a minute at least.
BeginWait(dyn) ==
    /\ flow_pc = "begin"
    /\ flow_pc' = "wait"
    /\ BeginPoll({"schedule"}, "doze", LeastOf(seal_wait, now + dyn))
    /\ UNCHANGED <<in_process, seal_wait, fetched, expected>>

EndWait ==
    /\ flow_pc = "wait" /\ poll_pc["schedule"] \in {"ok", "timeout", "final"}
    /\ IF poll_pc["schedule"] = "ok"
         THEN flow_pc' = "fetch" /\ BeginPoll(Witness, "read", now + Budget)
         ELSE flow_pc' = "failed" /\ UNCHANGED pollVars
    /\ UNCHANGED <<in_process, seal_wait, fetched, expected>>

\* Both fetches are over (tokio::join): both bodies are parsed, or none counts.
EndFetch(bodies) ==
    /\ flow_pc = "fetch" /\ \A u \in Witness : poll_pc[u] \in {"ok", "timeout", "final"}
    /\ fetched' = [u \in Witness |-> IF poll_pc[u] = "ok" THEN bodies[u] ELSE "none"]
    /\ flow_pc' = "parse"
    /\ UNCHANGED <<in_process, seal_wait, expected, pollVars>>

\* parse_served: two revisions, T and P.
Parses(b) == b \notin {"none", "garbled"}

\* parse_witness: no stub.
ParseBoth ==
    /\ flow_pc = "parse"
    /\ flow_pc' = IF \A u \in Witness : Parses(fetched[u]) /\ fetched[u] # "stub"
                    THEN "verify" ELSE "failed"
    /\ UNCHANGED <<in_process, seal_wait, fetched, expected, pollVars>>

\* Faulty variant: the signer is not compared.
verify_any_signer ==
    /\ flow_pc = "verify"
    /\ flow_pc' = IF \A u \in Witness : fetched[u] \notin {"unverified", "other root"}
                    THEN "negative" ELSE "failed"
    /\ UNCHANGED <<in_process, seal_wait, fetched, expected, pollVars>>

\* verify_with_sdk: no error on T or P, the anchor verified, P signed by the
\* server; and both anchors cover one root.
verify_with_sdk ==
    /\ flow_pc = "verify"
    /\ flow_pc' = IF \A u \in Witness : fetched[u] \notin {"unverified", "foreign", "other root"}
                    THEN "negative" ELSE "failed"
    /\ UNCHANGED <<in_process, seal_wait, fetched, expected, pollVars>>

\* A foreign DID is refused (self-check only), and so is a POST without token.
Negatives(forbidden, unauthorized) ==
    /\ flow_pc = "negative"
    /\ LET ok == (in_process => forbidden) /\ unauthorized
       IN  /\ expected' = ok
           /\ flow_pc' = IF ok THEN "passed" ELSE "failed"
    /\ UNCHANGED <<in_process, seal_wait, fetched, pollVars>>

FlowStep ==
    \/ FlowStart
    \/ \E ok \in BOOLEAN : Request(ok)
    \/ Drive
    \/ \E dyn \in {Interval, Interval + Budget} : BeginWait(dyn)
    \/ EndWait
    \/ \E bodies \in [Witness -> Served] : EndFetch(bodies)
    \/ ParseBoth
    \/ verify_with_sdk
    \/ \E f, u \in BOOLEAN : Negatives(f, u)
    \/ PollNext /\ UNCHANGED flowVars

FlowNext ==
    \/ FlowStep
    \/ \E u \in Url : Happens(u) /\ UNCHANGED flowVars
    \/ (Tick \/ Delay) /\ UNCHANGED flowVars

FlowSpec == FlowInit /\ [][FlowNext]_<<pollVars, flowVars>>

----------------------------------------------------------------------------
(* Properties. *)

\* The flow passes only with the epoch sealed, both anchors settled, both
\* witnesses genuine, signed by the server and over one root, and what must be
\* refused refused.
FlowPassIsSound ==
    flow_pc = "passed" =>
        /\ \A u \in Url : ready[u]
        /\ \A u \in Witness : fetched[u] = "good"
        /\ expected

\* The inductive form: what each stage of the flow has established.
FlowInv ==
    /\ PollInv
    /\ seal_wait \in Nat
    /\ flow_pc \in {"out"} \cup Requests => \A u \in Url : poll_pc[u] = "off"
    /\ fetched \in [Witness -> Served \cup {"none"}]
    /\ flow_pc \in {"fetch", "parse", "verify", "negative", "passed"} => ready["schedule"]
    /\ \A u \in Witness :
          /\ flow_pc \in {"parse", "verify", "negative", "passed"} =>
                (fetched[u] # "none" => ready[u])
          /\ flow_pc \in {"verify", "negative", "passed"} =>
                fetched[u] \notin {"none", "garbled", "stub"}
          /\ flow_pc \in {"negative", "passed"} => fetched[u] = "good"
    /\ flow_pc = "passed" => expected

============================================================================
