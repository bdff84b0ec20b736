------------------------------- MODULE Client -------------------------------
(***************************************************************************)
(* The client crate (client.rs) in use: tasks that share one client build  *)
(* it, submit a leaf and fetch or await its witness, while the server      *)
(* seals, settles, restarts, forgets sessions and changes its key.         *)
(*                                                                         *)
(* TokenCache is every task's ensure_token, KnownServers the program       *)
(* around the client.  The server (auth.rs handlers, and the submission    *)
(* and by-leaf routes as Sealer and Reader model them) is what its answers *)
(* depend on: sessions and nonces in memory, and how far the leaf is.      *)
(***************************************************************************)
EXTENDS TokenCache, KnownServers

CONSTANTS
    SessionCap,     \* sessions the server holds
    MaxIssued,      \* bound: sessions issued
    MaxEpoch,       \* bound: epochs
    MaxRestarts     \* bound: restarts of the server

ASSUME ClientAssumption ==
    /\ Cardinality(Url) = 1     \* one server is followed
    /\ {SessionCap, MaxIssued, MaxEpoch, MaxRestarts} \subseteq Nat

\* The server.
VARIABLES
    challenges, \* callers whose nonce it will take
    sessions,   \* tokens it accepts
    issued,     \* tokens issued so far; a token is its number
    epoch,      \* the open epoch
    last_sealed,\* last_sealed_epoch_id (0: none)
    leaf,       \* how far the leaf is
    signer,     \* the DID that signed its witness
    restarts

\* The client.
VARIABLES
    nonce,      \* callers that hold a nonce
    token,      \* the cached token (0: none)
    bearer,     \* caller |-> the token ensure_token gave it (0: none)
    op,         \* caller |-> its operation
    op_pc,      \* caller |-> where it is
    receipt,    \* caller |-> the epoch of its receipt (0: none)
    result,     \* caller |-> its last operation returned a "pair", Err(Timeout), another
                \* "error", or else
    failed      \* history: caller |-> a request of that operation failed

serverVars == <<challenges, sessions, issued, epoch, last_sealed, leaf, signer, restarts>>
tokenVars == <<nonce, token, bearer>>
opVars == <<op, op_pc, receipt, result, failed>>
clientVars == <<vars, ksVars, serverVars, tokenVars, opVars>>

ClientInit ==
    /\ Init /\ KsInit
    /\ challenges = {} /\ sessions = {} /\ issued = 0
    /\ epoch = 1 /\ last_sealed = 0
    /\ leaf = "unknown"
    /\ signer = NoDid
    /\ restarts = 0
    /\ nonce = {} /\ token = 0
    /\ bearer = [c \in Caller |-> 0]
    /\ op = [c \in Caller |-> "none"]
    /\ op_pc = [c \in Caller |-> "idle"]
    /\ receipt = [c \in Caller |-> 0]
    /\ result = [c \in Caller |-> "none"]
    /\ failed = [c \in Caller |-> FALSE]

----------------------------------------------------------------------------
(* The handshake: authenticate() asks for a nonce and posts the signature. *)

\* GET /auth/challenge.
challenge(c) ==
    /\ pc[c] = "auth" /\ c \notin nonce
    /\ nonce' = nonce \cup {c}
    /\ challenges' = challenges \cup {c}
    /\ UNCHANGED <<vars, ksVars, token, bearer, opVars,
                   sessions, issued, epoch, last_sealed, leaf, signer, restarts>>

\* POST /auth/session: the nonce is spent whatever follows; the store refuses
\* at capacity.
session(c) ==
    LET granted == c \in challenges /\ Cardinality(sessions) < SessionCap
    IN  /\ c \in nonce /\ issued < MaxIssued
        /\ IF granted THEN AuthOk(c) ELSE AuthFails(c)
        /\ nonce' = nonce \ {c}
        /\ challenges' = challenges \ {c}
        /\ issued' = IF granted THEN issued + 1 ELSE issued
        /\ sessions' = IF granted THEN sessions \cup {issued + 1} ELSE sessions
        /\ bearer' = [bearer EXCEPT ![c] = IF granted THEN issued + 1 ELSE 0]
        /\ UNCHANGED <<ksVars, token, opVars, epoch, last_sealed, leaf, signer, restarts>>

\* A request of the handshake fails, or the nonce runs out before the second.
HandshakeFails(c) ==
    /\ AuthFails(c)
    /\ nonce' = nonce \ {c}
    /\ challenges' = challenges \ {c}
    /\ UNCHANGED <<ksVars, token, bearer, opVars,
                   sessions, issued, epoch, last_sealed, leaf, signer, restarts>>

\* The steps of ensure_token that make no request.
TokenStep(c) ==
    /\ Look(c) \/ Claim(c) \/ Park(c) \/ Publish(c) \/ Release(c) \/ Notify(c)
    /\ bearer' = IF pc[c] = "look" /\ cached = "fresh"
                   THEN [bearer EXCEPT ![c] = token] ELSE bearer
    /\ token' = IF pc[c] = "publish" THEN bearer[c] ELSE token
    /\ UNCHANGED <<ksVars, nonce, opVars, serverVars>>

TokenAges ==
    /\ Expire
    /\ UNCHANGED <<ksVars, tokenVars, opVars, serverVars>>

----------------------------------------------------------------------------
(* Operations. *)

OpStep(c, next) ==
    /\ op_pc' = [op_pc EXCEPT ![c] = next]
    /\ UNCHANGED <<op, receipt, result, failed>>

\* The operation returns.
Returns(c, r, failed_) ==
    /\ op' = [op EXCEPT ![c] = "none"]
    /\ op_pc' = [op_pc EXCEPT ![c] = "idle"]
    /\ result' = [result EXCEPT ![c] = r]
    /\ failed' = [failed EXCEPT ![c] = failed_]
    /\ bearer' = [bearer EXCEPT ![c] = 0]
    /\ UNCHANGED <<nonce, token>>

\* c calls ensure_token.
AsksToken(c) ==
    /\ Call(c)
    /\ bearer' = [bearer EXCEPT ![c] = 0]
    /\ UNCHANGED <<nonce, token>>

\* build's own handshake, before there is a client to share.
build(c) ==
    /\ ks_pc = "discovered"
    /\ \A d \in Caller : op[d] = "none"
    /\ AsksToken(c)
    /\ op' = [op EXCEPT ![c] = "build"]
    /\ op_pc' = [op_pc EXCEPT ![c] = "token"]
    /\ result' = [result EXCEPT ![c] = "none"]
    /\ failed' = [failed EXCEPT ![c] = FALSE]
    /\ UNCHANGED <<receipt, ksVars, serverVars>>

\* submit, try_fetch_witness or await_witness is called.
Invoke(c, o) ==
    /\ ks_pc = "ready" /\ op[c] = "none"
    /\ o = "submit" => leaf \in {"unknown", "open"}
    /\ o = "await" => receipt[c] # 0
    /\ op' = [op EXCEPT ![c] = o]
    /\ result' = [result EXCEPT ![c] = "none"]
    /\ failed' = [failed EXCEPT ![c] = FALSE]
    /\ IF o = "await"
         THEN op_pc' = [op_pc EXCEPT ![c] = "nap"] /\ UNCHANGED <<vars, tokenVars>>
         ELSE op_pc' = [op_pc EXCEPT ![c] = "token"] /\ AsksToken(c)
    /\ UNCHANGED <<receipt, ksVars, serverVars>>

\* ensure_token has returned, with a token or an error.
HasToken(c) ==
    /\ op_pc[c] = "token" /\ pc[c] = "out"
    /\ \/ bearer[c] = 0 /\ Returns(c, "error", TRUE) /\ UNCHANGED receipt
       \/ bearer[c] # 0 /\ op[c] = "build" /\ Returns(c, "none", FALSE) /\ UNCHANGED receipt
       \/ bearer[c] # 0 /\ op[c] # "build" /\ OpStep(c, "send") /\ UNCHANGED tokenVars
    /\ \/ op[c] # "build" /\ UNCHANGED ksVars
       \/ op[c] = "build" /\ bearer[c] = 0 /\ Exit
       \/ op[c] = "build" /\ bearer[c] # 0 /\ Built
    /\ UNCHANGED <<vars, serverVars>>

\* BearerDid: the token must be one of the server's sessions.
BearerDid(c) == bearer[c] \in sessions

Sends(c, o) == op_pc[c] = "send" /\ op[c] \in o

\* POST /v1/leaves: taken and answered, taken and the answer lost, or refused.
submit_many(c, answer) ==
    /\ Sends(c, {"submit"})
    /\ answer \in {"accepted", "lost"} => BearerDid(c)
    /\ leaf \in {"unknown", "open"}
    /\ leaf' = IF answer = "refused" THEN leaf ELSE "open"
    /\ IF answer = "accepted"
         THEN Returns(c, "none", FALSE) /\ receipt' = [receipt EXCEPT ![c] = epoch]
         ELSE Returns(c, "error", TRUE) /\ UNCHANGED receipt
    /\ UNCHANGED <<vars, ksVars, challenges, sessions, issued, epoch, last_sealed, signer, restarts>>

\* What /trees/by-leaf answers.
Answer(c) ==
    IF ~BearerDid(c) THEN 401
      ELSE CASE leaf \in {"unknown", "open"} -> 404
             [] leaf = "pending"             -> 202
             [] leaf = "stalled"             -> 503
             [] leaf = "served"              -> 200

\* Faulty variant: any signer will do.
extract_unpinned == "pair"

\* extract_witness_pair: signed by the DID pinned at build.
extract_witness_pair == IF signer = pinned THEN "pair" ELSE "error"

\* try_fetch_witness: 404 is None, other refusals are errors, and every 2xx
\* body is read as a tree, which the 202 body is not.
try_fetch_witness(c) ==
    /\ Sends(c, {"fetch", "await"})
    /\ \/ Answer(c) = 200 /\ Returns(c, extract_witness_pair, signer # pinned)
       \/ Answer(c) = 202 /\ Returns(c, "error", FALSE)
       \/ Answer(c) \in {401, 503} /\ Returns(c, "error", TRUE)
       \/ Answer(c) = 404 /\ op[c] = "await" /\ OpStep(c, "nap") /\ UNCHANGED tokenVars
       \/ Answer(c) = 404 /\ op[c] # "await" /\ Returns(c, "none", FALSE)
    /\ UNCHANGED <<receipt, vars, ksVars, serverVars>>

\* A GET that fails.
RequestFails(c) ==
    /\ Sends(c, {"fetch", "await"}) \/ op_pc[c] = "schedule"
    /\ Returns(c, "error", TRUE)
    /\ UNCHANGED <<receipt, vars, ksVars, serverVars>>

\* await_witness reads the schedule and, once the epoch is sealed, fetches.
schedule(c) ==
    /\ op_pc[c] = "schedule"
    /\ IF receipt[c] <= last_sealed
         THEN OpStep(c, "token") /\ AsksToken(c)
         ELSE OpStep(c, "nap") /\ UNCHANGED <<vars, tokenVars>>
    /\ UNCHANGED <<ksVars, serverVars>>

\* The head of its loop, first and after each sleep: unless the time is up, it
\* looks (again).
await_witness(c, up) ==
    /\ op_pc[c] = "nap"
    /\ IF up THEN Returns(c, "timeout", FALSE) /\ UNCHANGED receipt
             ELSE OpStep(c, "schedule") /\ UNCHANGED tokenVars
    /\ UNCHANGED <<vars, ksVars, serverVars>>

\* The operation is dropped at an await.
Drop(c) ==
    /\ op[c] \notin {"none", "build"}
    /\ IF pc[c] = "out" THEN Cancellation /\ UNCHANGED vars ELSE Cancel(c)
    /\ op' = [op EXCEPT ![c] = "none"]
    /\ op_pc' = [op_pc EXCEPT ![c] = "idle"]
    /\ bearer' = [bearer EXCEPT ![c] = 0]
    /\ nonce' = nonce \ {c}
    /\ challenges' = challenges \ {c}    \* the nonce is never used
    /\ UNCHANGED <<receipt, result, failed, token, ksVars,
                   sessions, issued, epoch, last_sealed, leaf, signer, restarts>>

----------------------------------------------------------------------------
(* The program and the server. *)

\* The program goes on, where it need not wait for the client.
ProgramStep ==
    /\ KsStep
    /\ UNCHANGED <<vars, serverVars, tokenVars, opVars>>

\* The program ends: the client's memory is gone, receipts are kept.
ProgramExits ==
    /\ Exit
    /\ pc' = [c \in Caller |-> "out"]
    /\ in_flight' = FALSE /\ cached' = "none" /\ dropped' = FALSE
    /\ nonce' = {} /\ token' = 0
    /\ bearer' = [c \in Caller |-> 0]
    /\ op' = [c \in Caller |-> "none"]
    /\ op_pc' = [c \in Caller |-> "idle"]
    /\ result' = [c \in Caller |-> "none"]
    /\ failed' = [c \in Caller |-> FALSE]
    /\ challenges' = {}
    /\ UNCHANGED <<threads, calls, expiries, receipt, sessions, issued, epoch, last_sealed, leaf, signer, restarts>>

Others == <<vars, tokenVars, opVars>>

\* seal_once: the open epoch is swapped and persisted; its leaf is lost with it if
\* the write fails.
Seal(ok) ==
    /\ epoch < MaxEpoch
    /\ epoch' = epoch + 1
    /\ last_sealed' = IF ok THEN epoch ELSE last_sealed
    /\ leaf' = IF leaf # "open" THEN leaf ELSE IF ok THEN "pending" ELSE "unknown"
    /\ UNCHANGED <<Others, ksVars, challenges, sessions, issued, signer, restarts>>

\* The anchor is settled and the pair signed, or the method stalls.
SettleLeaf(end) ==
    /\ leaf = "pending"
    /\ leaf' = end
    /\ signer' = IF end = "served" THEN served_did[url] ELSE signer
    /\ UNCHANGED <<Others, ksVars, challenges, sessions, issued, epoch, last_sealed, restarts>>

\* Nonces, sessions and the open epoch are in memory; the key may be another.
RestartServer(d) ==
    /\ restarts < MaxRestarts
    /\ restarts' = restarts + 1
    /\ challenges' = {} /\ sessions' = {}
    /\ leaf' = IF leaf = "open" THEN "unknown" ELSE leaf
    /\ epoch' = last_sealed + 1
    /\ Rotate(url, d)
    /\ UNCHANGED <<Others, issued, last_sealed, signer>>

\* A session runs out, REFRESH_LEAD_SECS after the client stopped using it.
SessionExpires(t) ==
    /\ t \in sessions
    /\ ~(token = t /\ cached = "fresh")
    /\ \A c \in Caller : bearer[c] # t \/ op[c] = "none"
    /\ sessions' = sessions \ {t}
    /\ UNCHANGED <<Others, ksVars, challenges, issued, epoch, last_sealed, leaf, signer, restarts>>

ClientNext ==
    \/ \E c \in Caller :
         \/ challenge(c) \/ session(c) \/ HandshakeFails(c) \/ TokenStep(c)
         \/ build(c)
         \/ \E o \in {"submit", "fetch", "await"} : Invoke(c, o)
         \/ HasToken(c)
         \/ \E answer \in {"accepted", "lost", "refused"} : submit_many(c, answer)
         \/ try_fetch_witness(c)
         \/ RequestFails(c)
         \/ schedule(c)
         \/ \E up \in BOOLEAN : await_witness(c, up)
         \/ Drop(c)
    \/ TokenAges
    \/ ProgramStep \/ ProgramExits
    \/ \E ok \in BOOLEAN : Seal(ok)
    \/ \E end \in {"served", "stalled"} : SettleLeaf(end)
    \/ \E d \in Did : RestartServer(d)
    \/ \E t \in sessions : SessionExpires(t)

ClientSpec == ClientInit /\ [][ClientNext]_clientVars

----------------------------------------------------------------------------
(* Properties. *)

\* A witness that the client hands out is a settled one, and signed by
\* the DID pinned at build, also when the server's key has changed since.
WitnessIsPinned ==
    \A c \in Caller : result[c] = "pair" => leaf = "served" /\ signer = pinned

\* The inductive form: operations other than build run only while the program is
\* past building, at most one task builds, and a witness handed out is forgotten
\* with the program.
UseInv ==
    /\ op \in [Caller -> {"none", "build", "submit", "fetch", "await"}]
    /\ result \in [Caller -> {"none", "pair", "timeout", "error"}]
    /\ leaf \in {"unknown", "open", "pending", "stalled", "served"}
    /\ \A c \in Caller :
         /\ op[c] \in {"submit", "fetch", "await"} => ks_pc = "ready"
         /\ op[c] = "build" => ks_pc = "discovered" /\ \A d \in Caller : op[d] = "build" => d = c
         /\ result[c] = "pair" => ks_pc = "ready" /\ leaf = "served" /\ signer = pinned

ClientInv == FlightInv /\ KsInv /\ UseInv

\* Client operations end in an error, other than await_witness's timeout, only
\* when a request failed, was refused, or brought a witness that does not verify;
\* a witness that is not there yet is none of these.
ErrorMeansFailure ==
    \A c \in Caller : result[c] = "error" => failed[c]

=============================================================================
