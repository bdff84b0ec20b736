------------------------------ MODULE SealRun ------------------------------
(***************************************************************************)
(* The `seal` run of the end-to-end test and its replay (e2e seal/): a run *)
(* directory is filled file by file before, during and after one POST to   *)
(* the server, seven steps judge it, and `seal-replay` judges it again     *)
(* later from the files alone.                                             *)
(*                                                                         *)
(*  check preflight local signin record post posted epoch seal fetch       *)
(*  epochs status --> steps 1..7 --> version --> passed | failed           *)
(*                                                                         *)
(* A run may stop with an error ("error") or die at any point ("dead"),    *)
(* in the middle of a file too: all writes go through `todo`, one at a     *)
(* time, and none is atomic.  A run with the same --run-dir may follow.    *)
(* Before a replay one file may be lost or changed.                        *)
(*                                                                         *)
(* A file's content is what it was made from, as a tuple of names; its     *)
(* bytes may change without it.  The SDK (sealing, verification, the chain *)
(* it reads) is external: a body is classed by what it says of it.         *)
(***************************************************************************)
EXTENDS Naturals, Sequences, FiniteSets

CONSTANTS
    Runs,       \* live runs in one directory, in order (names)
    Body,       \* the witness bodies a 200 may carry
    MaxFaults,  \* bound: faults of the server and the chain host
    Damage      \* the files that may be lost or changed before a replay

None == <<>>                    \* no such file
Torn == <<"torn">>              \* cut short

\* Built before anything leaves the machine; the seals depend on all of it.
LocalState == {"folder", "members", "nonces", "prepared"}
WitnessFile == {"s1_evm", "s1_qtsa", "s2_qtsa"}
EpochFile == {"epoch_evm", "epoch_qtsa", "epochs"}
Seal2File == {"container2", "attest2", "receipts2"}
StepFile == {"container1", "attest1", "receipts1"} \cup Seal2File
File == {"identity", "run", "status"} \cup LocalState \cup WitnessFile \cup EpochFile \cup StepFile

ASSUME SealRunAssumption ==
    /\ Runs \in Seq(STRING)
    /\ \A i \in DOMAIN Runs : Runs[i] # "torn"
    /\ Body \subseteq {"good", "stub", "garbled", "unlinked", "foreign", "refused"}
    /\ MaxFaults \in Nat
    /\ Damage \subseteq File

Method == {"evm", "qtsa"}
Step == 1..7
Verdict == {"none", "pass", "fail"}

VARIABLES
    files,      \* the run directory
    todo,       \* the writes under way: <<file, content>>
    mode,       \* "idle", "live" or "replay"
    seal_pc,    \* where the run or the replay is
    run_no,     \* which live run
    target,     \* "pinned" (--expect-server-did), "loopback" or "remote" without it
    got,        \* fetch-status.json before it is written: key |-> status
    logs,       \* step |-> verdict of the live run under way, or of the replay
    reading,    \* what step 2 read of container 1: "none", or a seal whose chain
                \* anchor was "answered" or "unanswered" by the chain's host
    damaged,    \* the file lost or changed since the run, or "none"
    harm,       \* how: "lost", "torn", "altered" or "reformatted"
    out         \* a replay's --out, if any

\* History variables.
VARIABLES
    held,       \* runs whose leaves the server holds
    live_logs,  \* the verdicts of the last live run that reached its end
    moved,      \* the server's version changed during it
    clean,      \* every chain read was answered
    faults      \* faults so far

sealVars == <<files, todo, mode, seal_pc, run_no, target, got, logs, reading,
              damaged, harm, out, held, live_logs, moved, clean, faults>>

NoLogs == [n \in Step |-> "none"]
NoStatus == [f \in WitnessFile \cup EpochFile |-> "null"]

SealInit ==
    /\ files = [f \in File |-> None]
    /\ todo = <<>>
    /\ mode = "idle"
    /\ seal_pc = "out"
    /\ run_no = 0
    /\ target \in {"pinned", "loopback", "remote"}
    /\ got = NoStatus
    /\ logs = NoLogs
    /\ reading = "none"
    /\ damaged = "none"
    /\ harm = "none"
    /\ out = "none"
    /\ held = {}
    /\ live_logs = NoLogs
    /\ moved = FALSE
    /\ clean = TRUE
    /\ faults = 0

\* n faults happen in this step.
Faults(n) ==
    /\ faults + n <= MaxFaults
    /\ faults' = faults + n

OneIf(b) == IF b THEN 1 ELSE 0
NotGood(body) == Cardinality({f \in DOMAIN body : body[f] # "good"})

ThisRun == Runs[run_no]

ReplayVars == <<damaged, harm, out>>
History == <<held, live_logs, moved, clean, faults>>

\* The run goes on to pc, with writes to do first.
Then(pc, writes) ==
    /\ todo = <<>>
    /\ todo' = writes
    /\ seal_pc' = pc
    /\ UNCHANGED files

\* write_file: created or truncated, then filled.
write_file ==
    /\ todo # <<>>
    /\ files' = [files EXCEPT ![Head(todo)[1]] = Head(todo)[2]]
    /\ todo' = Tail(todo)
    /\ UNCHANGED <<mode, seal_pc, run_no, target, got, logs, reading, ReplayVars, History>>

----------------------------------------------------------------------------
(* run_seal up to the steps. *)

\* Faulty variant: what the directory holds is not looked at.
check_run_dir_exists == TRUE

\* A directory that holds anything is refused.
check_run_dir == \A f \in File : files[f] = None

\* The next run.  A remote one without a pin is refused before any contact.
Begin ==
    /\ mode = "idle" /\ run_no < Len(Runs)
    /\ todo = <<>> /\ damaged = "none"
    /\ run_no' = run_no + 1
    /\ mode' = "live"
    /\ seal_pc' = IF target # "remote" /\ check_run_dir THEN "preflight" ELSE "error"
    /\ got' = NoStatus /\ logs' = NoLogs /\ reading' = "none"
    /\ UNCHANGED <<files, todo, target, ReplayVars, History>>

Live(from, to, writes) ==
    /\ mode = "live" /\ seal_pc = from
    /\ Then(to, writes)
    /\ UNCHANGED <<mode, run_no, target, logs, reading, ReplayVars>>

\* An error return: the run stops where it is.
Fails(from) ==
    /\ Live(from, "error", <<>>)
    /\ UNCHANGED <<got, History>>

\* Version, health, clock and identity are read; --expect-version and the DID
\* pin are compared before anything is posted.
preflight(did) ==
    /\ target = "pinned" => did = "did"
    /\ Live("preflight", "local", <<<<"identity", <<did>>>>>>)
    /\ Faults(OneIf(did # "did"))
    /\ UNCHANGED <<got, held, live_logs, moved, clean>>

build_local_state ==
    /\ Live("local", "signin",
            <<<<"folder", <<ThisRun>>>>, <<"members", <<ThisRun>>>>,
              <<"nonces", <<ThisRun>>>>, <<"prepared", <<ThisRun>>>>>>)
    /\ UNCHANGED <<got, History>>

\* run.json: its run, how far it got, and the server's answer to the POST.
RunJson(stage, answer) == <<<<"run", <<ThisRun, stage, answer>>>>>>

mint_bearer ==
    /\ Live("signin", "post", RunJson("submitted", "none"))
    /\ UNCHANGED <<got, History>>

\* POST /v1/leaves with both digests: the server takes them and answers 202
\* ("full"; "short" and "stranger" name another count or submitter), or takes
\* them and the body is unreadable or the answer is lost, or refuses them.
Post(answer) ==
    /\ mode = "live" /\ seal_pc = "post"
    /\ IF answer = "lost" THEN Then("error", <<>>) ELSE Then("posted", RunJson("posted", answer))
    /\ held' = IF answer = "refused" THEN held ELSE held \cup {ThisRun}
    /\ Faults(OneIf(answer # "full"))
    /\ UNCHANGED <<mode, run_no, target, logs, reading, got, ReplayVars, live_logs, moved, clean>>

Answer == files["run"][3]

\* Only a 202 with an epoch id goes on.
Posted ==
    /\ seal_pc = "posted" /\ todo = <<>>
    /\ IF Answer \in {"full", "short", "stranger"}
         THEN Live("posted", "seal", RunJson("epoch", Answer))
         ELSE Live("posted", "error", <<>>)
    /\ UNCHANGED <<got, History>>

\* wait_for_seal sees the epoch sealed.
Sealed ==
    /\ Live("seal", "fetch", <<>>)
    /\ UNCHANGED <<got, History>>

\* The three fetches end, each with a body or without; bodies go to disk.
submit_and_pull(body) ==
    LET served == {f \in WitnessFile : body[f] # "none"}
        write(f) == IF f \in served THEN <<<<f, <<body[f]>>>>>> ELSE <<>>
    IN  /\ Live("fetch", "epochs", write("s1_evm") \o write("s1_qtsa") \o write("s2_qtsa"))
        /\ got' = [f \in DOMAIN got |-> IF f \in served THEN "200" ELSE got[f]]
        /\ Faults(NotGood(body))
        /\ UNCHANGED <<held, live_logs, moved, clean>>

\* The epoch's listings and row: "error" is the body of a 4xx, "none" a read
\* that stayed down.
read_epoch_bodies(body) ==
    LET answered == {f \in EpochFile : body[f] # "none"}
        write(f) == IF f \in answered THEN <<<<f, <<body[f]>>>>>> ELSE <<>>
    IN  /\ Live("epochs", "status", write("epoch_evm") \o write("epoch_qtsa") \o write("epochs"))
        /\ got' = [f \in DOMAIN got |->
                     IF f \notin answered THEN got[f]
                     ELSE IF body[f] = "error" THEN "4xx" ELSE "200"]
        /\ Faults(NotGood(body))
        /\ UNCHANGED <<held, live_logs, moved, clean>>

Status ==
    /\ Live("status", "step 1",
            <<<<"status", <<got["s1_evm"], got["s1_qtsa"], got["s2_qtsa"],
                            got["epoch_evm"], got["epoch_qtsa"], got["epochs"]>>>>>>)
    /\ got' = NoStatus
    /\ UNCHANGED History

----------------------------------------------------------------------------
(* What the steps read. *)

\* The body a witness or epoch file holds.
BodyOf(f) ==
    CASE files[f] = None -> "none"
      [] files[f] = Torn -> "garbled"
      [] OTHER           -> files[f][1]

Readable(f) == files[f] \notin {None, Torn}

\* parse_served and detect_stub, with the served keys or without them.
parse_witness(b) == b \notin {"none", "garbled", "stub"}
served_witness(b) == parse_witness(b) /\ b # "unlinked"

\* A real anchor that the server signed: the one it served, or (put there
\* later) another.
Genuine(b) == b \in {"good", "replaced"}

\* evaluate_seal_witnesses (external): T is anchored and P is somebody's.
Evaluates(b) == Genuine(b) \/ b \in {"unlinked", "foreign"}

\* The heads, made anew from the genesis key of the folder, the members' tips
\* and the nonces, are the ones of the prepared seals.
HeadsAgree == \A f \in LocalState : files[f] = files["prepared"]

\* What finish_seal makes of a prepared seal and witnesses (deterministic).
Made(bodies) == files["prepared"] \o bodies
S1Bodies == <<BodyOf("s1_evm"), BodyOf("s1_qtsa")>>
S2Bodies == <<BodyOf("s2_qtsa")>>

\* The witnesses of seal 1 inside the container or the attestation document.
Inside(f) == <<files[f][2], files[f][3]>>
InContainer == Inside("container1")

\* A file whose bytes are the ones that content has.
SameBytes(f, content) ==
    /\ files[f] = content
    /\ ~(damaged = f /\ harm = "reformatted")

\* derived: a replay must reproduce the file byte for byte.
Reproduced(f, content) == mode = "replay" => SameBytes(f, content)

\* Where a path leads, symbolic links resolved.
resolved(path) ==
    CASE path \in {"run_dir", "link"} -> "run_dir"
      [] path = "dangling"            -> "unknown"
      [] OTHER                        -> "elsewhere"

\* Where a step's output goes: into the run directory, or to --out, if given.
artifact(writes) ==
    IF mode = "live" \/ resolved(out) = "run_dir" THEN writes ELSE <<>>

----------------------------------------------------------------------------
(* The steps: whether every assertion holds, and what is written.  chain:   *)
(* the chain reads of this step are answered.                               *)

\* Step 1 builds container 1 when both witnesses are usable and accepted.
step1_builds(chain) ==
    /\ \A i \in 1..2 : files["status"][i] = "200" /\ served_witness(S1Bodies[i]) /\ Evaluates(S1Bodies[i])
    /\ HeadsAgree
    /\ chain

step1_ok(chain) ==
    /\ step1_builds(chain)
    /\ Answer # "stranger"
    /\ \A i \in 1..2 : S1Bodies[i] # "foreign"

step1_writes(chain) ==
    IF step1_builds(chain)
      THEN <<<<"container1", Made(S1Bodies)>>, <<"attest1", Made(S1Bodies)>>>>
      ELSE <<>>

\* Step 2 reads container 1 as a seal and issues the receipts again.
step2_reads == Readable("container1")
Receipts1 == Made(InContainer)

\* The container's head is the one of this set, so the full-set check passes.
FullSet == HeadsAgree /\ files["container1"][1] = files["prepared"][1]

\* --expect-server-did; a replay always has one.
DidExpected == target = "pinned" \/ mode = "replay" => files["identity"] = <<"did">>

step2_ok(chain) ==
    /\ step2_reads
    /\ chain /\ FullSet
    /\ Reproduced("receipts1", Receipts1)
    /\ Readable("attest1")
    /\ \A i \in 1..2 : Evaluates(InContainer[i]) /\ InContainer[i] # "foreign"
    /\ DidExpected

\* Faulty variant: the receipts are not kept.
step2_writes_nothing == <<>>

step2_writes == IF step2_reads THEN <<<<"receipts1", Receipts1>>>> ELSE <<>>

\* What step 2 leaves for step 5, if it gets to its end.
Step2Out(chain) ==
    IF ~(step2_reads /\ Readable("attest1")) THEN "none"
    ELSE IF chain THEN "answered" ELSE "unanswered"

\* The served pairs are the ones in container 1.
PairsMatch == \A i \in 1..2 : parse_witness(S1Bodies[i]) /\ S1Bodies[i] = InContainer[i]

\* Step 3: the same container where only the qTSA witness is admitted.
step3_ok(chain) == Readable("container1") /\ PairsMatch /\ FullSet /\ chain

\* Step 4: seal 2 from the qTSA witness alone, and refusals of none at all.
step4_builds == parse_witness(S2Bodies[1]) /\ Evaluates(S2Bodies[1]) /\ HeadsAgree
Seal2 == Made(S2Bodies)

step4a_ok == step4_builds /\ \A f \in Seal2File : Reproduced(f, Seal2)

\* Without a witness the SDK refuses prepared seal 2, and a fresh one.
step4b_ok == HeadsAgree

step4_ok == step4a_ok /\ step4b_ok

\* Faulty variant: the receipts of seal 2 name the anchor of seal 1.
step4_writes_mixed ==
    IF step4_builds
      THEN <<<<"container2", Seal2>>, <<"attest2", Seal2>>, <<"receipts2", Made(S1Bodies)>>>>
      ELSE <<>>

step4_writes ==
    IF step4_builds
      THEN <<<<"container2", Seal2>>, <<"attest2", Seal2>>, <<"receipts2", Seal2>>>>
      ELSE <<>>

\* Step 5: the qTSA anchor that both the served pair and container 1 name is
\* changed and linked again; the SDK does not verify it.
step5a_ok == Readable("container1") /\ reading # "none" /\ PairsMatch /\ HeadsAgree

\* Its P, found in the attestation document, is removed, altered and signed
\* badly, and names nobody; a fresh reading of container 1 equals step 2's,
\* what the chain's host had to say included.
step5b_ok(chain) ==
    /\ reading # "none" /\ Readable("attest1")
    /\ parse_witness(S1Bodies[2]) /\ S1Bodies[2] = Inside("attest1")[2]
    /\ Readable("container1")
    /\ reading = Step2Out(chain)

step5_ok(chain) == step5a_ok /\ step5b_ok(chain)

\* Faulty variant: the bytes are not compared.
step6_ok_unequal(chain) ==
    /\ Readable("container1") /\ Readable("attest1")
    /\ \A i \in 1..2 : parse_witness(S1Bodies[i]) /\ Evaluates(S1Bodies[i])
    /\ HeadsAgree /\ chain

\* Step 6: complete_seal on the persisted state gives the same bytes.
step6_ok(chain) ==
    /\ Readable("container1") /\ Readable("attest1")
    /\ \A i \in 1..2 : parse_witness(S1Bodies[i]) /\ Evaluates(S1Bodies[i])
    /\ HeadsAgree /\ chain
    /\ SameBytes("container1", Made(S1Bodies))
    /\ SameBytes("attest1", Made(S1Bodies))

\* Faulty variant: what the listings say is not looked at.
step7_ok_listed == Answer # "short" /\ \A f \in EpochFile : Readable(f)

\* Step 7: no stub in the epoch, every own pair listed, one root.
step7_ok ==
    /\ Answer # "short"
    /\ \A i \in 4..5 : files["status"][i] = "200"
    /\ \A f \in EpochFile : BodyOf(f) = "good"

Ok(n, chain) ==
    CASE n = 1 -> step1_ok(chain)
      [] n = 2 -> step2_ok(chain)
      [] n = 3 -> step3_ok(chain)
      [] n = 4 -> step4_ok
      [] n = 5 -> step5_ok(chain)
      [] n = 6 -> step6_ok(chain)
      [] n = 7 -> step7_ok

Writes(n, chain) ==
    CASE n = 1 -> step1_writes(chain)
      [] n = 2 -> step2_writes
      [] n = 4 -> step4_writes
      [] OTHER -> <<>>

StepPc == <<"step 1", "step 2", "step 3", "step 4", "step 5", "step 6", "step 7", "closing">>

\* steps::run, one step.
RunStep(n, chain) ==
    /\ chain \/ n \in {1, 2, 3, 5, 6}
    /\ seal_pc = StepPc[n] /\ todo = <<>>
    /\ Then(StepPc[n + 1], artifact(Writes(n, chain)))
    /\ logs' = [logs EXCEPT ![n] = IF Ok(n, chain) THEN "pass" ELSE "fail"]
    /\ reading' = IF n = 2 THEN Step2Out(chain) ELSE reading
    /\ clean' = (clean /\ chain)
    /\ Faults(OneIf(~chain))
    /\ UNCHANGED <<mode, run_no, target, got, ReplayVars, held, live_logs, moved>>

all_passed(n0) == \A n \in n0..7 : logs[n] = "pass"

\* The version is read again; run.json gets it.  A server that moved fails
\* every step.
Closing(moves) ==
    /\ mode = "live" /\ seal_pc = "closing" /\ todo = <<>>
    /\ Then("report", RunJson("epoch", Answer))
    /\ logs' = IF moves THEN [n \in Step |-> "fail"] ELSE logs
    /\ live_logs' = logs'
    /\ moved' = moves
    /\ Faults(OneIf(moves))
    /\ UNCHANGED <<mode, run_no, target, got, reading, ReplayVars, held, clean>>

Report ==
    /\ mode = "live" /\ seal_pc = "report"
    /\ Then(IF all_passed(1) THEN "passed" ELSE "failed", <<>>)
    /\ mode' = "idle"
    /\ UNCHANGED <<run_no, target, got, logs, reading, ReplayVars, History>>

\* The run stopped with an error.
Stopped ==
    /\ mode = "live" /\ seal_pc = "error" /\ todo = <<>>
    /\ mode' = "idle"
    /\ UNCHANGED <<files, todo, seal_pc, run_no, target, got, logs, reading, ReplayVars, History>>

\* The run dies, perhaps in the middle of a file.
Crash ==
    /\ mode = "live"
    /\ \/ UNCHANGED files
       \/ todo # <<>> /\ files' = [files EXCEPT ![Head(todo)[1]] = Torn]
    /\ todo' = <<>>
    /\ mode' = "idle"
    /\ seal_pc' = "dead"
    /\ UNCHANGED <<run_no, target, got, logs, reading, ReplayVars, History>>

----------------------------------------------------------------------------
(* run_replay. *)

\* What word i of file f may become: another set, run, DID, witness or answer.
Forged(f, i) ==
    CASE f \in LocalState                   -> {"other"}
      [] f = "identity"                     -> {"did", "other"}
      [] f \in WitnessFile                  -> Body \cup {"replaced"}
      [] f \in EpochFile                    -> {"good", "bad", "error"}
      [] f = "status"                       -> {"null", "200", "4xx"}
      [] f \in StepFile \cup {"run"} /\ i = 1 -> {"other"}
      [] f \in StepFile /\ i # 1            -> Body \cup {"replaced"}
      [] f = "run" /\ i = 2                 -> {"submitted", "posted", "epoch"}
      [] f = "run" /\ i = 3                 -> {"full", "short", "stranger", "unread", "refused"}

\* A file is lost or cut short, or says something else, or the same in other
\* bytes (or differs where nothing reads it).
Spoil(f, kind) ==
    /\ mode = "idle" /\ todo = <<>> /\ damaged = "none"
    /\ f \in Damage /\ Readable(f)
    /\ \/ kind = "lost" /\ files' = [files EXCEPT ![f] = None]
       \/ kind = "torn" /\ files' = [files EXCEPT ![f] = Torn]
       \/ /\ kind = "altered"
          /\ \E i \in DOMAIN files[f] : \E w \in Forged(f, i) \ {files[f][i]} :
                files' = [files EXCEPT ![f] = [files[f] EXCEPT ![i] = w]]
       \/ kind = "reformatted" /\ UNCHANGED files
    /\ damaged' = f /\ harm' = kind
    /\ UNCHANGED <<todo, mode, seal_pc, run_no, target, got, logs, reading, out, History>>

\* Everything a replay reads is there and parses.
verify_complete ==
    /\ Readable("run") /\ files["run"][2] = "epoch"
    /\ \A f \in LocalState \cup StepFile \cup {"identity", "status"} : Readable(f)
    /\ \A f \in WitnessFile : parse_witness(BodyOf(f))
    /\ \A f \in EpochFile : BodyOf(f) \in {"good", "bad"}

\* RunState::load: the prepared seals are the ones that run.json says were
\* submitted, and the members are admitted (altered ones may not be).
RunStateLoads(admitted) ==
    /\ files["prepared"] = <<files["run"][1]>>
    /\ admitted

\* Faulty variant: --out is compared as it is written.
ensure_outside_unresolved(path) == path # "run_dir"

\* A path is refused if it leads into the run directory or nobody knows where.
ensure_outside(path) == resolved(path) = "elsewhere"

Replay(path, admitted) ==
    /\ mode = "idle" /\ todo = <<>>
    /\ run_no > 0
    /\ admitted \/ (damaged = "members" /\ harm = "altered")
    /\ mode' = "replay"
    /\ out' = path
    /\ seal_pc' = IF ensure_outside(path) /\ verify_complete /\ RunStateLoads(admitted)
                    THEN "step 2" ELSE "replay refused"
    /\ logs' = NoLogs
    /\ reading' = "none"
    /\ UNCHANGED <<files, todo, run_no, target, got, damaged, harm, History>>

ReplayEnds ==
    /\ mode = "replay" /\ seal_pc = "closing"
    /\ Then("replayed", <<>>)
    /\ UNCHANGED <<mode, run_no, target, got, logs, reading, ReplayVars, History>>

----------------------------------------------------------------------------

LiveStep ==
    \/ Begin
    \/ write_file
    \/ \E pc \in {"preflight", "signin", "seal"} : Fails(pc)
    \/ \E did \in {"did", "other"} : preflight(did)
    \/ build_local_state
    \/ mint_bearer
    \/ \E answer \in {"full", "short", "stranger", "unread", "lost", "refused"} : Post(answer)
    \/ Posted
    \/ Sealed
    \/ \E body \in [WitnessFile -> Body \cup {"none"}] : submit_and_pull(body)
    \/ \E body \in [EpochFile -> {"good", "bad", "error", "none"}] : read_epoch_bodies(body)
    \/ Status
    \/ \E moves \in BOOLEAN : Closing(moves)
    \/ Report
    \/ Stopped

SealNext ==
    \/ LiveStep
    \/ \E n \in Step, chain \in BOOLEAN : RunStep(n, chain)
    \/ Crash
    \/ \E f \in File, kind \in {"lost", "torn", "altered", "reformatted"} : Spoil(f, kind)
    \/ \E path \in {"none", "beside", "run_dir", "link", "dangling"}, admitted \in BOOLEAN :
          Replay(path, admitted)
    \/ ReplayEnds

SealSpec == SealInit /\ [][SealNext]_sealVars

----------------------------------------------------------------------------
(* Properties. *)

\* Once the server may hold a run's leaves, the seals they belong to are on
\* disk and stay there, whole: after an answer that never came, a death at any
\* write, and another run given the same directory.
SubmittedStaysOnDisk ==
    damaged = "none" => \A r \in held : \A f \in LocalState : files[f] = <<r>>

\* A run passes only if the server served what it must: both leaves taken under
\* this identity, both anchors of S1 real, linked and signed by the server, a
\* qTSA anchor of S2 that verifies, an epoch without stubs, the pinned DID, the
\* same version before and after.
PassIsSound ==
    seal_pc = "passed" /\ damaged = "none" =>
        /\ Answer = "full"
        /\ \A i \in 1..2 : Genuine(S1Bodies[i])
        /\ Evaluates(BodyOf("s2_qtsa"))
        /\ \A f \in EpochFile : BodyOf(f) = "good"
        /\ target = "pinned" => files["identity"] = <<"did">>
        /\ ~moved

\* A run that passed can be replayed: its directory is complete.
PassIsReplayable ==
    seal_pc = "passed" /\ damaged = "none" => verify_complete /\ RunStateLoads(TRUE)

\* On a directory left as the run left it, a replay that is not refused finds
\* what the run found, step by step, if the chain can be read, the replay pins
\* the server's DID, and the server did not change version during the run: that
\* fails all steps of the run, and a replay asks no server.
ReplayAgrees ==
    /\ seal_pc = "replayed" /\ damaged = "none" /\ clean
    /\ files["identity"] = <<"did">>
    /\ live_logs # NoLogs /\ ~moved
    => \A n \in 2..7 : logs[n] = live_logs[n]

\* What the files of a run bind each other to: a change in one shows in another.
\* The server's DID, the statuses, the epoch's listings and the answers kept in
\* run.json are bound by nothing in the directory.
Bound == LocalState \cup WitnessFile \cup StepFile

\* A replay passes only if no file is missing or cut short, by a run that died
\* or later; if none of the local state, the witnesses and what was made from
\* them was altered; and if what was made from them has the bytes it had.
DamageIsCaught ==
    seal_pc = "replayed" /\ all_passed(2) =>
        /\ \A f \in File : Readable(f)
        /\ harm = "altered" => damaged \notin Bound
        /\ harm = "reformatted" => damaged \notin StepFile

\* A replay leaves the run directory as it is, wherever its --out leads.
RunDirUntouched == [][mode = "replay" => UNCHANGED files]_sealVars

=============================================================================
