----------------------------- MODULE SealRunInv -----------------------------
(***************************************************************************)
(* What holds of the run directory at every point of a `seal` run and of   *)
(* its replay, strong enough to be preserved by every step of SealRun.     *)
(*                                                                         *)
(* A file other than run.json is written once, so it is missing until the  *)
(* run gets to it; from then on it is there or among the writes under way. *)
(* What the steps write is made from the files before it, so that a change *)
(* of one file shows.  What a step found is a statement about the files,   *)
(* read again later.                                                       *)
(***************************************************************************)
EXTENDS SealRun

(***************************************************************************)
(* Positions in a run.                                                     *)
(***************************************************************************)
FromReport == {"report", "passed", "failed"}
FromStep5 == {"step 5", "step 6", "step 7", "closing"} \cup FromReport
FromStep3 == {"step 3", "step 4"} \cup FromStep5
FromStep1 == {"step 1", "step 2"} \cup FromStep3
FromFetch == {"fetch", "epochs", "status"} \cup FromStep1
FromSignin == {"signin", "post", "posted", "seal"} \cup FromFetch
FromLocal == {"local"} \cup FromSignin

\* Where a run may be while it is under way, after it, and in a replay.
LivePc == ({"preflight", "error"} \cup FromLocal) \ {"passed", "failed"}
IdlePc == {"out", "error", "dead", "passed", "failed"}
ReplayPc == {"step 2", "step 3", "step 4", "step 5", "step 6", "step 7", "closing",
             "replayed", "replay refused"}

BeforePost == {"preflight", "local", "signin"}
BeforeSteps == BeforePost \cup {"post", "posted", "seal", "fetch", "epochs", "status"}

\* Where file f has not been touched yet.
NotYet(f) ==
    CASE f = "identity"                -> {"preflight"}
      [] f \in LocalState              -> {"preflight", "local"}
      [] f = "run"                     -> BeforePost
      [] f \in WitnessFile             -> BeforeSteps \ {"epochs", "status"}
      [] f \in EpochFile               -> BeforeSteps \ {"status"}
      [] f = "status"                  -> BeforeSteps
      [] f \in {"container1", "attest1"} -> BeforeSteps \cup {"step 1"}
      [] f = "receipts1"               -> BeforeSteps \cup {"step 1", "step 2"}
      [] OTHER                         -> BeforeSteps \cup {"step 1", "step 2", "step 3", "step 4"}

\* The files that may be under way at pc.
Writing(pc) ==
    {f \in File : \/ pc = "local" /\ f = "identity"
                  \/ pc = "signin" /\ f \in LocalState
                  \/ pc \in {"post", "posted", "seal", "report"} /\ f = "run"
                  \/ pc = "epochs" /\ f \in WitnessFile
                  \/ pc = "status" /\ f \in EpochFile
                  \/ pc = "step 1" /\ f = "status"
                  \/ pc = "step 2" /\ f \in {"container1", "attest1"}
                  \/ pc = "step 3" /\ f = "receipts1"
                  \/ pc = "step 5" /\ f \in Seal2File}

(***************************************************************************)
(* Contents.                                                               *)
(***************************************************************************)
Name == {Runs[i] : i \in DOMAIN Runs}

\* Everything a content is made of.
Word ==
    Name \cup Body
    \cup {"torn", "replaced", "did", "other", "submitted", "posted", "epoch"}
    \cup {"full", "short", "stranger", "unread", "lost", "refused"}
    \cup {"good", "bad", "error", "none", "garbled", "null", "200", "4xx"}
Text == Seq(Word)

\* c is a whole content of f.
Writable(f, c) ==
    /\ c \in Text
    /\ f = "run" => Len(c) = 3
    /\ f = "container1" => Len(c) = 3
    /\ f \in WitnessFile => Len(c) = 1

FileInv ==
    /\ files \in [File -> Text]
    /\ \A f \in File : files[f] \in {None, Torn} \/ Writable(f, files[f])

\* Writes to files of F, each to another one.
Plan(w, F) ==
    /\ w \in Seq(F \X Text)
    /\ \A i \in DOMAIN w : Writable(w[i][1], w[i][2])
    /\ \A i, j \in DOMAIN w : w[i][1] = w[j][1] => i = j

\* f holds c, or will when the writes under way are done.
Holds(f, c) == files[f] = c \/ \E i \in DOMAIN todo : todo[i] = <<f, c>>

Whole(f) ==
    \/ files[f] \notin {None, Torn}
    \/ \E i \in DOMAIN todo : todo[i][1] = f /\ todo[i][2] \notin {None, Torn}

\* run.json of a run whose leaves were taken.
Taken(c) == \E a \in {"full", "short", "stranger"} : c = <<ThisRun, "epoch", a>>

(***************************************************************************)
(* What a step's verdict says of the files, if the chain is read: in the   *)
(* run, and in a replay.                                                   *)
(***************************************************************************)
Reading2 ==
    /\ step2_reads /\ FullSet
    /\ Readable("attest1")
    /\ \A i \in 1..2 : Evaluates(InContainer[i]) /\ InContainer[i] # "foreign"

Reading5 ==
    /\ step2_reads /\ PairsMatch /\ HeadsAgree /\ Readable("attest1")
    /\ parse_witness(S1Bodies[2]) /\ S1Bodies[2] = Inside("attest1")[2]

Found(n) ==
    CASE n = 1 -> step1_ok(TRUE)
      [] n = 2 -> Reading2 /\ (target = "pinned" => files["identity"] = <<"did">>)
      [] n = 3 -> step3_ok(TRUE)
      [] n = 4 -> step4_builds
      [] n = 5 -> Reading5
      [] n = 6 -> step6_ok(TRUE)
      [] n = 7 -> step7_ok

FoundAgain(n) ==
    CASE n = 2 -> /\ Reading2 /\ files["identity"] = <<"did">>
                  /\ SameBytes("receipts1", Receipts1)
      [] n = 4 -> step4_builds /\ \A f \in Seal2File : SameBytes(f, Seal2)
      [] OTHER -> Found(n)

\* What step 2 left for step 5.
Step2Left ==
    /\ reading \in {"none", "answered", "unanswered"}
    /\ (reading # "none") <=> (step2_reads /\ Readable("attest1"))
    /\ clean => reading # "unanswered"

\* What the steps make of the local state and the witnesses.
Derived(f) ==
    CASE f \in {"container1", "attest1"} -> Made(S1Bodies)
      [] f = "receipts1"                 -> Receipts1
      [] f \in Seal2File                 -> Seal2

\* The local state and the seals are the ones that run.json names, and every
\* file made from others is what these make.
Fits ==
    /\ \A f \in LocalState : files[f] = <<files["run"][1]>>
    /\ \A f \in StepFile : files[f] = Derived(f)

(***************************************************************************)
(* The parts of the invariant.                                             *)
(***************************************************************************)
Statuses == [WitnessFile \cup EpochFile -> {"null", "200", "4xx"}]

ModeInv ==
    /\ \/ mode = "live" /\ seal_pc \in LivePc
       \/ mode = "idle" /\ seal_pc \in IdlePc
       \/ mode = "replay" /\ seal_pc \in ReplayPc
    /\ run_no \in Nat /\ run_no <= Len(Runs) /\ (mode = "live" \/ seal_pc = "passed" => run_no > 0)
    /\ logs \in [Step -> Verdict] /\ live_logs \in [Step -> Verdict]
    /\ moved \in BOOLEAN /\ clean \in BOOLEAN
    /\ got \in Statuses
    /\ mode = "live" => damaged = "none"
    /\ damaged = "none" => harm = "none"

TodoInv ==
    /\ mode # "live" => todo = <<>>
    /\ mode = "live" => Plan(todo, Writing(seal_pc))
    /\ \A i \in DOMAIN todo : todo[i][1] # "run" => files[todo[i][1]] = None

\* The run's own directory, as long as nothing happened to it.
Own == mode # "replay" /\ damaged = "none"

DirInv ==
    /\ \A f \in File : seal_pc \in NotYet(f) => files[f] = None
    /\ seal_pc \in FromLocal => Whole("identity")
    /\ seal_pc \in FromSignin => \A f \in LocalState : Holds(f, <<ThisRun>>)
    /\ seal_pc \in FromFetch => Taken(files["run"])
    /\ seal_pc \in FromStep1 => Whole("status")
    /\ seal_pc \in FromStep3 /\ step2_reads => Whole("receipts1")
    /\ seal_pc \in FromStep5 /\ step4_builds => \A f \in Seal2File : Whole(f)

\* run.json is the one file that is written again.
RunJsonInv ==
    /\ seal_pc = "seal" => Taken(IF todo = <<>> THEN files["run"] ELSE todo[1][2])
    /\ seal_pc = "report" /\ todo # <<>> => todo[1][2] = files["run"]

LogInv ==
    /\ seal_pc \in BeforeSteps => logs = NoLogs
    /\ \A k \in 1..8 : seal_pc = StepPc[k] => \A n \in Step : logs[n] = "none" <=> n >= k
    /\ seal_pc \in FromReport => \A n \in Step : logs[n] # "none"
    /\ seal_pc \in FromStep1 => \A n \in Step :
          /\ logs[n] = "pass" => Found(n)
          /\ clean /\ ~moved /\ logs[n] = "fail" => ~Found(n)
    /\ seal_pc \in FromStep3 => Step2Left
    /\ seal_pc \in FromReport /\ moved => ~all_passed(1)
    /\ seal_pc = "passed" => all_passed(1)

\* A run that goes on found the directory empty, so no run before it got far.
StartInv ==
    mode = "live" =>
        /\ seal_pc \in BeforePost => held = {}
        /\ seal_pc \notin {"error", "report"} => live_logs = NoLogs /\ ~moved

\* What the verdicts of a run that reached its end say of the files.
KeptInv ==
    damaged = "none" /\ (live_logs # NoLogs \/ moved) =>
        /\ files["run"] # None
        /\ \A n \in Step : live_logs[n] # "none"
        /\ Readable("run") => \A n \in Step :
              /\ live_logs[n] = "pass" => Found(n)
              /\ clean /\ ~moved /\ live_logs[n] = "fail" => ~Found(n)

\* A write of what belongs there.
FitWrite(x) ==
    /\ x[1] \in StepFile => x[2] = Derived(x[1])
    /\ x[1] = "run" => x[2][1] = ThisRun

\* The directory is one run's, and what the steps wrote was made from it.
FitInv ==
    damaged = "none" =>
        /\ Readable("run") => \A f \in LocalState : files[f] = <<files["run"][1]>>
        /\ \A f \in StepFile : files[f] \in {None, Torn} \/ files[f] = Derived(f)
        /\ \A i \in DOMAIN todo : FitWrite(todo[i])

ReplayInv ==
    mode = "replay" /\ seal_pc # "replay refused" =>
        /\ verify_complete /\ RunStateLoads(TRUE) /\ ensure_outside(out)
        /\ \A k \in 1..8 : seal_pc = StepPc[k] => \A n \in 2..7 : logs[n] = "none" <=> n >= k
        /\ seal_pc = "replayed" => \A n \in 2..7 : logs[n] # "none"
        /\ \A n \in 2..7 : /\ logs[n] = "pass" => FoundAgain(n)
                           /\ clean /\ logs[n] = "fail" => ~FoundAgain(n)
        /\ seal_pc # "step 2" => Step2Left

\* A bound file that was altered no longer fits the others.
SpoiltInv ==
    /\ damaged \in File \cup {"none"}
    /\ harm = "altered" /\ damaged \in Bound /\ verify_complete => ~Fits

SealInv ==
    /\ ModeInv /\ FileInv /\ TodoInv
    /\ Own => DirInv /\ RunJsonInv /\ LogInv
    /\ SubmittedStaysOnDisk
    /\ StartInv /\ FitInv /\ KeptInv /\ ReplayInv /\ SpoiltInv

=============================================================================
