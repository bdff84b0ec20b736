----------------------------- MODULE E2eProofs -----------------------------
(***************************************************************************)
(* The end-to-end test: the identity it takes, its polls and its flow, and *)
(* that the program (E2e) runs these and the seal, and nothing else.       *)
(***************************************************************************)
EXTENDS E2e, SealRunProofs

(***************************************************************************)
(* The directory yields one identity, for any number of runs and keys.     *)
(*                                                                         *)
(* OneIdentity is not inductive by itself: it needs that a key handed out  *)
(* is the one in the record, that a record being written is still empty,   *)
(* and that one run at most is writing it (IdInv).                         *)
(***************************************************************************)

\* The directory starts without files and nobody has run.
LEMMA IdInitInv == IdInit => IdInv
BY IdentityAssumption DEF IdInit, IdInv, IdTypeOK, IdPc, Owns

\* Every step of a run, a death, a lost key file and a chmod keep it.
LEMMA IdNextInv == IdInv /\ [IdNext]_idVars => IdInv'
<1> SUFFICES ASSUME IdInv, [IdNext]_idVars PROVE IdInv'
  OBVIOUS
<1> USE IdentityAssumption DEF IdInv, IdTypeOK, Owns, IdPc, IdGoto
<1>1. ASSUME NEW p \in Proc, for_base_url(p) PROVE IdInv'
  BY <1>1 DEF for_base_url
<1>2. ASSUME NEW p \in Proc, Look(p) PROVE IdInv'
  BY <1>2 DEF Look
<1>3. ASSUME NEW p \in Proc, LookRecord(p) PROVE IdInv'
  BY <1>3 DEF LookRecord
<1>4. ASSUME NEW p \in Proc, CreateKey(p) PROVE IdInv'
  BY <1>4 DEF CreateKey
<1>5. ASSUME NEW p \in Proc, WriteKey(p) PROVE IdInv'
  BY <1>5 DEF WriteKey
<1>6. ASSUME NEW p \in Proc, CreateRecord(p) PROVE IdInv'
  BY <1>6 DEF CreateRecord
<1>7. ASSUME NEW p \in Proc, WriteRecord(p) PROVE IdInv'
  BY <1>7 DEF WriteRecord
<1>8. ASSUME NEW p \in Proc, LoadKey(p) PROVE IdInv'
  BY <1>8 DEF LoadKey
<1>9. ASSUME NEW p \in Proc, LoadRecord(p) PROVE IdInv'
  BY <1>9 DEF LoadRecord
<1>10. ASSUME NEW p \in Proc, Die(p) PROVE IdInv'
  BY <1>10 DEF Die
<1>11. CASE LoseKey
  BY <1>11 DEF LoseKey
<1>12. CASE Chmod
  BY <1>12 DEF Chmod
<1>13. CASE UNCHANGED idVars
  BY <1>13 DEF idVars
<1> QED
  BY <1>1, <1>2, <1>3, <1>4, <1>5, <1>6, <1>7, <1>8, <1>9, <1>10, <1>11, <1>12, <1>13
     DEF IdNext, IdStep

\* for_base_url never hands out two different keys from one directory, however
\* many runs race to create it and wherever they die (identity.rs).
THEOREM StandingIdentityIsOne == IdSpec => []OneIdentity
<1>1. IdInv => OneIdentity
  BY DEF IdInv, OneIdentity
<1> QED
  BY <1>1, IdInitInv, IdNextInv, PTL DEF IdSpec

----------------------------------------------------------------------------
(***************************************************************************)
(* The polls.  GivesUpLate needs that a poll that timed out is past the    *)
(* start of its last interval, and where a sleep of wait_for_seal ends     *)
(* (PollInv).                                                              *)
(***************************************************************************)

\* The methods and the schedule are different URLs.
LEMMA Urls == Witness \subseteq Url /\ "schedule" \in Url /\ "schedule" \notin Witness
BY DEF Witness, Url

\* No poll has begun.
LEMMA PollInitInv == PollInit => PollInv
BY DEF PollInit, PollInv

\* An answer becomes available, at any moment of any poll.
LEMMA HappensInv == ASSUME PollInv, NEW u \in Url, Happens(u) PROVE PollInv'
<1>1. Late(u) \in BOOLEAN
  BY DEF Late
<1>2. /\ ready' \in [Url -> BOOLEAN] /\ excused' \in [Url -> BOOLEAN]
      /\ ready'[u] /\ excused'[u] = (excused[u] \/ Late(u))
      /\ \A v \in Url \ {u} : ready'[v] = ready[v] /\ excused'[v] = excused[v]
  BY <1>1 DEF PollInv, Happens
<1>3. UNCHANGED <<now, poll_pc, deadline, wake>>
  BY DEF Happens
<1>4. \A v \in Url :
         /\ poll_pc[v] = "ok" => ready'[v]
         /\ poll_pc[v] = "timeout" => Late(v) /\ (ready'[v] => excused'[v])
         /\ poll_pc[v] = "doze" =>
               /\ now <= wake[v]
               /\ wake[v] <= now + Interval
               /\ ready'[v] /\ ~excused'[v] => wake[v] < deadline[v]
  <2> SUFFICES ASSUME NEW v \in Url
               PROVE  /\ poll_pc[v] = "ok" => ready'[v]
                      /\ poll_pc[v] = "timeout" => Late(v) /\ (ready'[v] => excused'[v])
                      /\ poll_pc[v] = "doze" =>
                            /\ now <= wake[v]
                            /\ wake[v] <= now + Interval
                            /\ ready'[v] /\ ~excused'[v] => wake[v] < deadline[v]
    OBVIOUS
  <2>1. CASE v = u
    <3>1. ~Late(u) => now + Interval < deadline[u]
      BY PollAssumption DEF Late, PollInv
    <3> QED
      BY <1>2, <2>1, <3>1, PollAssumption DEF PollInv
  <2>2. CASE v # u
    BY <1>2, <2>2 DEF PollInv
  <2> QED
    BY <2>1, <2>2
<1> QED
  BY <1>2, <1>3, <1>4 DEF PollInv, Late

\* Polls begin, whether or not there is time left.
LEMMA BeginPollInv ==
    ASSUME PollInv, NEW us \in SUBSET Url, NEW pc \in {"read", "doze"}, NEW d \in Nat, BeginPoll(us, pc, d)
    PROVE  PollInv'
<1> USE DEF PollInv
<1>1. (pc = "doze" /\ d <= now) \in BOOLEAN
  OBVIOUS
<1>2. /\ now' \in Nat /\ ready' \in [Url -> BOOLEAN] /\ excused' \in [Url -> BOOLEAN]
      /\ poll_pc' \in [Url -> {"off", "read", "nap", "doze", "ok", "timeout", "final"}]
      /\ deadline' \in [Url -> Nat] /\ wake' \in [Url -> Nat]
  BY <1>1 DEF BeginPoll
<1>3. ASSUME NEW u \in Url
      PROVE  /\ poll_pc'[u] = "ok" => ready'[u]
             /\ poll_pc'[u] = "timeout" => Late(u)' /\ (ready'[u] => excused'[u])
             /\ poll_pc'[u] = "doze" =>
                   /\ now' <= wake'[u]
                   /\ wake'[u] <= now' + Interval
                   /\ ready'[u] /\ ~excused'[u] => wake'[u] < deadline'[u]
  <2>1. CASE u \in us
    <3>1. poll_pc'[u] = pc /\ deadline'[u] = d /\ wake'[u] = now /\ now' = now
      BY <2>1 DEF BeginPoll
    <3>2. excused'[u] = (pc = "doze" /\ d <= now)
      BY <2>1 DEF BeginPoll
    <3>3. d <= now \/ now < d
      OBVIOUS
    <3>4. pc = "doze" /\ ~excused'[u] => now < d
      BY <3>2, <3>3, Zenon
    <3> QED
      BY <3>1, <3>4, PollAssumption
  <2>2. CASE u \notin us
    <3>1. /\ poll_pc'[u] = poll_pc[u] /\ deadline'[u] = deadline[u] /\ wake'[u] = wake[u]
          /\ excused'[u] = excused[u] /\ now' = now /\ ready' = ready
      BY <2>2 DEF BeginPoll
    <3> QED
      BY <3>1 DEF Late
  <2> QED
    BY <2>1, <2>2
<1> QED
  BY <1>2, <1>3

\* One step of one poll.
LEMMA PollNextInv == ASSUME PollInv, PollNext PROVE PollInv'
<1> USE PollAssumption DEF PollInv, PollStep, Late
<1>1. ASSUME NEW u \in Url, get_retrying(u) PROVE PollInv'
  BY <1>1 DEF get_retrying, LeastOf
<1>2. ASSUME NEW u \in Url, Refused(u) PROVE PollInv'
  BY <1>2 DEF Refused
<1>3. ASSUME NEW u \in Url, fetch_served(u) PROVE PollInv'
  BY <1>3 DEF fetch_served
<1>4. ASSUME NEW u \in Url, Wake(u) PROVE PollInv'
  BY <1>4 DEF Wake
<1>5. CASE wait_for_seal
  BY <1>5, Urls DEF wait_for_seal
<1> QED
  BY <1>1, <1>2, <1>3, <1>4, <1>5 DEF PollNext

\* Time goes on while every poll sleeps.
LEMMA TickInv == ASSUME PollInv, Tick PROVE PollInv'
BY PollAssumption DEF PollInv, Tick, Late

----------------------------------------------------------------------------
(***************************************************************************)
(* The flow.  No poll has begun while its first requests take their time.  *)
(***************************************************************************)

\* Time goes on before the polls.
LEMMA DelayInv == ASSUME FlowInv, Delay PROVE PollInv'
<1>1. PollInv /\ \A u \in Url : poll_pc[u] = "off"
  BY DEF FlowInv, Delay, Requests
<1> QED
  BY <1>1 DEF PollInv, Delay

\* The flow has not begun.
LEMMA FlowInitInv == FlowInit => FlowInv
BY PollInitInv DEF FlowInit, FlowInv, PollInit

\* What is ready stays ready.
LEMMA ReadyStays ==
    ASSUME PollInv, PollNext \/ Tick \/ Delay \/ \E u \in Url : Happens(u)
    PROVE  \A u \in Url : ready[u] => ready'[u]
BY DEF PollInv, PollNext, Tick, Delay, Happens, PollStep, get_retrying, Refused, fetch_served,
       Wake, wait_for_seal

\* A poll goes on, the server settles something, or time passes, at any stage of
\* the flow.
LEMMA FlowMeanwhile ==
    ASSUME FlowInv, UNCHANGED flowVars,
           PollNext \/ Tick \/ Delay \/ \E u \in Url : Happens(u)
    PROVE  FlowInv'
<1>1. PollInv'
  BY PollNextInv, TickInv, DelayInv, HappensInv DEF FlowInv
<1>2. \A u \in Url : ready[u] => ready'[u]
  BY ReadyStays DEF FlowInv
<1>3. ASSUME flow_pc' \in {"out"} \cup Requests PROVE \A u \in Url : poll_pc'[u] = "off"
  <2>1. \A u \in Url : poll_pc[u] = "off"
    BY <1>3 DEF FlowInv, flowVars
  <2>2. ~PollNext
    BY <2>1, Urls DEF PollNext, get_retrying, Refused, fetch_served, Wake, wait_for_seal
  <2> QED
    BY <2>1, <2>2 DEF Tick, Delay, Happens
<1> QED
  BY <1>1, <1>2, <1>3, Urls DEF FlowInv, flowVars

\* Every step of the flow keeps what the earlier ones established.
LEMMA FlowNextInv == FlowInv /\ [FlowNext]_<<pollVars, flowVars>> => FlowInv'
<1> SUFFICES ASSUME FlowInv, [FlowNext]_<<pollVars, flowVars>> PROVE FlowInv'
  OBVIOUS
<1>1. ASSUME UNCHANGED pollVars PROVE PollInv'
  BY <1>1 DEF FlowInv, PollInv, pollVars, Late
<1>2. CASE FlowStart
  BY <1>1, <1>2, PollAssumption DEF FlowStart, FlowInv, Requests, PollInv, pollVars
<1>3. ASSUME NEW ok \in BOOLEAN, Request(ok) PROVE FlowInv'
  <2>1. flow_pc' \in {"version", "identity", "challenge", "session", "submit", "drive", "begin", "failed"}
    BY <1>3 DEF Request, Requests, After
  <2>2. PollInv' /\ UNCHANGED <<fetched, ready, poll_pc, seal_wait>> /\ flow_pc \in Requests
    BY <1>1, <1>3 DEF Request, pollVars
  <2> QED
    BY <2>1, <2>2 DEF FlowInv
<1>4. CASE Drive
  <2>1. PollInv'
    BY <1>1, <1>4, HappensInv, Urls DEF Drive, FlowInv
  <2> QED
    BY <1>4, <2>1 DEF Drive, FlowInv, Requests
<1>5. ASSUME NEW dyn \in {Interval, Interval + Budget}, BeginWait(dyn) PROVE FlowInv'
  <2>1. LeastOf(seal_wait, now + dyn) \in Nat
    BY PollAssumption DEF FlowInv, PollInv, LeastOf
  <2>2. PollInv'
    BY <1>5, <2>1, BeginPollInv, Urls DEF BeginWait, FlowInv
  <2> QED
    BY <1>5, <2>2 DEF BeginWait, FlowInv, Requests
<1>6. CASE EndWait
  <2>1. CASE poll_pc["schedule"] = "ok"
    <3>1. flow_pc' = "fetch" /\ fetched' = fetched /\ BeginPoll(Witness, "read", now + Budget)
      BY <1>6, <2>1 DEF EndWait
    <3>2. now + Budget \in Nat
      BY PollAssumption DEF FlowInv, PollInv
    <3>3. PollInv'
      BY <3>1, <3>2, BeginPollInv, Urls DEF FlowInv
    <3>4. ready'["schedule"]
      BY <2>1, <3>1, Urls DEF FlowInv, PollInv, BeginPoll
    <3> QED
      BY <1>6, <3>1, <3>3, <3>4 DEF FlowInv, EndWait, Requests
  <2>2. CASE poll_pc["schedule"] # "ok"
    BY <1>1, <1>6, <2>2 DEF EndWait, FlowInv, Requests
  <2> QED
    BY <2>1, <2>2
<1>7. ASSUME NEW bodies \in [Witness -> Served], EndFetch(bodies) PROVE FlowInv'
  <2>1. /\ flow_pc = "fetch" /\ flow_pc' = "parse" /\ UNCHANGED pollVars
        /\ fetched' = [u \in Witness |-> IF poll_pc[u] = "ok" THEN bodies[u] ELSE "none"]
    BY <1>7 DEF EndFetch
  <2>2. PollInv' /\ UNCHANGED ready
    BY <1>1, <2>1 DEF pollVars
  <2>3. \A u \in Witness : fetched'[u] # "none" => ready[u]
    BY <2>1, Urls DEF FlowInv, PollInv
  <2> QED
    BY <1>7, <2>1, <2>2, <2>3 DEF FlowInv, EndFetch, Requests
<1>8. CASE ParseBoth
  BY <1>1, <1>8 DEF ParseBoth, Parses, FlowInv, Requests, pollVars
<1>9. CASE verify_with_sdk
  BY <1>1, <1>9, FlowAssumption DEF verify_with_sdk, FlowInv, Requests, pollVars
<1>10. ASSUME NEW f \in BOOLEAN, NEW u \in BOOLEAN, Negatives(f, u) PROVE FlowInv'
  BY <1>1, <1>10 DEF Negatives, FlowInv, Requests, pollVars
<1>11. CASE UNCHANGED <<pollVars, flowVars>>
  BY <1>1, <1>11 DEF FlowInv, pollVars, flowVars
<1>12. CASE (PollNext \/ Tick \/ Delay \/ \E u \in Url : Happens(u)) /\ UNCHANGED flowVars
  BY <1>12, FlowMeanwhile
<1> QED
  BY <1>2, <1>3, <1>4, <1>5, <1>6, <1>7, <1>8, <1>9, <1>10, <1>11, <1>12 DEF FlowNext, FlowStep

\* The two facts about the flow alone.
LEMMA FlowInvariance == FlowSpec => []FlowInv
BY FlowInitInv, FlowNextInv, PTL DEF FlowSpec

----------------------------------------------------------------------------
(***************************************************************************)
(* The program: each of its steps is a step of the identity, of the flow   *)
(* or of the seal run, or none of theirs.                                  *)
(***************************************************************************)

\* The program uses the directory as StandingIdentity says.
LEMMA E2eIdentity == E2eSpec => IdSpec
<1>1. E2eInit => IdInit
  BY DEF E2eInit
<1>2. [E2eNext]_e2eVars => [IdNext]_idVars
  BY E2eAssumption DEF E2eNext, e2eVars, check_base_url, TakeIdentity, RaceForIdentity, RunFlow,
     ServerMoves, ClockTicks, RunSeal, IdNext
<1> QED
  BY <1>1, <1>2, PTL DEF E2eSpec, IdSpec

\* It runs the flow as Flow says.
LEMMA E2eFlow == E2eSpec => FlowSpec
<1>1. E2eInit => FlowInit
  BY DEF E2eInit
<1>2. [E2eNext]_e2eVars => [FlowNext]_<<pollVars, flowVars>>
  BY DEF E2eNext, e2eVars, check_base_url, TakeIdentity, RaceForIdentity, RunFlow,
     ServerMoves, ClockTicks, RunSeal, Idle, FlowNext
<1> QED
  BY <1>1, <1>2, PTL DEF E2eSpec, FlowSpec

\* In the whole program too, one directory yields one identity.
THEOREM OneIdentityInRuns == E2eSpec => []OneIdentity
BY E2eIdentity, StandingIdentityIsOne, PTL

\* run_full_flow passes only with the epoch sealed, both anchors settled, both
\* witnesses genuine and what must be refused refused, however its polls, the
\* server and the clock interleave.
THEOREM FlowPassSound == E2eSpec => []FlowPassIsSound
<1>1. FlowInv => FlowPassIsSound
  BY DEF FlowInv, FlowPassIsSound, Url
<1> QED
  BY <1>1, E2eFlow, FlowInvariance, PTL

\* get_retrying, wait_for_seal and fetch_served give up on an answer that is
\* there only if it came, or a read failed, in the last interval before the
\* deadline.
THEOREM PollsGiveUpLate == E2eSpec => []GivesUpLate
<1>1. FlowInv => GivesUpLate
  BY DEF FlowInv, PollInv, GivesUpLate
<1> QED
  BY <1>1, E2eFlow, FlowInvariance, PTL

\* The program's seal and its replay are steps of SealRun.
LEMMA E2eSeal == E2eSpec => SealSpec
<1>1. E2eInit => SealInit
  BY DEF E2eInit
<1>2. [E2eNext]_e2eVars => [SealNext]_sealVars
  BY DEF E2eNext, e2eVars, check_base_url, TakeIdentity, RaceForIdentity, RunFlow,
     ServerMoves, ClockTicks, RunSeal, Idle
<1> QED
  BY <1>1, <1>2, PTL DEF E2eSpec, SealSpec

\* In the whole program: submitted seals stay on disk, a pass is sound and can be
\* replayed, and a replay agrees with its run, notices damage and writes nothing.
THEOREM SealInRuns ==
    E2eSpec => /\ [](SubmittedStaysOnDisk /\ PassIsSound /\ PassIsReplayable)
               /\ [](ReplayAgrees /\ DamageIsCaught)
               /\ RunDirUntouched
BY E2eSeal, SealsOutliveTheRun, SealPassSound, SealPassReplayable, ReplayFindsTheSame,
   ReplayCatchesDamage, ReplayTouchesNothing, PTL

=============================================================================
