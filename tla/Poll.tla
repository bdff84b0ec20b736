-------------------------------- MODULE Poll --------------------------------
(***************************************************************************)
(* The end-to-end test's polls (flow.rs get_retrying and wait_for_seal,    *)
(* witness.rs fetch_served): a read is repeated until its deadline while   *)
(* the answer is a failure or "not yet"; any other answer is final.        *)
(*                                                                         *)
(*   off --> read --> nap --> read ... --> ok | timeout | final            *)
(*    '----> doze --> read ...           (wait_for_seal: the clock first)    *)
(*                                                                         *)
(* Time is counted in ticks.  A request is answered, or fails, within the  *)
(* tick in which it is sent, and a sleeper runs in the tick it is due.     *)
(***************************************************************************)
EXTENDS Naturals, FiniteSets

CONSTANTS
    Interval,   \* ticks between two reads
    Budget,     \* ticks a poll is given
    MaxTime     \* bound: ticks

ASSUME PollAssumption ==
    /\ Interval \in Nat \ {0}
    /\ Budget \in Nat
    /\ MaxTime \in Nat

Witness == {"evm", "qtsa"}
Url == {"schedule"} \cup Witness

VARIABLES
    now,
    poll_pc,    \* url |-> where its poll is
    deadline,   \* url |-> its deadline
    wake,       \* url |-> when its sleep ends
    ready,      \* url |-> the server has it
    excused     \* history: url |-> it came, or a read failed, in the last interval,
                \* or the deadline was over when the poll began

pollVars == <<now, poll_pc, deadline, wake, ready, excused>>

PollInit ==
    /\ now = 1
    /\ poll_pc = [u \in Url |-> "off"]
    /\ deadline = [u \in Url |-> 0]
    /\ wake = [u \in Url |-> 0]
    /\ ready = [u \in Url |-> FALSE]
    /\ excused = [u \in Url |-> FALSE]

LeastOf(a, b) == IF a <= b THEN a ELSE b

\* The last interval of u's poll has begun.
Late(u) == now + Interval >= deadline[u]

\* The epoch is sealed, or an anchor of it is settled.
Happens(u) ==
    /\ ~ready[u]
    /\ u \in Witness => ready["schedule"]
    /\ ready' = [ready EXCEPT ![u] = TRUE]
    /\ excused' = [excused EXCEPT ![u] = @ \/ Late(u)]
    /\ UNCHANGED <<now, poll_pc, deadline, wake>>

\* Polls begin, with a read or (wait_for_seal) with a look at the clock.
BeginPoll(us, pc, d) ==
    /\ poll_pc' = [u \in Url |-> IF u \in us THEN pc ELSE poll_pc[u]]
    /\ deadline' = [u \in Url |-> IF u \in us THEN d ELSE deadline[u]]
    /\ wake' = [u \in Url |-> IF u \in us THEN now ELSE wake[u]]
    /\ excused' = [u \in Url |-> IF u \in us THEN pc = "doze" /\ d <= now ELSE excused[u]]
    /\ UNCHANGED <<now, ready>>

PollStep(u, pc, wake_) ==
    /\ poll_pc' = [poll_pc EXCEPT ![u] = pc]
    /\ wake' = [wake EXCEPT ![u] = wake_]
    /\ UNCHANGED <<now, deadline, ready>>

\* Faulty variant: a failure is an answer.
get_once(u) ==
    /\ poll_pc[u] = "read"
    /\ PollStep(u, "timeout", 0)
    /\ excused' = [excused EXCEPT ![u] = @ \/ Late(u)]

\* A transport error, a body that does not arrive or a 5xx: read again after a
\* sleep that ends at the deadline at the latest, or give up past it.
get_retrying(u) ==
    /\ poll_pc[u] = "read"
    /\ IF now >= deadline[u]
         THEN PollStep(u, "timeout", 0)
         ELSE PollStep(u, "nap", LeastOf(now + Interval, deadline[u]))
    /\ excused' = [excused EXCEPT ![u] = @ \/ Late(u)]

\* A 4xx is final; 404 too, which a server may answer in the middle of storing
\* an anchor.
Refused(u) ==
    /\ poll_pc[u] = "read"
    /\ PollStep(u, "final", 0)
    /\ UNCHANGED excused

\* /v1/schedule answers: the epoch is sealed, or it is not and the loop sleeps.
wait_for_seal ==
    /\ poll_pc["schedule"] = "read"
    /\ IF ready["schedule"] THEN PollStep("schedule", "ok", 0)
                                ELSE PollStep("schedule", "doze", now + Interval)
    /\ UNCHANGED excused

\* /trees/by-leaf answers: 200, or 202, which ends the poll past the deadline.
fetch_served(u) ==
    /\ u \in Witness /\ poll_pc[u] = "read"
    /\ IF ready[u] THEN PollStep(u, "ok", 0)
       ELSE IF now >= deadline[u] THEN PollStep(u, "timeout", 0)
       ELSE PollStep(u, "nap", now + Interval)
    /\ UNCHANGED excused

\* Faulty variant: the loop never looks at the clock.
WakeAlways(u) ==
    /\ poll_pc[u] \in {"nap", "doze"} /\ wake[u] <= now
    /\ PollStep(u, "read", 0)
    /\ UNCHANGED excused

\* A sleep ends.  wait_for_seal looks at the clock before each read.
Wake(u) ==
    /\ poll_pc[u] \in {"nap", "doze"} /\ wake[u] <= now
    /\ PollStep(u, IF poll_pc[u] = "doze" /\ now >= deadline[u] THEN "timeout" ELSE "read", 0)
    /\ UNCHANGED excused

Tick ==
    /\ now < MaxTime
    /\ \E u \in Url : poll_pc[u] \in {"nap", "doze"}
    /\ \A u \in Url : poll_pc[u] # "read" /\ (poll_pc[u] \in {"nap", "doze"} => wake[u] > now)
    /\ now' = now + 1
    /\ UNCHANGED <<poll_pc, deadline, wake, ready, excused>>

PollNext ==
    \/ \E u \in Url : get_retrying(u) \/ Refused(u) \/ fetch_served(u) \/ Wake(u)
    \/ wait_for_seal

----------------------------------------------------------------------------
(* Properties. *)

\* A poll gives up only when it could not have known better: if the answer was
\* there, and reads worked, a full interval before the deadline, it was read;
\* unless the time was up before the first read.
GivesUpLate ==
    \A u \in Url : poll_pc[u] = "timeout" /\ ready[u] => excused[u]

\* The inductive form.  An answer that comes during wait_for_seal's sleep and is
\* not excused comes so early that the sleep ends before the deadline.
PollInv ==
    /\ now \in Nat
    /\ poll_pc \in [Url -> {"off", "read", "nap", "doze", "ok", "timeout", "final"}]
    /\ deadline \in [Url -> Nat]
    /\ wake \in [Url -> Nat]
    /\ ready \in [Url -> BOOLEAN]
    /\ excused \in [Url -> BOOLEAN]
    /\ \A u \in Url :
          /\ poll_pc[u] = "ok" => ready[u]
          /\ poll_pc[u] = "timeout" => Late(u) /\ (ready[u] => excused[u])
          /\ poll_pc[u] = "doze" =>
                /\ now <= wake[u]
                /\ wake[u] <= now + Interval
                /\ ready[u] /\ ~excused[u] => wake[u] < deadline[u]

============================================================================
