----------------------------- MODULE TokenCache -----------------------------
(***************************************************************************)
(* The client's session-token cache (aqua-timestamp-client, auth.rs):      *)
(* concurrent calls of ensure_token, of which one refreshes the token      *)
(* while the others wait to be notified.                                   *)
(*                                                                         *)
(*   look --> claim --> auth --> publish --> release --> notify --> out    *)
(*    ^         |                                                          *)
(*    +- wait <-+ park                                                     *)
(*                                                                         *)
(* tokio's Notify (external): notify_waiters wakes the futures that exist  *)
(* at that moment and leaves no permit behind.  Between the failed claim   *)
(* and the creation of the future (park) there is no await, so with one    *)
(* thread the two are one step; with several, another thread may run       *)
(* between them.                                                           *)
(***************************************************************************)
EXTENDS Naturals, FiniteSets

CONSTANTS
    Caller,         \* concurrent tasks that use one client
    Threads,        \* the runtimes explored: "one" (current_thread), "many"
    Cancellation,   \* TRUE: a call may be dropped at an await, or its signer panic
    MaxCalls,       \* bound: calls of one caller
    MaxExpiries     \* bound: times a cached token comes near its end

ASSUME TokenCacheAssumption ==
    /\ Threads \subseteq {"one", "many"}
    /\ Cancellation \in BOOLEAN
    /\ MaxCalls \in Nat
    /\ MaxExpiries \in Nat

VARIABLES
    threads,    \* the runtime of this client
    pc,         \* caller |-> where its call is
    calls,      \* caller |-> calls made
    in_flight,  \* the atomic flag
    cached,     \* the token: "none", "fresh", or "old" (needs_refresh)
    expiries,   \* expiries so far
    dropped     \* history: a refreshing call was dropped

vars == <<threads, pc, calls, in_flight, cached, expiries, dropped>>

Pc == {"out", "look", "claim", "park", "wait", "auth", "publish", "release", "notify"}

TypeOK ==
    /\ threads \in Threads
    /\ pc \in [Caller -> Pc]
    /\ calls \in [Caller -> 0..MaxCalls]
    /\ in_flight \in BOOLEAN
    /\ cached \in {"none", "fresh", "old"}
    /\ expiries \in 0..MaxExpiries
    /\ dropped \in BOOLEAN

Init ==
    /\ threads \in Threads
    /\ pc = [c \in Caller |-> "out"]
    /\ calls = [c \in Caller |-> 0]
    /\ in_flight = FALSE
    /\ cached = "none"
    /\ expiries = 0
    /\ dropped = FALSE

Step(c, from, to) ==
    /\ pc[c] = from
    /\ pc' = [pc EXCEPT ![c] = to]

----------------------------------------------------------------------------

Call(c) ==
    /\ calls[c] < MaxCalls
    /\ Step(c, "out", "look")
    /\ calls' = [calls EXCEPT ![c] = @ + 1]
    /\ UNCHANGED <<threads, in_flight, cached, expiries, dropped>>

\* The cached token is returned unless it is missing or near its end.
Look(c) ==
    /\ Step(c, "look", IF cached = "fresh" THEN "out" ELSE "claim")
    /\ UNCHANGED <<threads, calls, in_flight, cached, expiries, dropped>>

\* Faulty variant: the flag is not tested.
ClaimUntested(c) ==
    /\ Step(c, "claim", "auth")
    /\ in_flight' = TRUE
    /\ UNCHANGED <<threads, calls, cached, expiries, dropped>>

\* compare_exchange on the flag.
Claim(c) ==
    /\ Step(c, "claim",
            IF in_flight THEN (IF threads = "many" THEN "park" ELSE "wait") ELSE "auth")
    /\ in_flight' = TRUE
    /\ UNCHANGED <<threads, calls, cached, expiries, dropped>>

\* refresh.notified() creates the future that can be woken.
Park(c) ==
    /\ Step(c, "park", "wait")
    /\ UNCHANGED <<threads, calls, in_flight, cached, expiries, dropped>>

\* authenticate() returns a session ...
AuthOk(c) ==
    /\ Step(c, "auth", "publish")
    /\ UNCHANGED <<threads, calls, in_flight, cached, expiries, dropped>>

\* Faulty variant: the error is returned at once.
AuthFailsEarly(c) ==
    /\ Step(c, "auth", "out")
    /\ UNCHANGED <<threads, calls, in_flight, cached, expiries, dropped>>

\* ... or an error, which is kept until the waiters have been notified.
AuthFails(c) ==
    /\ Step(c, "auth", "release")
    /\ UNCHANGED <<threads, calls, in_flight, cached, expiries, dropped>>

Publish(c) ==
    /\ Step(c, "publish", "release")
    /\ cached' = "fresh"
    /\ UNCHANGED <<threads, calls, in_flight, expiries, dropped>>

Release(c) ==
    /\ Step(c, "release", "notify")
    /\ in_flight' = FALSE
    /\ UNCHANGED <<threads, calls, cached, expiries, dropped>>

\* Faulty variant: one waiter is woken.
NotifyOne(c) ==
    /\ pc[c] = "notify"
    /\ IF \E d \in Caller : pc[d] = "wait"
         THEN \E d \in Caller : pc[d] = "wait" /\ pc' = [pc EXCEPT ![c] = "out", ![d] = "look"]
         ELSE pc' = [pc EXCEPT ![c] = "out"]
    /\ UNCHANGED <<threads, calls, in_flight, cached, expiries, dropped>>

\* notify_waiters, and the refresher returns its own result.
Notify(c) ==
    /\ pc[c] = "notify"
    /\ pc' = [d \in Caller |-> CASE d = c          -> "out"
                                 [] pc[d] = "wait" -> "look"
                                 [] OTHER          -> pc[d]]
    /\ UNCHANGED <<threads, calls, in_flight, cached, expiries, dropped>>

\* The call is dropped at one of its awaits, or the signer panics.
Cancel(c) ==
    /\ Cancellation
    /\ pc[c] \in {"look", "wait", "auth", "publish"}
    /\ pc' = [pc EXCEPT ![c] = "out"]
    /\ dropped' = (dropped \/ pc[c] \in {"auth", "publish"})
    /\ UNCHANGED <<threads, calls, in_flight, cached, expiries>>

\* The clock comes within REFRESH_LEAD_SECS of the token's end.
Expire ==
    /\ cached = "fresh"
    /\ expiries < MaxExpiries
    /\ cached' = "old"
    /\ expiries' = expiries + 1
    /\ UNCHANGED <<threads, pc, calls, in_flight, dropped>>

ensure_token(c) ==
    \/ Look(c)
    \/ Claim(c)
    \/ Park(c)
    \/ AuthOk(c)
    \/ AuthFails(c)
    \/ Publish(c)
    \/ Release(c)
    \/ Notify(c)

\* All calls are made and answered.
Finished ==
    /\ \A c \in Caller : pc[c] = "out" /\ calls[c] = MaxCalls
    /\ UNCHANGED vars

Next ==
    \/ \E c \in Caller : Call(c) \/ ensure_token(c) \/ Cancel(c)
    \/ Expire
    \/ Finished

Spec == Init /\ [][Next]_vars

----------------------------------------------------------------------------
(* Properties. *)

\* c has claimed the refresh and not given it back.
Refreshing(c) == pc[c] \in {"auth", "publish", "release"}

\* At most one refresh runs at a time, also when calls are dropped midway.
SingleFlight == \A c, d \in Caller : Refreshing(c) /\ Refreshing(d) => c = d

\* Unless a refreshing call was dropped, the flag is set only while some call
\* is refreshing: ensure_token releases it whatever way the refresh ends.
FlagHeldByRefresher == in_flight => dropped \/ \E c \in Caller : Refreshing(c)

\* The inductive form of the two: a refresher holds the flag, alone.
FlightInv ==
    /\ TypeOK
    /\ \A c \in Caller : Refreshing(c) => in_flight
    /\ SingleFlight
    /\ FlagHeldByRefresher

\* Calls are polled until they finish, and authenticate() returns some day.
Fairness == \A c \in Caller : WF_vars(ensure_token(c))

FairSpec == Spec /\ Fairness

\* Unless a refreshing call was dropped, every call of ensure_token returns, with
\* a token or an error: notify_waiters leaves no waiter behind.
EveryCallReturns ==
    \A c \in Caller : pc[c] # "out" ~> pc[c] = "out" \/ dropped

\* The same on a current_thread runtime, where nothing comes between a failed
\* claim and the future that is to be notified.
ReturnsOnOneThread ==
    \A c \in Caller : threads = "one" /\ pc[c] # "out" ~> pc[c] = "out" \/ dropped

=============================================================================
