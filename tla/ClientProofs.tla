---------------------------- MODULE ClientProofs ----------------------------
(***************************************************************************)
(* The client crate: single flight of the token refresh, a known-servers   *)
(* file that loses no DID, and witnesses signed by the pinned DID.  For    *)
(* any number of tasks, threads, runs, servers and keys, first for the     *)
(* token cache and the program around the client by themselves, then for   *)
(* the client in use, where a program ends and starts again.               *)
(***************************************************************************)
EXTENDS Client, TLAPS

(***************************************************************************)
(* The token cache.  A refresher holds the flag, alone (FlightInv).        *)
(***************************************************************************)

\* A client that was just built satisfies the invariant.
LEMMA FlightInit == Init => FlightInv
<1> SUFFICES ASSUME Init PROVE FlightInv
    OBVIOUS
<1>1. TypeOK
  <2>1. 0 \in 0..MaxCalls /\ 0 \in 0..MaxExpiries
    BY TokenCacheAssumption
  <2>2. calls \in [Caller -> 0..MaxCalls] /\ expiries \in 0..MaxExpiries
    BY <2>1 DEF Init
  <2>3. in_flight \in BOOLEAN /\ dropped \in BOOLEAN /\ cached \in {"none", "fresh", "old"}
    BY DEF Init
  <2>4. pc \in [Caller -> Pc]
    BY DEF Init, Pc
  <2> QED
    BY <2>2, <2>3, <2>4 DEF TypeOK, Init
<1>2. ~in_flight /\ \A c \in Caller : ~Refreshing(c)
    BY DEF Init, Refreshing
<1> QED
    BY <1>1, <1>2 DEF FlightInv, SingleFlight, FlagHeldByRefresher

\* Steps of one caller that leave the flag alone and keep its caller on the
\* same side of the refresh.
LEMMA SameSide ==
    ASSUME FlightInv, NEW c \in Caller, NEW to \in Pc,
           pc' = [pc EXCEPT ![c] = to],
           in_flight' = in_flight,
           dropped' = dropped,
           to \in {"auth", "publish", "release"} <=> Refreshing(c),
           TypeOK'
    PROVE  FlightInv'
<1>1. \A d \in Caller : Refreshing(d)' <=> Refreshing(d)
    BY DEF FlightInv, TypeOK, Refreshing
<1> QED
    BY <1>1 DEF FlightInv, SingleFlight, FlagHeldByRefresher

\* Every step keeps the invariant.
LEMMA FlightNext ==
    ASSUME FlightInv, [Next]_vars
    PROVE  FlightInv'
<1>1. TypeOK
    BY DEF FlightInv
<1>2. ASSUME NEW c \in Caller, Call(c)
      PROVE  FlightInv'
  <2>1. TypeOK'
    BY <1>1, <1>2, TokenCacheAssumption DEF TypeOK, Call, Step, Pc
  <2>2. pc' = [pc EXCEPT ![c] = "look"] /\ in_flight' = in_flight /\ dropped' = dropped /\ ~Refreshing(c)
    BY <1>2 DEF Call, Step, Refreshing
  <2> QED
    BY <2>1, <2>2, SameSide DEF Pc
<1>3. ASSUME NEW c \in Caller, Look(c)
      PROVE  FlightInv'
  <2> DEFINE to == IF cached = "fresh" THEN "out" ELSE "claim"
  <2>1. TypeOK'
    BY <1>1, <1>3 DEF TypeOK, Look, Step, Pc
  <2>2. pc' = [pc EXCEPT ![c] = to] /\ in_flight' = in_flight /\ dropped' = dropped /\ ~Refreshing(c)
    BY <1>3 DEF Look, Step, Refreshing
  <2>3. to \in Pc /\ to \notin {"auth", "publish", "release"}
    BY DEF Pc
  <2> HIDE DEF to
  <2> QED
    BY <2>1, <2>2, <2>3, SameSide
<1>4. ASSUME NEW c \in Caller, Claim(c)
      PROVE  FlightInv'
  <2>1. TypeOK'
    BY <1>1, <1>4 DEF TypeOK, Claim, Step, Pc
  <2>2. CASE in_flight
    <3>1. PICK to \in {"park", "wait"} : pc' = [pc EXCEPT ![c] = to]
      BY <1>4, <2>2, TokenCacheAssumption DEF Claim, Step
    <3>2. in_flight' = in_flight /\ dropped' = dropped /\ ~Refreshing(c)
      BY <1>1, <1>4, <2>2 DEF Claim, Step, Refreshing, TypeOK
    <3> QED
      BY <2>1, <3>1, <3>2, SameSide DEF Pc
  <2>3. CASE ~in_flight
    <3>1. pc' = [pc EXCEPT ![c] = "auth"] /\ in_flight' = TRUE
      BY <1>4, <2>3 DEF Claim, Step
    <3>2. \A d \in Caller : ~Refreshing(d)
      BY <2>3 DEF FlightInv
    <3>3. \A d \in Caller : Refreshing(d)' <=> d = c
      BY <1>1, <3>1, <3>2 DEF TypeOK, Refreshing
    <3> QED
      BY <2>1, <3>1, <3>3 DEF FlightInv, SingleFlight, FlagHeldByRefresher
  <2> QED
    BY <2>2, <2>3
<1>5. ASSUME NEW c \in Caller, Park(c)
      PROVE  FlightInv'
  <2>1. TypeOK'
    BY <1>1, <1>5 DEF TypeOK, Park, Step, Pc
  <2>2. pc' = [pc EXCEPT ![c] = "wait"] /\ in_flight' = in_flight /\ dropped' = dropped /\ ~Refreshing(c)
    BY <1>5 DEF Park, Step, Refreshing
  <2> QED
    BY <2>1, <2>2, SameSide DEF Pc
<1>6. ASSUME NEW c \in Caller, AuthOk(c) \/ AuthFails(c) \/ Publish(c)
      PROVE  FlightInv'
  <2>1. TypeOK'
    BY <1>1, <1>6 DEF TypeOK, AuthOk, AuthFails, Publish, Step, Pc
  <2>2. PICK to \in {"publish", "release"} : pc' = [pc EXCEPT ![c] = to]
    BY <1>6 DEF AuthOk, AuthFails, Publish, Step
  <2>3. in_flight' = in_flight /\ dropped' = dropped /\ Refreshing(c)
    BY <1>6 DEF AuthOk, AuthFails, Publish, Step, Refreshing
  <2> QED
    BY <2>1, <2>2, <2>3, SameSide DEF Pc
<1>7. ASSUME NEW c \in Caller, Release(c)
      PROVE  FlightInv'
  <2>1. TypeOK'
    BY <1>1, <1>7 DEF TypeOK, Release, Step, Pc
  <2>2. pc[c] = "release" /\ pc' = [pc EXCEPT ![c] = "notify"] /\ in_flight' = FALSE
    BY <1>7 DEF Release, Step
  <2>3. \A d \in Caller : Refreshing(d) => d = c
    BY <2>2 DEF FlightInv, SingleFlight, Refreshing
  <2>4. \A d \in Caller : ~Refreshing(d)'
    BY <1>1, <2>2, <2>3 DEF TypeOK, Refreshing
  <2> QED
    BY <2>1, <2>2, <2>4 DEF FlightInv, SingleFlight, FlagHeldByRefresher
<1>8. ASSUME NEW c \in Caller, Notify(c)
      PROVE  FlightInv'
  <2>1. TypeOK'
    BY <1>1, <1>8 DEF TypeOK, Notify, Pc
  <2>2. in_flight' = in_flight /\ dropped' = dropped
    BY <1>8 DEF Notify
  <2>3. \A d \in Caller : Refreshing(d)' <=> Refreshing(d)
    BY <1>1, <1>8 DEF TypeOK, Notify, Refreshing
  <2> QED
    BY <2>1, <2>2, <2>3 DEF FlightInv, SingleFlight, FlagHeldByRefresher
<1>9. ASSUME NEW c \in Caller, Cancel(c)
      PROVE  FlightInv'
  <2>1. TypeOK'
    BY <1>1, <1>9 DEF TypeOK, Cancel, Pc
  <2>2. pc' = [pc EXCEPT ![c] = "out"] /\ in_flight' = in_flight
    BY <1>9 DEF Cancel
  <2>3. \A d \in Caller : Refreshing(d)' <=> Refreshing(d) /\ d # c
    BY <1>1, <2>2 DEF TypeOK, Refreshing
  <2>4. dropped \/ Refreshing(c) => dropped'
    BY <1>9 DEF Cancel, Refreshing
  <2>5. FlagHeldByRefresher'
    BY <2>2, <2>3, <2>4 DEF FlightInv, FlagHeldByRefresher
  <2> QED
    BY <2>1, <2>2, <2>3, <2>5 DEF FlightInv, SingleFlight
<1>10. CASE Expire \/ Finished \/ UNCHANGED vars
  <2>1. TypeOK'
    BY <1>1, <1>10, TokenCacheAssumption DEF TypeOK, Expire, Finished, vars
  <2>2. pc' = pc /\ in_flight' = in_flight /\ dropped' = dropped
    BY <1>10 DEF Expire, Finished, vars
  <2> QED
    BY <2>1, <2>2 DEF FlightInv, SingleFlight, FlagHeldByRefresher, Refreshing
<1> QED
    BY <1>2, <1>3, <1>4, <1>5, <1>6, <1>7, <1>8, <1>9, <1>10 DEF Next, ensure_token

\* The flag and the refreshers agree in every reachable state.
THEOREM FlightInvariance == Spec => []FlightInv
<1>1. Init => FlightInv
    BY FlightInit
<1>2. FlightInv /\ [Next]_vars => FlightInv'
    BY FlightNext
<1> QED
    BY <1>1, <1>2, PTL DEF Spec

\* At most one refresh runs at a time, on one thread or on many, whether or not
\* calls are dropped midway.
THEOREM OneRefresh == Spec => []SingleFlight
<1>1. FlightInv => SingleFlight
    BY DEF FlightInv
<1> QED
    BY <1>1, FlightInvariance, PTL

\* Unless a refreshing call was dropped, the flag is set only while some call
\* refreshes: errors of authenticate release it as well.
THEOREM FlagReleased == Spec => []FlagHeldByRefresher
<1>1. FlightInv => FlagHeldByRefresher
    BY DEF FlightInv
<1> QED
    BY <1>1, FlightInvariance, PTL

----------------------------------------------------------------------------
(***************************************************************************)
(* The known-servers file.  It holds what was recorded, memory what it     *)
(* held, and the temporary file a part of memory (KsInv).                  *)
(***************************************************************************)

\* A book changed at one URL is a book, with the entry there.
LEMMA BookExcept ==
    ASSUME NEW f \in Book, NEW u \in Url, NEW d \in Did \cup {NoDid}
    PROVE  /\ [f EXCEPT ![u] = d] \in Book
           /\ \A v \in Url : [f EXCEPT ![u] = d][v] = IF v = u THEN d ELSE f[v]
BY DEF Book

\* Books with the same entries are the same book.
LEMMA BookEqual ==
    ASSUME NEW f \in Book, NEW g \in Book, \A u \in Url : f[u] = g[u]
    PROVE  f = g
BY DEF Book

\* A run that has not started yet satisfies the invariant.
LEMMA InitKsInv == KsInit => KsInv
<1>. SUFFICES ASSUME KsInit PROVE KsInv
  OBVIOUS
<1>1. Blank \in Book
  BY DEF Blank, Book
<1>2. KsTypeOK
  BY <1>1, KnownServersAssumption DEF KsInit, KsTypeOK
<1>. QED  BY <1>2 DEF KsInit, KsInv

\* record sets the entry in memory and begins the temporary file anew: what it
\* has not written yet is exactly what the blank file lacks.
LEMMA RecordKsInv ==
    ASSUME KsInv, record
    PROVE  KsInv'
<1>1. /\ ks_pc = "built" /\ ks_pc' = "flush" /\ pinned \in Did /\ entries = file
      /\ entries \in Book /\ url \in Url
  BY DEF KsInv, KsTypeOK, record, KsGoto
<1>2. entries' \in Book /\ entries' = [file' EXCEPT ![url'] = pinned']
  BY <1>1, BookExcept DEF record
<1>3. tmp' \in Book /\ \A u \in Url : tmp'[u] = NoDid
  BY DEF record, Blank, Book
<1>4. \A u \in Url : u \notin unwritten' => tmp'[u] = entries'[u]
  BY <1>3 DEF record
<1>5. KsTypeOK'
  BY <1>1, <1>2, <1>3 DEF KsInv, KsTypeOK, record
<1>. QED  BY <1>1, <1>2, <1>4, <1>5 DEF KsInv, record

\* One entry more is in the temporary file.
LEMMA FlushLineKsInv ==
    ASSUME KsInv, NEW u \in Url, FlushLine(u)
    PROVE  KsInv'
<1>1. entries \in Book /\ tmp \in Book /\ ks_pc = "flush"
  BY DEF KsInv, KsTypeOK, FlushLine
<1>2. entries[u] \in Did \cup {NoDid}
  BY <1>1 DEF Book
<1>3. tmp' \in Book /\ \A v \in Url : tmp'[v] = IF v = u THEN entries[u] ELSE tmp[v]
  <2>1. tmp' = [tmp EXCEPT ![u] = entries[u]]
    BY DEF FlushLine
  <2>. QED  BY <1>1, <1>2, <2>1 DEF Book
<1>4. \A v \in Url : v \notin unwritten' => tmp'[v] = entries'[v]
  <2>1. \A v \in Url : v \notin unwritten => tmp[v] = entries[v]
    BY <1>1 DEF KsInv
  <2>2. entries' = entries /\ unwritten' = unwritten \ {u}
    BY DEF FlushLine
  <2>. QED  BY <1>3, <2>1, <2>2
<1>5. KsTypeOK'
  BY <1>3 DEF KsInv, KsTypeOK, FlushLine
<1>6. /\ ks_pc' = "flush" /\ entries' = entries /\ file' = file /\ trusted' = trusted
      /\ url' = url /\ pinned' = pinned
  BY <1>1 DEF FlushLine
<1>. QED  BY <1>1, <1>4, <1>5, <1>6 DEF KsInv

\* The complete temporary file replaces the file.
LEMMA RenameKsInv ==
    ASSUME KsInv, Rename
    PROVE  KsInv'
<1>1. /\ ks_pc = "flush" /\ ks_pc' = "ready" /\ unwritten = {}
      /\ entries \in Book /\ tmp \in Book /\ trusted \in Book
      /\ url \in Url /\ pinned \in Did \cup {NoDid}
      /\ file = trusted /\ entries = [file EXCEPT ![url] = pinned]
  BY DEF KsInv, KsTypeOK, Rename, KsGoto
<1>2. tmp = entries
  BY <1>1, BookEqual DEF KsInv
<1>3. file' = trusted' /\ file' \in Book /\ trusted' \in Book
  BY <1>1, <1>2 DEF Rename
<1>4. tmp' \in Book
  BY DEF Rename, Blank, Book
<1>5. KsTypeOK'
  BY <1>1, <1>3, <1>4 DEF KsInv, KsTypeOK, Rename
<1>. QED  BY <1>1, <1>3, <1>5 DEF KsInv

\* Every step of a run, its end and a rotation keep KsInv.
LEMMA NextKsInv == KsInv /\ [KsNext]_ksVars => KsInv'
<1>. SUFFICES ASSUME KsInv, [KsNext]_ksVars PROVE KsInv'
  OBVIOUS
<1>1. CASE UNCHANGED ksVars
  BY <1>1 DEF ksVars, KsInv, KsTypeOK
<1>2. ASSUME NEW u \in Url, open(u) PROVE KsInv'
  <2>1. KsTypeOK'
    BY <1>2, KnownServersAssumption DEF KsInv, KsTypeOK, open, KsGoto
  <2>. QED  BY <1>2, <2>1 DEF KsInv, open, KsGoto
<1>3. ASSUME NEW u \in Url, FlushLine(u) PROVE KsInv'
  BY <1>3, FlushLineKsInv
<1>4. ASSUME NEW policy \in Policy, discover(policy) PROVE KsInv'
  <2>1. /\ ks_pc = "opened" /\ ks_pc' = "discovered" /\ entries = file
        /\ pinned' = served_did[url] /\ pinned' \in Did
        /\ file[url] \in Did \cup {NoDid}
        /\ rotation' = IF file[url] \in {NoDid, pinned'} THEN NoDid ELSE file[url]
    BY <1>4 DEF KsInv, KsTypeOK, discover, KsGoto, lookup, Book
  <2>2. KsTypeOK'
    BY <1>4, <2>1 DEF KsInv, KsTypeOK, discover
  <2>. QED  BY <1>4, <2>1, <2>2 DEF KsInv, discover
<1>5. CASE record
  BY <1>5, RecordKsInv
<1>6. CASE Rename
  BY <1>6, RenameKsInv
<1>7. CASE FlushFails
  <2>1. KsTypeOK'
    BY <1>7 DEF KsInv, KsTypeOK, FlushFails, KsGoto
  <2>. QED  BY <1>7, <2>1 DEF KsInv, FlushFails, KsGoto
<1>8. CASE Built
  <2>1. KsTypeOK'
    BY <1>8 DEF KsInv, KsTypeOK, Built, KsGoto
  <2>. QED  BY <1>8, <2>1 DEF KsInv, Built, KsGoto
<1>9. CASE Exit
  <2>1. Blank \in Book
    BY DEF Blank, Book
  <2>2. KsTypeOK'
    BY <1>9, <2>1 DEF KsInv, KsTypeOK, Exit
  <2>. QED  BY <1>9, <2>2 DEF KsInv, Exit
<1>10. ASSUME NEW u \in Url, NEW d \in Did, Rotate(u, d) PROVE KsInv'
  <2>1. served_did' \in [Url -> Did]
    BY <1>10 DEF KsInv, KsTypeOK, Rotate
  <2>2. KsTypeOK'
    BY <1>10, <2>1 DEF KsInv, KsTypeOK, Rotate
  <2>. QED  BY <1>10, <2>2 DEF KsInv, Rotate
<1>. QED
  BY <1>1, <1>2, <1>3, <1>4, <1>5, <1>6, <1>7, <1>8, <1>9, <1>10 DEF KsNext, KsStep

\* A client that is built for a URL with a recorded DID is pinned to it or
\* reports the rotation (known_servers.rs flush, identity.rs
\* apply_rotation_policy).
THEOREM RotationIsNoticed == KsSpec => []RotationNoticed
<1>1. KsInv => RotationNoticed
  BY DEF KsInv, RotationNoticed
<1>. QED  BY <1>1, InitKsInv, NextKsInv, PTL DEF KsSpec

----------------------------------------------------------------------------
(***************************************************************************)
(* The client in use.  Its steps are steps of the token cache, except that *)
(* the end of the program empties it, and steps of the program around it.  *)
(***************************************************************************)

\* The steps that are not the program's end.
RunsOn ==
    \/ \E c \in Caller :
         \/ challenge(c) \/ session(c) \/ HandshakeFails(c) \/ TokenStep(c)
         \/ build(c)
         \/ \E o \in {"submit", "fetch", "await"} : Invoke(c, o)
         \/ HasToken(c)
         \/ \E answer \in {"accepted", "lost", "refused"} : submit_many(c, answer)
         \/ try_fetch_witness(c)
         \/ RequestFails(c)
         \/ schedule(c)
         \/ \E up \in BOOLEAN : await_witness(c, up)
         \/ Drop(c)
    \/ TokenAges
    \/ ProgramStep
    \/ \E ok \in BOOLEAN : Seal(ok)
    \/ \E end \in {"served", "stalled"} : SettleLeaf(end)
    \/ \E d \in Did : RestartServer(d)
    \/ \E t \in sessions : SessionExpires(t)

\* A step runs on or ends the program.
LEMMA ClientSteps == ClientNext <=> RunsOn \/ ProgramExits
BY DEF ClientNext, RunsOn

\* Until the program ends, the client takes steps of the token cache.
LEMMA RunsOnFlight == RunsOn => [Next]_vars
<1> SUFFICES ASSUME RunsOn PROVE [Next]_vars
  OBVIOUS
<1>1. ASSUME NEW c \in Caller, session(c) \/ HandshakeFails(c) PROVE Next
  BY <1>1 DEF session, HandshakeFails, Next, ensure_token
<1>2. ASSUME NEW c \in Caller, TokenStep(c) PROVE Next
  BY <1>2 DEF TokenStep, Next, ensure_token
<1>3. ASSUME NEW c \in Caller, build(c) PROVE Next
  BY <1>3 DEF build, AsksToken, Next
<1>4. ASSUME NEW c \in Caller, NEW o \in {"submit", "fetch", "await"}, Invoke(c, o) PROVE [Next]_vars
  BY <1>4 DEF Invoke, AsksToken, Next
<1>5. ASSUME NEW c \in Caller, schedule(c) PROVE [Next]_vars
  BY <1>5 DEF schedule, AsksToken, Next
<1>6. ASSUME NEW c \in Caller, Drop(c) PROVE [Next]_vars
  BY <1>6 DEF Drop, Next
<1>7. CASE TokenAges
  BY <1>7 DEF TokenAges, Next
<1>8. ASSUME NEW c \in Caller, challenge(c) \/ HasToken(c) \/ try_fetch_witness(c) \/ RequestFails(c)
      PROVE  UNCHANGED vars
  BY <1>8 DEF challenge, HasToken, try_fetch_witness, RequestFails
<1>9. ASSUME NEW c \in Caller, NEW answer, submit_many(c, answer) PROVE UNCHANGED vars
  BY <1>9 DEF submit_many
<1>10. ASSUME NEW c \in Caller, NEW up, await_witness(c, up) PROVE UNCHANGED vars
  BY <1>10 DEF await_witness
<1>11. CASE ProgramStep
  BY <1>11 DEF ProgramStep
<1>12. ASSUME NEW x, Seal(x) \/ SettleLeaf(x) \/ RestartServer(x) \/ SessionExpires(x)
       PROVE  UNCHANGED vars
  BY <1>12 DEF Seal, SettleLeaf, RestartServer, SessionExpires, Others
<1> QED
  BY <1>1, <1>2, <1>3, <1>4, <1>5, <1>6, <1>7, <1>8, <1>9, <1>10, <1>11, <1>12 DEF RunsOn

\* The program's end leaves no refresh behind.
LEMMA ExitFlight == ASSUME FlightInv, ProgramExits PROVE FlightInv'
<1>1. TypeOK'
  BY DEF ProgramExits, FlightInv, TypeOK, Pc
<1>2. \A c \in Caller : ~Refreshing(c)'
  BY DEF ProgramExits, Refreshing
<1>3. ~in_flight'
  BY DEF ProgramExits
<1> QED
  BY <1>1, <1>2, <1>3 DEF FlightInv, SingleFlight, FlagHeldByRefresher

\* The client in use takes steps of the program around it.
LEMMA ClientKs == KsInv /\ ClientNext => [KsNext]_ksVars
<1> SUFFICES ASSUME KsInv, ClientNext PROVE [KsNext]_ksVars
  OBVIOUS
<1>1. ASSUME NEW c \in Caller,
             challenge(c) \/ session(c) \/ HandshakeFails(c) \/ TokenStep(c) \/ build(c)
             \/ try_fetch_witness(c) \/ RequestFails(c) \/ schedule(c) \/ Drop(c)
      PROVE  UNCHANGED ksVars
  BY <1>1 DEF challenge, session, HandshakeFails, TokenStep, build, try_fetch_witness, RequestFails,
     schedule, Drop
<1>2. ASSUME NEW c \in Caller, NEW x, Invoke(c, x) \/ submit_many(c, x) \/ await_witness(c, x)
      PROVE  UNCHANGED ksVars
  BY <1>2 DEF Invoke, submit_many, await_witness
<1>3. ASSUME NEW c \in Caller, HasToken(c) PROVE [KsNext]_ksVars
  BY <1>3 DEF HasToken, KsNext
<1>4. CASE ProgramStep \/ ProgramExits
  BY <1>4 DEF ProgramStep, ProgramExits, KsNext
<1>5. ASSUME NEW d \in Did, RestartServer(d) PROVE KsNext
  <2>1. url \in Url
    BY DEF KsInv, KsTypeOK
  <2> QED
    BY <1>5, <2>1 DEF RestartServer, KsNext
<1>6. ASSUME NEW x, Seal(x) \/ SettleLeaf(x) \/ SessionExpires(x) PROVE UNCHANGED ksVars
  BY <1>6 DEF Seal, SettleLeaf, SessionExpires
<1>7. CASE TokenAges
  BY <1>7 DEF TokenAges
<1> QED
  BY <1>1, <1>2, <1>3, <1>4, <1>5, <1>6, <1>7 DEF ClientNext

\* What an operation's witness depends on is left alone.
UseStays == UNCHANGED <<op, result, ks_pc, leaf, signer, pinned>>

\* The operation of one caller ends without a witness, or goes on.
LEMMA EndsPlain ==
    ASSUME UseInv, NEW c \in Caller, NEW r \in {"none", "timeout", "error"}, NEW f, Returns(c, r, f),
           UNCHANGED <<ks_pc, pinned>>, leaf = "served" => UNCHANGED <<leaf, signer>>,
           UNCHANGED leaf \/ leaf' = "open"
    PROVE  UseInv'
BY DEF UseInv, Returns

\* Every step keeps what is said of operations and witnesses.
LEMMA RunsOnUse == ASSUME UseInv, RunsOn PROVE UseInv'
<1>1. ASSUME NEW c \in Caller, challenge(c) \/ session(c) \/ HandshakeFails(c) \/ TokenStep(c)
                                \/ schedule(c)
      PROVE  UseStays
  BY <1>1 DEF challenge, session, HandshakeFails, TokenStep, schedule, OpStep, opVars, serverVars, ksVars,
     UseStays
<1>2. CASE UseStays
  BY <1>2 DEF UseStays, UseInv
<1>3. ASSUME NEW c \in Caller, build(c) PROVE UseInv'
  BY <1>3 DEF build, UseInv, ksVars, serverVars
<1>4. ASSUME NEW c \in Caller, NEW o \in {"submit", "fetch", "await"}, Invoke(c, o) PROVE UseInv'
  <2>1. /\ ks_pc = "ready" /\ op' = [op EXCEPT ![c] = o] /\ result' = [result EXCEPT ![c] = "none"]
        /\ UNCHANGED <<ks_pc, leaf, signer, pinned>>
    BY <1>4 DEF Invoke, ksVars, serverVars
  <2> QED
    BY <2>1 DEF UseInv
<1>5. ASSUME NEW c \in Caller, HasToken(c) PROVE UseInv'
  <2>1. UNCHANGED <<leaf, signer>>
    BY <1>5 DEF HasToken, serverVars
  <2>2. CASE op[c] # "build" /\ UNCHANGED ksVars
    <3>1. UNCHANGED <<ks_pc, pinned>>
      BY <2>2 DEF ksVars
    <3>2. UseStays \/ Returns(c, "error", TRUE)
      BY <1>5, <2>1, <2>2, <3>1 DEF HasToken, OpStep, UseStays
    <3> QED
      BY <1>2, <2>1, <3>1, <3>2, EndsPlain
  <2>3. CASE op[c] = "build" /\ (Exit \/ Built)
    <3>1. ks_pc = "discovered" /\ ks_pc' # "ready" /\ \A d \in Caller : d # c => op[d] = "none"
      BY <2>3 DEF Exit, Built, KsGoto, UseInv
    <3>2. PICK r \in {"none", "error"} : op' = [op EXCEPT ![c] = "none"] /\ result' = [result EXCEPT ![c] = r]
      BY <1>5, <2>3 DEF HasToken, Returns
    <3> QED
      BY <2>1, <3>1, <3>2 DEF UseInv
  <2> QED
    BY <1>5, <2>2, <2>3 DEF HasToken
<1>6. ASSUME NEW c \in Caller, NEW answer, submit_many(c, answer) PROVE UseInv'
  <2>1. UNCHANGED <<ks_pc, pinned>> /\ leaf # "served" /\ (UNCHANGED leaf \/ leaf' = "open")
    BY <1>6 DEF submit_many, ksVars
  <2>2. \/ Returns(c, "none", FALSE)
        \/ Returns(c, "error", TRUE)
    BY <1>6 DEF submit_many
  <2> QED
    BY <2>1, <2>2, EndsPlain
<1>7. ASSUME NEW c \in Caller, try_fetch_witness(c) PROVE UseInv'
  <2>1. UNCHANGED <<ks_pc, pinned, leaf, signer>> /\ op[c] \in {"fetch", "await"}
    BY <1>7 DEF try_fetch_witness, ksVars, serverVars, Sends
  <2>2. ks_pc = "ready" /\ Answer(c) \in {200, 202, 401, 404, 503} /\ (Answer(c) = 200 => leaf = "served")
    BY <2>1 DEF UseInv, Answer
  <2>3. CASE Answer(c) = 200
    <3>1. leaf = "served"
      BY <2>2, <2>3
    <3>2. Returns(c, extract_witness_pair, signer # pinned)
      BY <1>7, <2>3 DEF try_fetch_witness
    <3>3. CASE signer = pinned
      <4>1. op' = [op EXCEPT ![c] = "none"] /\ result' = [result EXCEPT ![c] = "pair"]
        BY <3>2, <3>3 DEF Returns, extract_witness_pair
      <4> QED
        BY <2>1, <2>2, <3>1, <3>3, <4>1 DEF UseInv
    <3>4. CASE signer # pinned
      <4>1. Returns(c, "error", TRUE)
        BY <3>2, <3>4 DEF extract_witness_pair
      <4> QED
        BY <2>1, <4>1, EndsPlain
    <3> QED
      BY <3>3, <3>4
  <2>4. CASE Answer(c) # 200
    <3>1. UseStays \/ Returns(c, "none", FALSE) \/ Returns(c, "error", FALSE) \/ Returns(c, "error", TRUE)
      BY <1>7, <2>1, <2>4 DEF try_fetch_witness, OpStep, UseStays
    <3> QED
      BY <1>2, <2>1, <3>1, EndsPlain
  <2> QED
    BY <2>3, <2>4
<1>8. ASSUME NEW c \in Caller, RequestFails(c) PROVE UseInv'
  <2>1. UNCHANGED <<ks_pc, pinned, leaf, signer>> /\ Returns(c, "error", TRUE)
    BY <1>8 DEF RequestFails, ksVars, serverVars
  <2> QED
    BY <2>1, EndsPlain
<1>9. ASSUME NEW c \in Caller, NEW up, await_witness(c, up) PROVE UseInv'
  <2>1. UNCHANGED <<ks_pc, pinned, leaf, signer>>
    BY <1>9 DEF await_witness, ksVars, serverVars
  <2>2. UseStays \/ Returns(c, "timeout", FALSE)
    BY <1>9, <2>1 DEF await_witness, OpStep, UseStays
  <2> QED
    BY <1>2, <2>1, <2>2, EndsPlain
<1>10. ASSUME NEW c \in Caller, Drop(c) PROVE UseInv'
  <2>1. op' = [op EXCEPT ![c] = "none"] /\ UNCHANGED <<result, ks_pc, pinned, leaf, signer>>
    BY <1>10 DEF Drop, ksVars
  <2> QED
    BY <2>1 DEF UseInv
<1>11. CASE TokenAges
  BY <1>2, <1>11 DEF TokenAges, opVars, serverVars, ksVars, UseStays
<1>12. CASE ProgramStep
  <2>1. UNCHANGED <<op, result, leaf, signer>>
    BY <1>12 DEF ProgramStep, serverVars, opVars
  <2>2. CASE ks_pc \in {"discovered", "ready"}
    <3>1. FALSE
      BY <1>12, <2>2 DEF ProgramStep, KsStep, open, FlushLine, discover, record, Rename, FlushFails, KsGoto
    <3> QED
      BY <3>1
  <2>3. CASE ks_pc \notin {"discovered", "ready"}
    <3>1. \A c \in Caller : op[c] = "none" /\ result[c] # "pair"
      BY <2>3 DEF UseInv
    <3> QED
      BY <2>1, <3>1 DEF UseInv
  <2> QED
    BY <2>2, <2>3
<1>13. ASSUME NEW ok \in BOOLEAN, Seal(ok) PROVE UseInv'
  BY <1>13 DEF Seal, Others, opVars, ksVars, UseInv
<1>14. ASSUME NEW end \in {"served", "stalled"}, SettleLeaf(end) PROVE UseInv'
  BY <1>14 DEF SettleLeaf, Others, opVars, ksVars, UseInv
<1>15. ASSUME NEW d \in Did, RestartServer(d) PROVE UseInv'
  BY <1>15 DEF RestartServer, Rotate, Others, opVars, UseInv
<1>16. ASSUME NEW t, SessionExpires(t) PROVE UseInv'
  BY <1>16 DEF SessionExpires, Others, opVars, ksVars, UseInv
<1> QED
  BY <1>1, <1>2, <1>3, <1>4, <1>5, <1>6, <1>7, <1>8, <1>9, <1>10, <1>11, <1>12, <1>13, <1>14, <1>15,
     <1>16 DEF RunsOn

\* The client that nobody has built yet.
LEMMA ClientInitInv == ClientInit => ClientInv
<1> SUFFICES ASSUME ClientInit PROVE ClientInv
  OBVIOUS
<1>1. FlightInv /\ KsInv
  BY FlightInit, InitKsInv DEF ClientInit
<1>2. UseInv
  BY DEF ClientInit, UseInv
<1> QED
  BY <1>1, <1>2 DEF ClientInv

\* Every step of the client in use keeps its invariant.
LEMMA ClientNextInv == ClientInv /\ [ClientNext]_clientVars => ClientInv'
<1> SUFFICES ASSUME ClientInv, [ClientNext]_clientVars PROVE ClientInv'
  OBVIOUS
<1>1. FlightInv /\ KsInv /\ UseInv
  BY DEF ClientInv
<1>2. CASE UNCHANGED clientVars
  <2>1. UNCHANGED <<vars, ksVars, op, result, leaf, signer>>
    BY <1>2 DEF clientVars, opVars, serverVars
  <2>2. FlightInv' /\ KsInv'
    BY <1>1, <2>1, FlightNext, NextKsInv
  <2>3. UseInv'
    BY <1>1, <2>1 DEF UseInv, ksVars
  <2> QED
    BY <2>2, <2>3 DEF ClientInv
<1>3. CASE ClientNext
  <2>1. KsInv'
    BY <1>1, <1>3, ClientKs, NextKsInv
  <2>2. CASE RunsOn
    <3>1. FlightInv'
      BY <1>1, <2>2, RunsOnFlight, FlightNext
    <3> QED
      BY <1>1, <2>1, <2>2, <3>1, RunsOnUse DEF ClientInv
  <2>3. CASE ProgramExits
    <3>1. FlightInv'
      BY <1>1, <2>3, ExitFlight
    <3>2. UseInv'
      BY <1>1, <2>3 DEF ProgramExits, UseInv
    <3> QED
      BY <2>1, <3>1, <3>2 DEF ClientInv
  <2> QED
    BY <1>3, <2>2, <2>3, ClientSteps
<1> QED
  BY <1>2, <1>3

\* The invariant of the client in use.
LEMMA ClientInvariance == ClientSpec => []ClientInv
BY ClientInitInv, ClientNextInv, PTL DEF ClientSpec

\* The client in use hands out only settled witnesses, signed by the DID it was
\* built with, whatever the server's key is by then (client.rs
\* extract_witness_pair).
THEOREM PairsArePinned == ClientSpec => []WitnessIsPinned
<1>1. ClientInv => WitnessIsPinned
  BY DEF ClientInv, UseInv, WitnessIsPinned
<1> QED
  BY <1>1, ClientInvariance, PTL

\* Single flight, the flag's release and the noticed rotation hold of the client
\* in use as well, over programs that end in the middle of a refresh.
THEOREM SharedClientSafe == ClientSpec => [](SingleFlight /\ FlagHeldByRefresher /\ RotationNoticed)
<1>1. ClientInv => SingleFlight /\ FlagHeldByRefresher /\ RotationNoticed
  BY DEF ClientInv, FlightInv, KsInv, RotationNoticed
<1> QED
  BY <1>1, ClientInvariance, PTL

=============================================================================
