---------------------------- MODULE KnownServers ----------------------------
(***************************************************************************)
(* How a program that uses the client crate comes to trust a server, over  *)
(* several runs: it opens its known-servers file, looks the base URL up,   *)
(* builds a client that expects the recorded DID and records the DID that  *)
(* was discovered (client known_servers.rs, identity.rs, client.rs build). *)
(*                                                                         *)
(*   off --> opened --> discovered --> built --> flush --> ready           *)
(*                                                                         *)
(* A run may end anywhere, also between two writes of the file.  Runs do   *)
(* not overlap: two programs that share the file would share the temporary *)
(* file too and lose each other's entries.                                 *)
(***************************************************************************)
EXTENDS Naturals, FiniteSets

CONSTANTS
    Url,        \* base URLs (normalised)
    Did,        \* server DIDs
    NoDid,      \* no entry
    MaxRuns     \* bound: runs of the program

ASSUME KnownServersAssumption ==
    /\ NoDid \notin Did
    /\ MaxRuns \in Nat

Policy == {"Refuse", "Warn", "Accept", "Reject"}   \* the last two: a Custom callback

VARIABLES
    served_did, \* url |-> the DID its server advertises
    file,       \* url |-> its entry in the file
    tmp,        \* url |-> its entry in the temporary file
    entries,    \* url |-> its entry in memory
    unwritten,  \* entries that flush has still to write
    ks_pc,      \* where the run is
    url,        \* the server of this run
    pinned,     \* the DID the client is pinned to
    rotation,   \* the prior DID, if build saw another and went on
    ks_runs,    \* runs so far
    trusted     \* history: url |-> the DID last recorded

ksVars == <<served_did, file, tmp, entries, unwritten, ks_pc, url, pinned, rotation,
            ks_runs, trusted>>

Book == [Url -> Did \cup {NoDid}]
Blank == [u \in Url |-> NoDid]

KsTypeOK ==
    /\ served_did \in [Url -> Did]
    /\ file \in Book /\ tmp \in Book /\ entries \in Book /\ trusted \in Book
    /\ unwritten \subseteq Url
    /\ ks_pc \in {"off", "opened", "discovered", "built", "flush", "ready"}
    /\ url \in Url
    /\ pinned \in Did \cup {NoDid} /\ rotation \in Did \cup {NoDid}
    /\ ks_runs \in 0..MaxRuns

KsInit ==
    /\ served_did \in [Url -> Did]
    /\ file \in Book            \* what runs before these left
    /\ trusted = file
    /\ tmp = Blank /\ entries = Blank
    /\ unwritten = {}
    /\ ks_pc = "off"
    /\ url \in Url
    /\ pinned = NoDid /\ rotation = NoDid
    /\ ks_runs = 0

KsGoto(from, to) ==
    /\ ks_pc = from
    /\ ks_pc' = to

\* The operator of u's server gives it another key.
Rotate(u, d) ==
    /\ served_did' = [served_did EXCEPT ![u] = d]
    /\ UNCHANGED <<file, tmp, entries, unwritten, ks_pc, url, pinned, rotation, ks_runs, trusted>>

\* KnownServersFile::open; lines that do not parse are passed over.
open(u) ==
    /\ KsGoto("off", "opened")
    /\ ks_runs < MaxRuns
    /\ ks_runs' = ks_runs + 1
    /\ url' = u
    /\ entries' = file
    /\ UNCHANGED <<served_did, file, tmp, unwritten, pinned, rotation, trusted>>

lookup == entries[url]

\* apply_rotation_policy lets a DID through.
Admitted(d, policy) ==
    lookup \in {NoDid, d} \/ policy \in {"Warn", "Accept"}

\* The identity is fetched, its claim verified and the policy applied; any
\* failure ends the run.
discover(policy) ==
    LET d == served_did[url]
    IN  /\ KsGoto("opened", "discovered")
        /\ Admitted(d, policy)
        /\ pinned' = d
        /\ rotation' = IF lookup \in {NoDid, d} THEN NoDid ELSE lookup
        /\ UNCHANGED <<served_did, file, tmp, entries, unwritten, url, ks_runs, trusted>>

\* The first handshake succeeded: build returns the client.
Built ==
    /\ KsGoto("discovered", "built")
    /\ UNCHANGED <<served_did, file, tmp, entries, unwritten, url, pinned, rotation, ks_runs, trusted>>

\* Faulty variant: the file itself is truncated.
record_in_place ==
    /\ KsGoto("built", "flush")
    /\ entries' = [entries EXCEPT ![url] = pinned]
    /\ file' = Blank
    /\ tmp' = Blank
    /\ unwritten' = {u \in Url : entries'[u] # NoDid}
    /\ UNCHANGED <<served_did, url, pinned, rotation, ks_runs, trusted>>

\* record: the entry is set in memory, and flush truncates the temporary file,
\* writes every entry to it and renames it.
record ==
    /\ KsGoto("built", "flush")
    /\ entries' = [entries EXCEPT ![url] = pinned]
    /\ tmp' = Blank
    /\ unwritten' = {u \in Url : entries'[u] # NoDid}
    /\ UNCHANGED <<served_did, file, url, pinned, rotation, ks_runs, trusted>>

FlushLine(u) ==
    /\ ks_pc = "flush" /\ u \in unwritten
    /\ tmp' = [tmp EXCEPT ![u] = entries[u]]
    /\ unwritten' = unwritten \ {u}
    /\ UNCHANGED <<served_did, file, entries, ks_pc, url, pinned, rotation, ks_runs, trusted>>

Rename ==
    /\ KsGoto("flush", "ready") /\ unwritten = {}
    /\ file' = tmp
    /\ tmp' = Blank
    /\ trusted' = [trusted EXCEPT ![url] = pinned]
    /\ UNCHANGED <<served_did, entries, unwritten, url, pinned, rotation, ks_runs>>

\* An I/O error; the client is there all the same.
FlushFails ==
    /\ KsGoto("flush", "ready")
    /\ unwritten' = {}
    /\ UNCHANGED <<served_did, file, tmp, entries, url, pinned, rotation, ks_runs, trusted>>

\* The run ends, or is ended.
Exit ==
    /\ ks_pc # "off"
    /\ ks_pc' = "off"
    /\ entries' = Blank
    /\ unwritten' = {}
    /\ pinned' = NoDid /\ rotation' = NoDid
    /\ UNCHANGED <<served_did, file, tmp, url, ks_runs, trusted>>

KsStep ==
    \/ \E u \in Url : open(u) \/ FlushLine(u)
    \/ \E policy \in Policy : discover(policy)
    \/ record
    \/ Rename
    \/ FlushFails

KsNext ==
    \/ KsStep
    \/ Built
    \/ Exit
    \/ \E u \in Url, d \in Did : Rotate(u, d)

KsSpec == KsInit /\ [][KsNext]_ksVars

----------------------------------------------------------------------------
(* Properties. *)

\* No change of a server's key goes unnoticed: a client that is built for a URL
\* with a recorded DID is pinned to it, or reports the rotation away from it,
\* wherever earlier runs died and whatever their writes did.
RotationNoticed ==
    ks_pc \in {"discovered", "built"} => trusted[url] \in {NoDid, pinned, rotation}

\* The inductive form: the file holds what was recorded, memory what the file
\* held, and the temporary file is a part of memory.
KsInv ==
    /\ KsTypeOK
    /\ file = trusted
    /\ ks_pc \in {"opened", "discovered", "built"} => entries = file
    /\ ks_pc = "flush" =>
         /\ entries = [file EXCEPT ![url] = pinned]
         /\ \A u \in Url : u \notin unwritten => tmp[u] = entries[u]
    /\ ks_pc \in {"discovered", "built"} =>
         /\ pinned \in Did
         /\ file[url] \in {NoDid, pinned, rotation}

=============================================================================
