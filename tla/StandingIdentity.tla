-------------------------- MODULE StandingIdentity --------------------------
(***************************************************************************)
(* The standing identity of the end-to-end test (e2e identity.rs): a key   *)
(* file and a record file in one directory, created once by a run against  *)
(* a loopback server and only loaded by every other run.                   *)
(*                                                                         *)
(* Several runs may use the directory at once, and each may die between    *)
(* two system calls.  A file is created empty and written afterwards.      *)
(* Every run that creates draws a key of its own.                          *)
(***************************************************************************)
EXTENDS Naturals, FiniteSets

CONSTANTS
    Proc,       \* runs that use the directory
    Remote,     \* the runs whose --base-url is not loopback
    Key,        \* keys (and the DIDs derived from them)
    KeyOf,      \* run |-> the key it would draw
    Absent,     \* no such file
    Empty       \* created, nothing written (or cut short)

ASSUME IdentityAssumption ==
    /\ Remote \subseteq Proc
    /\ KeyOf \in [Proc -> Key]
    /\ \A p, q \in Proc : KeyOf[p] = KeyOf[q] => p = q
    /\ Absent \notin Key /\ Empty \notin Key /\ Absent # Empty

VARIABLES
    key_file,       \* content of the key file
    record_file,    \* the DID in the record file
    lax,            \* the directory or a file is open to group or others
    id_pc,          \* run |-> where its for_base_url is
    loaded,         \* run |-> the key it has read or drawn
    handed          \* history: keys that for_base_url has returned

idVars == <<key_file, record_file, lax, id_pc, loaded, handed>>

IdPc == {"out", "look", "record?", "key", "key bytes", "record", "record bytes",
         "load", "load record", "held", "refused", "dead"}

IdTypeOK ==
    /\ key_file \in Key \cup {Absent, Empty}
    /\ record_file \in Key \cup {Absent, Empty}
    /\ lax \in BOOLEAN
    /\ id_pc \in [Proc -> IdPc]
    /\ loaded \in [Proc -> Key \cup {Absent}]
    /\ handed \subseteq Key

IdInit ==
    /\ key_file = Absent
    /\ record_file = Absent
    /\ lax = FALSE
    /\ id_pc = [p \in Proc |-> "out"]
    /\ loaded = [p \in Proc |-> Absent]
    /\ handed = {}

IdGoto(p, from, to) ==
    /\ id_pc[p] = from
    /\ id_pc' = [id_pc EXCEPT ![p] = to]

----------------------------------------------------------------------------
(* for_base_url: only a loopback run may create. *)

for_base_url(p) ==
    /\ IdGoto(p, "out", IF p \in Remote THEN "load" ELSE "look")
    /\ UNCHANGED <<key_file, record_file, lax, loaded, handed>>

\* load_or_create: the directory is private, and the key file is there or not.
Look(p) ==
    /\ IdGoto(p, "look", IF lax THEN "refused"
                         ELSE IF key_file = Absent THEN "record?" ELSE "load")
    /\ UNCHANGED <<key_file, record_file, lax, loaded, handed>>

\* No second identity beside an existing record.
LookRecord(p) ==
    /\ IdGoto(p, "record?", IF record_file = Absent THEN "key" ELSE "refused")
    /\ loaded' = [loaded EXCEPT ![p] = KeyOf[p]]
    /\ UNCHANGED <<key_file, record_file, lax, handed>>

\* Faulty variant: an existing file is truncated.
CreateKeyOver(p) ==
    /\ IdGoto(p, "key", "key bytes")
    /\ key_file' = Empty
    /\ UNCHANGED <<record_file, lax, loaded, handed>>

\* write_new of the key: create_new fails when the file exists.
CreateKey(p) ==
    /\ IdGoto(p, "key", IF key_file = Absent THEN "key bytes" ELSE "refused")
    /\ key_file' = IF key_file = Absent THEN Empty ELSE key_file
    /\ UNCHANGED <<record_file, lax, loaded, handed>>

WriteKey(p) ==
    /\ IdGoto(p, "key bytes", "record")
    /\ key_file' = loaded[p]
    /\ UNCHANGED <<record_file, lax, loaded, handed>>

\* Faulty variant: an existing record is truncated.
CreateRecordOver(p) ==
    /\ IdGoto(p, "record", "record bytes")
    /\ record_file' = Empty
    /\ UNCHANGED <<key_file, lax, loaded, handed>>

CreateRecord(p) ==
    /\ IdGoto(p, "record", IF record_file = Absent THEN "record bytes" ELSE "refused")
    /\ record_file' = IF record_file = Absent THEN Empty ELSE record_file
    /\ UNCHANGED <<key_file, lax, loaded, handed>>

WriteRecord(p) ==
    /\ IdGoto(p, "record bytes", "held")
    /\ record_file' = loaded[p]
    /\ handed' = handed \cup {loaded[p]}
    /\ UNCHANGED <<key_file, lax, loaded>>

----------------------------------------------------------------------------
(* load_existing: writes nothing; whatever is missing or wrong is refused. *)

LoadKey(p) ==
    /\ IdGoto(p, "load", IF lax \/ key_file \notin Key THEN "refused" ELSE "load record")
    /\ loaded' = [loaded EXCEPT ![p] = IF key_file \in Key THEN key_file ELSE Absent]
    /\ UNCHANGED <<key_file, record_file, lax, handed>>

\* Faulty variant: the record is not compared with the key.
LoadRecordUnmatched(p) ==
    LET ok == ~lax /\ record_file \in Key
    IN  /\ IdGoto(p, "load record", IF ok THEN "held" ELSE "refused")
        /\ handed' = IF ok THEN handed \cup {loaded[p]} ELSE handed
        /\ UNCHANGED <<key_file, record_file, lax, loaded>>

\* The record must name the DID of the key.
LoadRecord(p) ==
    LET ok == ~lax /\ record_file = loaded[p]
    IN  /\ IdGoto(p, "load record", IF ok THEN "held" ELSE "refused")
        /\ handed' = IF ok THEN handed \cup {loaded[p]} ELSE handed
        /\ UNCHANGED <<key_file, record_file, lax, loaded>>

----------------------------------------------------------------------------
(* The outside. *)

\* A run dies wherever it is.
Die(p) ==
    /\ id_pc[p] \notin {"out", "held", "refused", "dead"}
    /\ id_pc' = [id_pc EXCEPT ![p] = "dead"]
    /\ UNCHANGED <<key_file, record_file, lax, loaded, handed>>

\* The key file is removed by hand, or lost; not in the instant between its
\* creation and its bytes.
LoseKey ==
    /\ key_file # Absent
    /\ \A p \in Proc : id_pc[p] # "key bytes"
    /\ key_file' = Absent
    /\ UNCHANGED <<record_file, lax, id_pc, loaded, handed>>

\* Someone opens the directory to others, or closes it again.
Chmod ==
    /\ lax' = ~lax
    /\ UNCHANGED <<key_file, record_file, id_pc, loaded, handed>>

IdStep(p) ==
    \/ for_base_url(p)
    \/ Look(p) \/ LookRecord(p)
    \/ CreateKey(p) \/ WriteKey(p)
    \/ CreateRecord(p) \/ WriteRecord(p)
    \/ LoadKey(p) \/ LoadRecord(p)

IdNext ==
    \/ \E p \in Proc : IdStep(p) \/ Die(p)
    \/ LoseKey
    \/ Chmod

IdSpec == IdInit /\ [][IdNext]_idVars

----------------------------------------------------------------------------
(* Properties. *)

\* At most one identity ever comes out of the directory, whatever runs race to
\* create it, wherever they die, and also when the key file is lost: the
\* create_new of the record decides between two keys.
OneIdentity == \A k, l \in handed : k = l

\* p is between its record's create_new and its bytes: the record is its own.
Owns(p) == id_pc[p] = "record bytes"

\* The inductive form: a key handed out is the record's, and while the record
\* is still empty its creator is the only one that can fill it.
IdInv ==
    /\ IdTypeOK
    /\ \A k \in handed : record_file = k
    /\ \A p \in Proc : Owns(p) => record_file = Empty
    /\ \A p, q \in Proc : Owns(p) /\ Owns(q) => p = q
    /\ \A p \in Proc : id_pc[p] \in {"key", "key bytes", "record", "record bytes", "load record"}
                          => loaded[p] \in Key

=============================================================================
