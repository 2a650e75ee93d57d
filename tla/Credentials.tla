------------------------------ MODULE Credentials ------------------------------
(***************************************************************************)
(* The credential stores (pkgs/v1/queue/store/credentials), the start of   *)
(* the server, which imports the configured credentials into the store     *)
(* (apps/go/server/startup_credentials.go), and the pages of the web       *)
(* interface that create and delete credentials.  The server may stop at   *)
(* any step and be started again with another configuration.               *)
(***************************************************************************)
EXTENDS Authentication

CONSTANTS
  Backends,   \* some of "memory", "sqlite", "badger"
  Configs,    \* the lists of [key, secret] that are configured
  Generated,  \* the [key, secret] that the generators may return
  MaxId,      \* bound on the credentials stored
  MaxBoots,   \* bound on the starts of the server
  MaxFaults   \* bound on the failures of a database

\* A configuration with an empty key or secret is refused, and none is generated.
Filled(k) == k.key # "" /\ k.secret # ""

ASSUME CredentialsAssumption ==
  /\ \A c \in Configs : \A i \in DOMAIN c : Filled(c[i])
  /\ \A k \in Generated : Filled(k)
  /\ Backends \subseteq {"memory", "sqlite", "badger"}
  /\ Configs \subseteq Seq([key : STRING, secret : STRING])
  /\ MaxId \in Nat /\ MaxBoots \in Nat /\ MaxFaults \in Nat

VARIABLES
  backend,
  creds,    \* the stored [id, key, secret]
  nextId,
  phase,    \* "down", "seeding", "import", "insert", "up"
  config,   \* of the start that is running
  seeded,   \* the entries of config that are done
  boots, faults,  \* bounded
  revoked,  \* identifiers the web interface has deleted
  removed   \* keys it has deleted since the start

credVars == <<backend, creds, nextId, phase, config, seeded, boots, faults, revoked, removed>>

CredInit ==
  /\ backend \in Backends
  /\ creds = {} /\ nextId = 1
  /\ phase = "down" /\ config = <<>> /\ seeded = 0
  /\ boots = 0 /\ faults = 0 /\ revoked = {} /\ removed = {}

(***************************************************************************)
(* The operations of a store                                               *)
(***************************************************************************)
WithKey(key) == {c \in creds : c.key = key}

\* GetByAccessKeyID: a credential with the key, or the error that there is none;
\* a database that fails is the same error to the caller.
MemoryGetByAccessKeyID(key) == IF WithKey(key) = {} THEN {Missing} ELSE WithKey(key)

Unavailable == IF faults < MaxFaults THEN {Missing} ELSE {}

SQLiteGetByAccessKeyID(key) == MemoryGetByAccessKeyID(key) \cup Unavailable

\* The scan in key order stops at the first match; the keys are random.
BadgerGetByAccessKeyID(key) == MemoryGetByAccessKeyID(key) \cup Unavailable

GetByAccessKeyID(key) ==
  CASE backend = "memory" -> MemoryGetByAccessKeyID(key)
    [] backend = "sqlite" -> SQLiteGetByAccessKeyID(key)
    [] backend = "badger" -> BadgerGetByAccessKeyID(key)

\* Whether a lookup that returned c was one that failed.
Fault(key, c) == faults' = IF c = Missing /\ WithKey(key) # {} THEN faults + 1 ELSE faults

New(k) == [id |-> nextId, key |-> k.key, secret |-> k.secret]

\* Create and the end of Import: a new credential under a new identifier.
MemoryCreate(k) == creds' = creds \cup {New(k)} /\ nextId' = nextId + 1 /\ UNCHANGED faults

WriteFails == backend # "memory" /\ faults < MaxFaults /\ faults' = faults + 1

SQLiteCreate(k) == MemoryCreate(k) \/ (WriteFails /\ UNCHANGED <<creds, nextId>>)
BadgerCreate(k) == MemoryCreate(k) \/ (WriteFails /\ UNCHANGED <<creds, nextId>>)

Create(k) ==
  \/ backend = "memory" /\ MemoryCreate(k)
  \/ backend = "sqlite" /\ SQLiteCreate(k)
  \/ backend = "badger" /\ BadgerCreate(k)

\* Mutant: the key of what is deleted is left behind.
DeleteNothing(id) == UNCHANGED creds

\* Delete by identifier, where it succeeds; a failure changes nothing.
Delete(id) == creds' = {c \in creds : c.id # id}

(***************************************************************************)
(* The start of the server                                                 *)
(***************************************************************************)
\* main opens the store and reads the configuration; a memory store is empty.
Boot ==
  /\ phase = "down" /\ boots < MaxBoots
  /\ boots' = boots + 1
  /\ config' \in Configs
  /\ phase' = "seeding" /\ seeded' = 0 /\ removed' = {}
  /\ UNCHANGED <<backend, creds, nextId, faults, revoked>>

\* The process ends; only a database keeps its credentials.
Stop ==
  /\ phase # "down" /\ phase' = "down" /\ config' = <<>> /\ seeded' = 0 /\ removed' = {}
  /\ creds' = IF backend = "memory" THEN {} ELSE creds
  /\ UNCHANGED <<backend, nextId, boots, revoked>>

Crash == Stop /\ UNCHANGED faults

Entry == config[seeded + 1]
MoreToSeed == seeded < Len(config)

\* Mutant: the loop returns at the first key that is there already.
SeedStops(c) ==
  IF c # Missing THEN seeded' = Len(config) /\ UNCHANGED phase
  ELSE phase' = "import" /\ UNCHANGED seeded

\* A key that is there already is skipped, whatever its secret.
SeedNext(c) ==
  IF c # Missing THEN seeded' = seeded + 1 /\ UNCHANGED phase
  ELSE phase' = "import" /\ UNCHANGED seeded

SeedLookup ==
  /\ phase = "seeding" /\ MoreToSeed
  /\ \E c \in GetByAccessKeyID(Entry.key) : SeedNext(c) /\ Fault(Entry.key, c)
  /\ UNCHANGED <<backend, creds, nextId, config, boots, revoked, removed>>

SeedDone ==
  /\ phase = "seeding" /\ ~MoreToSeed
  /\ phase' = "up"
  /\ UNCHANGED <<backend, creds, nextId, config, seeded, boots, faults, revoked, removed>>

\* Import over a map: the check and the insertion under one lock.  A key that
\* is there is fatal.
MemoryImport ==
  /\ phase = "import" /\ backend = "memory" /\ nextId <= MaxId
  /\ \/ /\ WithKey(Entry.key) = {} /\ MemoryCreate(Entry)
        /\ phase' = "seeding" /\ seeded' = seeded + 1
        /\ UNCHANGED <<backend, config, boots, revoked, removed>>
     \/ WithKey(Entry.key) # {} /\ Stop /\ UNCHANGED faults

\* Mutant: the check is left to the caller, whose lookup may have failed.
SQLiteImportUnchecked ==
  /\ phase = "import" /\ backend = "sqlite" /\ phase' = "insert"
  /\ UNCHANGED <<backend, creds, nextId, config, seeded, boots, faults, revoked, removed>>

\* Over SQLite and Badger the check is a query of its own; what fails is fatal.
SQLiteImportCheck ==
  /\ phase = "import" /\ backend = "sqlite"
  /\ \/ /\ WithKey(Entry.key) = {} /\ phase' = "insert"
        /\ UNCHANGED <<backend, creds, nextId, config, seeded, boots, faults, revoked, removed>>
     \/ WithKey(Entry.key) # {} /\ Stop /\ UNCHANGED faults
     \/ WriteFails /\ Stop

BadgerImportCheck ==
  /\ phase = "import" /\ backend = "badger"
  /\ \/ /\ WithKey(Entry.key) = {} /\ phase' = "insert"
        /\ UNCHANGED <<backend, creds, nextId, config, seeded, boots, faults, revoked, removed>>
     \/ WithKey(Entry.key) # {} /\ Stop /\ UNCHANGED faults
     \/ WriteFails /\ Stop

ImportInsert ==
  /\ phase = "insert" /\ nextId <= MaxId
  /\ \/ /\ MemoryCreate(Entry)
        /\ phase' = "seeding" /\ seeded' = seeded + 1
        /\ UNCHANGED <<backend, config, boots, revoked, removed>>
     \/ WriteFails /\ Stop

(***************************************************************************)
(* The web interface, which is up after the seeding                        *)
(***************************************************************************)
\* GenerateAccessKeyID returns a key nobody has.
HandleCreateCredential ==
  /\ phase = "up" /\ nextId <= MaxId
  /\ \E k \in Generated : WithKey(k.key) = {} /\ Create(k)
  /\ UNCHANGED <<backend, phase, config, seeded, boots, revoked, removed>>

\* Deleting what is there, whatever page it was listed on.
HandleCredentialRoutes ==
  /\ phase = "up"
  /\ \E c \in creds :
       \/ /\ Delete(c.id) /\ UNCHANGED faults
          /\ revoked' = revoked \cup {c.id} /\ removed' = removed \cup {c.key}
       \/ WriteFails /\ UNCHANGED <<creds, revoked, removed>>
  /\ UNCHANGED <<backend, nextId, phase, config, seeded, boots>>
(***************************************************************************)
(* Properties                                                              *)
(***************************************************************************)
\* Import "returns an error if a credential with the same access key ID already
\* exists": in every store, over restarts, crashes within the seeding and
\* failures of the database no two credentials have one key.
UniqueKeys == \A c, d \in creds : c.key = d.key => c = d

\* A server that is up has every key of its configuration in its store, with
\* whatever secret it found there, but for those that were deleted since: seeding
\* that a failure or a crash has cut off is completed by the next start, which
\* goes over the keys it finds (startup_credentials.go:13 has them fail the start).
ConfiguredKeysAreThere ==
  phase = "up" => \A i \in DOMAIN config : config[i].key \in removed \/ WithKey(config[i].key) # {}
=============================================================================
