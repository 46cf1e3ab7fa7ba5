---------------------------- MODULE Cert9Cleanup ----------------------------
(***************************************************************************)
(* The thread of cert9_cleanup.rs that deletes rows of Thunderbird's       *)
(* certificate database while NSS has that database open.  The first       *)
(* C_Initialize starts it, nothing stops it, and it lists the Windows      *)
(* stores on its own (WindowsListing is that listing; here only the        *)
(* certificates it returns matter).                                        *)
(***************************************************************************)
EXTENDS Naturals, Sequences

CONSTANTS
  Cert,        \* certificates
  Stores,      \* what the Windows stores may hold: certificates with keys, and their issuers
  Profile,     \* profile directories with a cert9.db
  Inis,        \* contents of profiles.ini, as sequences of sections
  NoPath,      \* a section without a path; a profile that can not be told
  Thread,      \* cleanup threads
  MaxFaults,   \* bound: failing calls of Windows and SQLite
  MaxChanges   \* bound: changes of the stores, of profiles.ini and of the rows by others

ASSUME CleanupAssumption ==
  /\ Stores \subseteq [keyed : SUBSET Cert, issuers : SUBSET Cert]
  /\ NoPath \notin Profile
  /\ Inis \subseteq Seq([kind : {"Install", "Profile", "General"}, default : BOOLEAN,
                          path : Profile \cup {"elsewhere", NoPath}])
  /\ Thread \in SUBSET Nat /\ 1 \in Thread
  /\ MaxFaults \in Nat /\ MaxChanges \in Nat

VARIABLES
  enabled,      \* the environment variable OSCLIENTCERTS is "1"
  override,     \* the environment variable OSCLIENTCERTS_PROFILE_DIR, if set
  initialized,  \* between C_Initialize and C_Finalize
  spawned,      \* SPAWN_ONCE
  pc,           \* thread -> what it is doing
  db,           \* thread -> the database of its pass
  live,         \* thread -> live_certs, those still to be deleted
  store,        \* the Windows stores
  ini,          \* profiles.ini
  rows,         \* profile -> the certificates its cert9.db has a row for
  faults,       \* failing calls so far
  changes       \* changes by others so far

threads == <<pc, db, live>>
world == <<store, ini, rows>>
cleanupVars == <<enabled, override, initialized, spawned, threads, world, faults, changes>>

CleanupInit ==
  /\ enabled \in BOOLEAN
  /\ override \in Profile \cup {NoPath}
  /\ initialized = FALSE
  /\ spawned = FALSE
  /\ pc = [t \in Thread |-> "unborn"]
  /\ db = [t \in Thread |-> NoPath]
  /\ live = [t \in Thread |-> {}]
  /\ store \in Stores
  /\ ini \in Inis
  /\ rows \in [Profile -> SUBSET Cert]
  /\ faults = 0
  /\ changes = 0

-----------------------------------------------------------------------------
(* The module. *)

Spawn(t) == pc' = [pc EXCEPT ![t] = "rest"]

SpawnBackgroundThread_Each ==
  IF enabled
  THEN /\ spawned' = TRUE
       /\ IF \E t \in Thread : pc[t] = "unborn"
          THEN Spawn(CHOOSE t \in Thread : pc[t] = "unborn")
          ELSE UNCHANGED pc
  ELSE UNCHANGED <<spawned, pc>>

SpawnBackgroundThread ==
  IF enabled /\ ~spawned
  THEN /\ spawned' = TRUE
       /\ Spawn(1)
  ELSE UNCHANGED <<spawned, pc>>

C_Initialize ==
  /\ ~initialized
  /\ initialized' = TRUE
  /\ SpawnBackgroundThread
  /\ UNCHANGED <<enabled, override, db, live, world, faults, changes>>

C_Finalize ==
  /\ initialized
  /\ initialized' = FALSE
  /\ UNCHANGED <<enabled, override, spawned, threads, world, faults, changes>>

-----------------------------------------------------------------------------
(* What others do meanwhile. *)

ByOthers == changes < MaxChanges /\ changes' = changes + 1

\* NSS caches a certificate it has verified a signature with, or the user imports one.
NssStores(p, c) ==
  /\ ByOthers
  /\ c \notin rows[p]
  /\ rows' = [rows EXCEPT ![p] = @ \cup {c}]
  /\ UNCHANGED <<enabled, override, initialized, spawned, threads, store, ini, faults>>

ChangeStores ==
  /\ ByOthers
  /\ store' \in Stores \ {store}
  /\ UNCHANGED <<enabled, override, initialized, spawned, threads, ini, rows, faults>>

ChangeProfiles ==
  /\ ByOthers
  /\ ini' \in Inis \ {ini}
  /\ UNCHANGED <<enabled, override, initialized, spawned, threads, store, rows, faults>>

-----------------------------------------------------------------------------
(* One pass: run_pass. *)

\* find_profile_dir.  An Install section's Default is its path; a Profile section with Default=1
\* is chosen even when it has none.
FindProfileDir(sections, dir) ==
  LET installs == SelectSeq(sections, LAMBDA s : s.kind = "Install" /\ s.path # NoPath)
      defaults == SelectSeq(sections, LAMBDA s : s.kind = "Profile" /\ s.default)
      profiles == SelectSeq(sections, LAMBDA s : s.kind = "Profile" /\ s.path # NoPath)
      candidates == installs \o defaults \o profiles
  IN IF dir # NoPath THEN dir
     ELSE IF candidates = <<>> THEN NoPath ELSE Head(candidates).path

ProfileDir == FindProfileDir(ini, override)

Goes(t, to) == pc' = [pc EXCEPT ![t] = to]

Fault == faults < MaxFaults /\ faults' = faults + 1

\* The sleep is over and the profile is looked up.  Without a database the pass is over.
StartPass(t) ==
  /\ pc[t] = "rest"
  /\ IF ProfileDir \in Profile
     THEN db' = [db EXCEPT ![t] = ProfileDir] /\ Goes(t, "list")
     ELSE UNCHANGED <<pc, db>>
  /\ UNCHANGED <<enabled, override, initialized, spawned, live, world, faults, changes>>

\* list_objects, whose keys and trust records are dropped.
ListLiveCerts(t) ==
  /\ pc[t] = "list"
  /\ \/ live' = [live EXCEPT ![t] = store.keyed \cup store.issuers] /\ UNCHANGED faults
     \/ live' = [live EXCEPT ![t] = store.keyed] /\ Fault  \* the issuers' stores do not open
     \/ live' = [live EXCEPT ![t] = {}] /\ Fault           \* "My" does not
  /\ Goes(t, IF live'[t] = {} THEN "rest" ELSE "open")
  /\ UNCHANGED <<enabled, override, initialized, spawned, db, world, changes>>

OpenCert9Db(t) ==
  /\ pc[t] = "open"
  /\ \/ Goes(t, "delete") /\ UNCHANGED faults
     \/ Goes(t, "rest") /\ Fault
  /\ UNCHANGED <<enabled, override, initialized, spawned, db, live, world, changes>>

Delete_AnyValue(t, c) ==
  /\ pc[t] = "delete"
  /\ c \in live[t]
  /\ \/ rows' = [rows EXCEPT ![db[t]] = {}] /\ UNCHANGED faults
     \/ Fault /\ UNCHANGED rows
  /\ live' = [live EXCEPT ![t] = @ \ {c}]
  /\ Goes(t, IF live'[t] = {} THEN "rest" ELSE "delete")
  /\ UNCHANGED <<enabled, override, initialized, spawned, db, store, ini, changes>>

Delete_Unwraps(t, c) ==
  /\ pc[t] = "delete"
  /\ c \in live[t]
  /\ live' = [live EXCEPT ![t] = @ \ {c}]
  /\ \/ /\ rows' = [rows EXCEPT ![db[t]] = @ \ {c}]
        /\ Goes(t, IF live'[t] = {} THEN "rest" ELSE "delete")
        /\ UNCHANGED faults
     \/ Fault /\ Goes(t, "dead") /\ UNCHANGED rows
  /\ UNCHANGED <<enabled, override, initialized, spawned, db, store, ini, changes>>

\* The DELETE of one certificate.  NSS may hold the lock for longer than the busy timeout, or the
\* statement may fail otherwise: that is logged, and the loop goes on.
Delete(t, c) ==
  /\ pc[t] = "delete"
  /\ c \in live[t]
  /\ \/ rows' = [rows EXCEPT ![db[t]] = @ \ {c}] /\ UNCHANGED faults
     \/ Fault /\ UNCHANGED rows
  /\ live' = [live EXCEPT ![t] = @ \ {c}]
  /\ Goes(t, IF live'[t] = {} THEN "rest" ELSE "delete")
  /\ UNCHANGED <<enabled, override, initialized, spawned, db, store, ini, changes>>

ThreadStep(t) ==
  \/ StartPass(t)
  \/ ListLiveCerts(t)
  \/ OpenCert9Db(t)
  \/ \E c \in Cert : Delete(t, c)

CleanupNext ==
  \/ C_Initialize
  \/ C_Finalize
  \/ \E p \in Profile, c \in Cert : NssStores(p, c)
  \/ ChangeStores
  \/ ChangeProfiles
  \/ \E t \in Thread : ThreadStep(t)

\* A thread's loop has no way out, its sleep ends, and the calls it makes return.
CleanupSpec ==
  /\ CleanupInit
  /\ [][CleanupNext]_cleanupVars
  /\ \A t \in Thread : WF_cleanupVars(ThreadStep(t))

-----------------------------------------------------------------------------
(* What the cleanup promises. *)

\* However often the application finalizes and initializes the module, at most one loop runs, and
\* none when the variable is not "1" (the documentation of spawn_background_thread).
OneLoop ==
  \A t, u \in Thread : pc[t] # "unborn" /\ pc[u] # "unborn" => t = u /\ enabled

\* A row is deleted by a pass that works on that database and has found its certificate in the
\* stores, never otherwise: other people's certificates and other profiles stay as they are.
OthersStay ==
  [][ \A p \in Profile : \A c \in rows[p] \ rows'[p] :
        \E t \in Thread : pc[t] = "delete" /\ db[t] = p /\ c \in live[t] ]_cleanupVars

\* Whatever fails along the way and whatever NSS writes while a pass is under way: once no more
\* changes, the database that the running cleanup works on is rid of the certificates with keys.
StaleRowsGo ==
  (\E t \in Thread : pc[t] # "unborn") ~>
    [](ProfileDir \in Profile => rows[ProfileDir] \cap store.keyed = {})
=============================================================================
