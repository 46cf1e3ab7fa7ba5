-------------------------- MODULE Cert9CleanupProofs --------------------------
(***************************************************************************)
(* The safety of the cleanup thread of cert9_cleanup.rs, for any number of *)
(* threads, profiles, certificates, failures and changes by others.        *)
(***************************************************************************)
EXTENDS Cert9Cleanup, TLAPS

State == {"unborn", "rest", "list", "open", "delete"}

\* SPAWN_ONCE and the environment variable stand before the one thread there can be.
CInv ==
  /\ pc \in [Thread -> State]
  /\ rows \in [Profile -> SUBSET Cert]
  /\ \A t \in Thread : pc[t] # "unborn" => t = 1 /\ spawned /\ enabled

LEMMA CleanupInitEstablishes == CleanupInit => CInv
BY DEF CleanupInit, CInv, State

\* A thread that is not there takes no step, and none brings another one to life.
LEMMA ThreadStepKeepsCInv ==
  ASSUME CInv, NEW t \in Thread, ThreadStep(t)
  PROVE  CInv'
<1>1. /\ enabled' = enabled /\ spawned' = spawned /\ pc[t] # "unborn"
      /\ \E to \in State \ {"unborn"} : pc' = [pc EXCEPT ![t] = to]
  <2>1. CASE StartPass(t)
    <3>1. pc' = [pc EXCEPT ![t] = "list"] \/ pc' = [pc EXCEPT ![t] = "rest"]
      BY <2>1 DEF StartPass, Goes, CInv
    <3>2. QED
      BY <2>1, <3>1 DEF StartPass, State
  <2>2. CASE ListLiveCerts(t)
    BY <2>2 DEF ListLiveCerts, Goes, State
  <2>3. CASE OpenCert9Db(t)
    BY <2>3 DEF OpenCert9Db, Goes, State
  <2>4. ASSUME NEW c \in Cert, Delete(t, c)
        PROVE  /\ enabled' = enabled /\ spawned' = spawned /\ pc[t] # "unborn"
               /\ \E to \in State \ {"unborn"} : pc' = [pc EXCEPT ![t] = to]
    BY <2>4 DEF Delete, Goes, State
  <2>5. QED
    BY <2>1, <2>2, <2>3, <2>4 DEF ThreadStep
<1>2. pc' \in [Thread -> State] /\ \A u \in Thread : pc'[u] # "unborn" => pc[u] # "unborn"
  BY <1>1 DEF CInv
<1>3. rows' \in [Profile -> SUBSET Cert]
  <2>1. CASE rows' = rows
    BY <2>1 DEF CInv
  <2>2. CASE \E c \in Cert : rows' = [rows EXCEPT ![db[t]] = @ \ {c}]
    BY <2>2 DEF CInv
  <2>3. rows' = rows \/ \E c \in Cert : rows' = [rows EXCEPT ![db[t]] = @ \ {c}]
    BY DEF ThreadStep, StartPass, ListLiveCerts, OpenCert9Db, Delete, world
  <2>4. QED
    BY <2>1, <2>2, <2>3
<1>4. QED
  BY <1>1, <1>2, <1>3 DEF CInv

LEMMA CleanupStepKeepsCInv == CInv /\ [CleanupNext]_cleanupVars => CInv'
<1> SUFFICES ASSUME CInv, [CleanupNext]_cleanupVars PROVE CInv'
  OBVIOUS
<1>1. CASE C_Initialize
  <2>1. CASE enabled /\ ~spawned
    <3>1. \A t \in Thread : pc[t] = "unborn"
      BY <2>1 DEF CInv
    <3>2. pc' = [pc EXCEPT ![1] = "rest"] /\ spawned' = TRUE /\ enabled' = enabled /\ rows' = rows
      BY <1>1, <2>1 DEF C_Initialize, SpawnBackgroundThread, Spawn, world
    <3>3. QED
      BY <2>1, <3>1, <3>2 DEF CInv, State
  <2>2. CASE ~(enabled /\ ~spawned)
    BY <1>1, <2>2 DEF C_Initialize, SpawnBackgroundThread, world, CInv
  <2>3. QED
    BY <2>1, <2>2
<1>2. CASE C_Finalize \/ ChangeStores \/ ChangeProfiles \/ UNCHANGED cleanupVars
  BY <1>2 DEF C_Finalize, ChangeStores, ChangeProfiles, cleanupVars, threads, world, CInv
<1>3. ASSUME NEW p \in Profile, NEW c \in Cert, NssStores(p, c) PROVE CInv'
  BY <1>3 DEF NssStores, threads, CInv
<1>4. QED
  BY <1>1, <1>2, <1>3, ThreadStepKeepsCInv DEF CleanupNext

-----------------------------------------------------------------------------
(* The theorems. *)

THEOREM CleanupInvariant == CleanupSpec => []CInv
<1>1. CleanupInit => CInv
  BY CleanupInitEstablishes
<1>2. CInv /\ [CleanupNext]_cleanupVars => CInv'
  BY CleanupStepKeepsCInv
<1>3. QED
  BY <1>1, <1>2, PTL DEF CleanupSpec

\* However often the module is initialized and finalized, no second cleanup loop starts, and none
\* at all without the environment variable.
THEOREM AtMostOneLoop == CleanupSpec => []OneLoop
<1>1. CInv => OneLoop
  BY DEF CInv, OneLoop
<1>2. QED
  BY <1>1, CleanupInvariant, PTL

\* Rows go only from the database that a pass has opened, and only those of certificates it has
\* found in the stores.
THEOREM OnlyLiveRowsDeleted == CleanupSpec => OthersStay
<1> DEFINE Justified == \A p \in Profile : \A c \in rows[p] \ rows'[p] :
                          \E t \in Thread : pc[t] = "delete" /\ db[t] = p /\ c \in live[t]
<1>1. CInv /\ [CleanupNext]_cleanupVars => [Justified]_cleanupVars
  <2> SUFFICES ASSUME CInv, CleanupNext PROVE Justified
    BY DEF cleanupVars
  <2>1. CASE rows' = rows
    BY <2>1
  <2>2. ASSUME NEW p \in Profile, NEW c \in Cert, NssStores(p, c) PROVE Justified
    BY <2>2 DEF NssStores, CInv
  <2>3. ASSUME NEW t \in Thread, NEW c \in Cert, Delete(t, c) PROVE Justified
    <3>1. rows' = [rows EXCEPT ![db[t]] = @ \ {c}] \/ rows' = rows
      BY <2>3 DEF Delete
    <3>2. \A p \in Profile : rows[p] \ rows'[p] \subseteq {c}
      BY <3>1 DEF CInv
    <3>3. \A p \in Profile : p # db[t] => rows'[p] = rows[p]
      BY <3>1 DEF CInv
    <3>4. pc[t] = "delete" /\ c \in live[t]
      BY <2>3 DEF Delete
    <3>5. QED
      BY <3>2, <3>3, <3>4
  <2>4. QED
    BY <2>1, <2>2, <2>3
    DEF CleanupNext, C_Initialize, C_Finalize, ChangeStores, ChangeProfiles, ThreadStep, StartPass,
        ListLiveCerts, OpenCert9Db, world
<1>2. QED
  BY <1>1, CleanupInvariant, PTL DEF CleanupSpec, OthersStay
-----------------------------------------------------------------------------
(* A pass gets through, and one that nothing disturbs leaves no stale row. *)

\* The pass has a database, and it only comes to the deletions with something to delete.
PassOK ==
  /\ store \in Stores
  /\ faults \in Nat /\ changes \in Nat
  /\ live \in [Thread -> SUBSET Cert] /\ db \in [Thread -> Profile \cup {NoPath}]
  /\ \A t \in Thread :
       /\ pc[t] \in {"list", "open", "delete"} => db[t] \in Profile
       /\ pc[t] \in {"open", "delete"} => live[t] # {}

Stage(t) ==
  IF pc[t] = "list" THEN 3 ELSE IF pc[t] = "open" THEN 2 ELSE IF pc[t] = "delete" THEN 1 ELSE 0

\* Every step of a pass brings its end nearer, by a stage or by a certificate, whether its calls
\* succeed or not, and no other step puts it off.
PassAdvances ==
  \A t \in Thread :
    pc[t] \in {"list", "open", "delete"} =>
      /\ ThreadStep(t) => Stage(t)' < Stage(t) \/ (Stage(t)' = Stage(t) /\ live'[t] \subseteq live[t]
                                                                     /\ live'[t] # live[t])
      /\ UNCHANGED <<pc[t], db[t], live[t]>> \/ ThreadStep(t)

\* The database that is in use has no row of a certificate with a key.
Purged == ProfileDir \in Profile => rows[ProfileDir] \cap store.keyed = {}

\* The pass works on that database, and has or will have all such certificates in its list.
OnTrack(t) ==
  /\ ProfileDir \in Profile /\ db[t] = ProfileDir
  /\ \/ pc[t] = "list"
     \/ pc[t] \in {"open", "delete"} /\ rows[ProfileDir] \cap store.keyed \subseteq live[t]

\* As long as no call fails and nobody else changes anything: a pass that starts is on track and
\* stays there until the rows are gone, and none comes back.
QuietPassPurges ==
  UNCHANGED <<faults, changes>> =>
    /\ Purged => Purged'
    /\ \A t \in Thread :
         /\ OnTrack(t) => OnTrack(t)' \/ Purged'
         /\ StartPass(t) => OnTrack(t)' \/ ProfileDir' \notin Profile

LEMMA PassInit == CleanupInit => PassOK
BY DEF CleanupInit, PassOK

LEMMA StoreKeyed ==
  ASSUME PassOK PROVE store.keyed \in SUBSET Cert /\ store.issuers \in SUBSET Cert
BY CleanupAssumption DEF PassOK

\* What the threads' steps change of themselves.
LEMMA ThreadStepIs ==
  ASSUME CInv, PassOK, NEW t \in Thread, ThreadStep(t)
  PROVE  /\ UNCHANGED <<store, ini, override, changes>> /\ faults' \in Nat
         /\ \A u \in Thread \ {t} : UNCHANGED <<pc[u], db[u], live[u]>>
         /\ \A p \in Profile : rows'[p] \subseteq rows[p]
         /\ PassOK'
         /\ pc[t] = "rest" \/ Stage(t)' < Stage(t)
              \/ (Stage(t)' = Stage(t) /\ live'[t] \subseteq live[t] /\ live'[t] # live[t])
         /\ UNCHANGED faults =>
              /\ OnTrack(t) => OnTrack(t)' \/ Purged'
              /\ StartPass(t) => OnTrack(t)' \/ ProfileDir' \notin Profile
<1> DEFINE Goal ==
      /\ UNCHANGED <<store, ini, override, changes>> /\ faults' \in Nat
      /\ \A u \in Thread \ {t} : UNCHANGED <<pc[u], db[u], live[u]>>
      /\ \A p \in Profile : rows'[p] \subseteq rows[p]
      /\ PassOK'
      /\ pc[t] = "rest" \/ Stage(t)' < Stage(t)
           \/ (Stage(t)' = Stage(t) /\ live'[t] \subseteq live[t] /\ live'[t] # live[t])
      /\ UNCHANGED faults =>
           /\ OnTrack(t) => OnTrack(t)' \/ Purged'
           /\ StartPass(t) => OnTrack(t)' \/ ProfileDir' \notin Profile
<1>1. /\ pc \in [Thread -> State] /\ db \in [Thread -> Profile \cup {NoPath}]
      /\ live \in [Thread -> SUBSET Cert] /\ rows \in [Profile -> SUBSET Cert]
      /\ faults \in Nat /\ changes \in Nat
  BY DEF CInv, PassOK
<1>2. CASE StartPass(t)
  <2>1. pc[t] = "rest" /\ UNCHANGED <<override, live, store, ini, rows, faults, changes>>
    BY <1>2 DEF StartPass, world
  <2>2. UNCHANGED ProfileDir
    BY <2>1 DEF ProfileDir
  <2>3. CASE ProfileDir \in Profile
    <3>1. db' = [db EXCEPT ![t] = ProfileDir] /\ pc' = [pc EXCEPT ![t] = "list"]
      BY <1>2, <2>3 DEF StartPass, Goes
    <3>2. OnTrack(t)'
      BY <1>1, <2>2, <2>3, <3>1 DEF OnTrack
    <3>3. PassOK'
      BY <1>1, <2>1, <2>3, <3>1 DEF PassOK
    <3>4. QED
      BY <1>1, <2>1, <3>1, <3>2, <3>3
  <2>4. CASE ProfileDir \notin Profile
    <3>1. UNCHANGED <<pc, db>>
      BY <1>2, <2>4 DEF StartPass
    <3>2. PassOK'
      BY <2>1, <3>1 DEF PassOK
    <3>3. ~OnTrack(t) /\ ProfileDir' \notin Profile
      BY <2>2, <2>4 DEF OnTrack
    <3>4. QED
      BY <1>1, <2>1, <3>1, <3>2, <3>3
  <2>5. QED
    BY <2>3, <2>4
<1>3. CASE ListLiveCerts(t)
  <2>1. pc[t] = "list" /\ UNCHANGED <<override, db, store, ini, rows, changes>>
    BY <1>3 DEF ListLiveCerts, world
  <2>2. UNCHANGED ProfileDir
    BY <2>1 DEF ProfileDir
  <2>3. PICK certs \in SUBSET Cert :
          /\ live' = [live EXCEPT ![t] = certs]
          /\ \/ UNCHANGED faults /\ certs = store.keyed \cup store.issuers
             \/ Fault
    <3>1. store.keyed \cup store.issuers \in SUBSET Cert /\ store.keyed \in SUBSET Cert
      BY StoreKeyed
    <3>2. QED
      BY <1>3, <3>1 DEF ListLiveCerts
  <2>4. faults' \in Nat /\ (UNCHANGED faults => certs = store.keyed \cup store.issuers)
    BY <1>1, <2>3 DEF Fault
  <2>5. live'[t] = certs
    BY <1>1, <2>3
  <2>6. pc' = [pc EXCEPT ![t] = IF certs = {} THEN "rest" ELSE "open"]
    BY <1>3, <2>5 DEF ListLiveCerts, Goes
  <2>7. PassOK'
    BY <1>1, <2>1, <2>3, <2>5, <2>6, <2>4 DEF PassOK
  <2>8. Stage(t) = 3 /\ Stage(t)' \in {0, 2}
    BY <1>1, <2>1, <2>6 DEF Stage
  <2>9. ASSUME UNCHANGED faults, OnTrack(t)
        PROVE  OnTrack(t)' \/ Purged'
    <3>1. certs = store.keyed \cup store.issuers
      BY <2>9, <2>4
    <3>2. CASE certs = {}
      BY <2>1, <2>2, <3>1, <3>2 DEF Purged
    <3>3. CASE certs # {}
      <4>1. pc'[t] = "open" /\ rows'[ProfileDir'] \cap store'.keyed \subseteq live'[t]
        BY <1>1, <2>1, <2>5, <2>6, <3>1, <3>3
      <4>2. QED
        BY <2>1, <2>2, <2>9, <4>1 DEF OnTrack
    <3>4. QED
      BY <3>2, <3>3
  <2>10. ~StartPass(t)
    BY <2>1 DEF StartPass
  <2>11. QED
    BY <1>1, <2>1, <2>3, <2>6, <2>7, <2>8, <2>9, <2>10, <2>4
<1>4. CASE OpenCert9Db(t)
  <2>1. pc[t] = "open" /\ UNCHANGED <<override, db, live, store, ini, rows, changes>>
    BY <1>4 DEF OpenCert9Db, world
  <2>2. UNCHANGED ProfileDir
    BY <2>1 DEF ProfileDir
  <2>3. /\ faults' \in Nat
        /\ \/ pc' = [pc EXCEPT ![t] = "delete"]
           \/ pc' = [pc EXCEPT ![t] = "rest"] /\ faults' # faults
    BY <1>1, <1>4 DEF OpenCert9Db, Fault, Goes
  <2>4. PassOK'
    BY <1>1, <2>1, <2>3 DEF PassOK
  <2>5. Stage(t) = 2 /\ Stage(t)' \in {0, 1}
    BY <1>1, <2>1, <2>3 DEF Stage
  <2>6. ASSUME UNCHANGED faults, OnTrack(t)
        PROVE  OnTrack(t)'
    <3>1. pc'[t] = "delete"
      BY <1>1, <2>3, <2>6
    <3>2. QED
      BY <2>1, <2>2, <2>6, <3>1 DEF OnTrack
  <2>7. ~StartPass(t)
    BY <2>1 DEF StartPass
  <2>8. QED
    BY <1>1, <2>1, <2>3, <2>4, <2>5, <2>6, <2>7
<1>5. ASSUME NEW c \in Cert, Delete(t, c) PROVE Goal
  <2>1. /\ pc[t] = "delete" /\ c \in live[t]
        /\ live' = [live EXCEPT ![t] = @ \ {c}]
        /\ UNCHANGED <<override, db, store, ini, changes>>
    BY <1>5 DEF Delete
  <2>2. UNCHANGED ProfileDir
    BY <2>1 DEF ProfileDir
  <2>3. /\ faults' \in Nat
        /\ \/ rows' = [rows EXCEPT ![db[t]] = @ \ {c}]
           \/ UNCHANGED rows /\ faults' # faults
    BY <1>1, <1>5 DEF Delete, Fault
  <2>4. live'[t] = live[t] \ {c} /\ pc' = [pc EXCEPT ![t] = IF live'[t] = {} THEN "rest" ELSE "delete"]
    BY <1>1, <1>5, <2>1 DEF Delete, Goes
  <2>5. PassOK'
    BY <1>1, <2>1, <2>3, <2>4 DEF PassOK
  <2>6. Stage(t) = 1 /\ Stage(t)' \in {0, 1}
    BY <1>1, <2>1, <2>4 DEF Stage
  <2>7. ASSUME UNCHANGED faults, OnTrack(t)
        PROVE  OnTrack(t)' \/ Purged'
    <3>1. /\ db[t] = ProfileDir /\ ProfileDir \in Profile
          /\ rows[ProfileDir] \cap store.keyed \subseteq live[t]
      BY <2>1, <2>7 DEF OnTrack
    <3>2. rows'[ProfileDir] = rows[ProfileDir] \ {c}
      BY <1>1, <2>3, <2>7, <3>1
    <3>3. rows'[ProfileDir] \cap store.keyed \subseteq live'[t]
      BY <2>4, <3>1, <3>2
    <3>4. CASE live'[t] = {}
      BY <2>1, <2>2, <3>3, <3>4 DEF Purged
    <3>5. CASE live'[t] # {}
      <4>1. pc'[t] = "delete"
        BY <1>1, <2>4, <3>5
      <4>2. QED
        BY <2>1, <2>2, <3>1, <3>3, <4>1 DEF OnTrack
    <3>6. QED
      BY <3>4, <3>5
  <2>8. \A p \in Profile : rows'[p] \subseteq rows[p]
    BY <1>1, <2>3
  <2>9. ~StartPass(t)
    BY <2>1 DEF StartPass
  <2>10. live'[t] \subseteq live[t] /\ live'[t] # live[t]
    BY <2>1, <2>4
  <2>11. \A u \in Thread \ {t} : UNCHANGED <<pc[u], db[u], live[u]>>
    BY <1>1, <2>1, <2>4
  <2>12. QED
    BY <2>1, <2>3, <2>5, <2>6, <2>7, <2>8, <2>9, <2>10, <2>11
<1>6. QED
  BY <1>2, <1>3, <1>4, <1>5 DEF ThreadStep

\* The rows of a database only get fewer: whoever was on track still is.
LEMMA OthersKeepTrack ==
  ASSUME NEW t \in Thread, UNCHANGED <<pc[t], db[t], live[t], store, ini, override>>,
         \A p \in Profile : rows'[p] \subseteq rows[p]
  PROVE  (OnTrack(t) => OnTrack(t)') /\ (Purged => Purged')
<1>1. UNCHANGED ProfileDir
  BY DEF ProfileDir
<1>2. QED
  BY <1>1 DEF OnTrack, Purged

LEMMA CleanupStepOfPass ==
  ASSUME CInv, PassOK, [CleanupNext]_cleanupVars
  PROVE  PassOK' /\ PassAdvances /\ QuietPassPurges
<1>1. ASSUME NEW t \in Thread, ThreadStep(t)
      PROVE  PassOK' /\ PassAdvances /\ QuietPassPurges
  <2>1. PassOK'
    BY <1>1, ThreadStepIs
  <2>2. ASSUME NEW u \in Thread, ThreadStep(u)
        PROVE  pc[u] \in {"list", "open", "delete"} =>
                 Stage(u)' < Stage(u) \/ (Stage(u)' = Stage(u) /\ live'[u] \subseteq live[u]
                                                             /\ live'[u] # live[u])
    BY <2>2, ThreadStepIs
  <2>3. \A u \in Thread \ {t} : UNCHANGED <<pc[u], db[u], live[u]>>
    BY <1>1, ThreadStepIs
  <2>4. PassAdvances
    BY <1>1, <2>2, <2>3 DEF PassAdvances
  <2>5. UNCHANGED <<store, ini, override>> /\ \A p \in Profile : rows'[p] \subseteq rows[p]
    BY <1>1, ThreadStepIs
  <2>6. UNCHANGED ProfileDir
    BY <2>5 DEF ProfileDir
  <2>7. Purged => Purged'
    BY <2>5, <2>6 DEF Purged
  <2>8. \A u \in Thread \ {t} : OnTrack(u) => OnTrack(u)'
    BY <2>3, <2>5, OthersKeepTrack
  <2>9. UNCHANGED faults => (OnTrack(t) => OnTrack(t)' \/ Purged')
    BY <1>1, ThreadStepIs
  <2>10. ASSUME NEW u \in Thread, UNCHANGED faults, StartPass(u)
         PROVE  OnTrack(u)' \/ ProfileDir' \notin Profile
    BY <2>10, ThreadStepIs DEF ThreadStep
  <2>11. QED
    BY <2>1, <2>4, <2>7, <2>8, <2>9, <2>10 DEF QuietPassPurges
<1>2. ASSUME \A u \in Thread : ~ThreadStep(u),
             UNCHANGED <<live, db, faults>>, store' \in Stores, changes' \in Nat,
             \A u \in Thread : pc'[u] = pc[u] \/ (pc[u] \notin {"list", "open", "delete"} /\ pc'[u] = "rest"),
             UNCHANGED changes => UNCHANGED <<store, ini, override, rows>>
      PROVE  PassOK' /\ PassAdvances /\ QuietPassPurges
  <2>1. PassOK'
    BY <1>2 DEF PassOK
  <2>2. PassAdvances
    BY <1>2 DEF PassAdvances
  <2>3. \A u \in Thread : ~StartPass(u)
    BY <1>2 DEF ThreadStep
  <2>4. UNCHANGED changes => UNCHANGED <<ProfileDir, store, rows, live, db>>
    BY <1>2 DEF ProfileDir
  <2>5. ASSUME UNCHANGED <<faults, changes>>
        PROVE  (Purged => Purged') /\ \A u \in Thread : OnTrack(u) => OnTrack(u)'
    BY <1>2, <2>4, <2>5 DEF Purged, OnTrack
  <2>6. QED
    BY <2>1, <2>2, <2>3, <2>5 DEF QuietPassPurges
<1>3. CASE \E t \in Thread : ThreadStep(t)
  BY <1>1, <1>3
<1>4. CASE ~ \E t \in Thread : ThreadStep(t)
  <2>1. CASE C_Initialize
    <3>1. UNCHANGED <<override, db, live, store, ini, rows, faults, changes>>
      BY <2>1 DEF C_Initialize, world
    <3>2. pc' = pc \/ (pc[1] = "unborn" /\ pc' = [pc EXCEPT ![1] = "rest"])
      BY <2>1, CleanupAssumption DEF C_Initialize, SpawnBackgroundThread, Spawn, CInv
    <3>3. QED
      BY <1>2, <1>4, <3>1, <3>2 DEF PassOK, CInv
  <2>2. CASE C_Finalize \/ UNCHANGED cleanupVars
    <3>1. UNCHANGED <<pc, override, db, live, store, ini, rows, faults, changes>>
      BY <2>2 DEF C_Finalize, threads, world, cleanupVars
    <3>2. QED
      BY <1>2, <1>4, <3>1 DEF PassOK
  <2>3. CASE ChangeStores \/ ChangeProfiles \/ \E p \in Profile, c \in Cert : NssStores(p, c)
    <3>1. UNCHANGED <<pc, db, live, faults>> /\ store' \in Stores /\ changes' = changes + 1
      BY <2>3 DEF ChangeStores, ChangeProfiles, NssStores, ByOthers, threads, PassOK
    <3>2. changes' \in Nat /\ changes' # changes
      BY <3>1 DEF PassOK
    <3>3. QED
      BY <1>2, <1>4, <3>1, <3>2
  <2>4. QED
    BY <1>4, <2>1, <2>2, <2>3 DEF CleanupNext
<1>5. QED
  BY <1>3, <1>4

\* The cleanup can not get stuck in a pass or leave it early: it comes to the deletions only with
\* certificates left, each of its steps gets it further whether or not its call works, and nobody
\* puts it off.  A pass that starts on the database in use, while no call fails and others change
\* nothing, takes every row of a certificate with a key with it, and no row comes back by itself.
\* With calls that return, this is StaleRowsGo (run_pass).
THEOREM PassesGetThrough ==
  CleanupSpec =>
    /\ [](\A t \in Thread : /\ pc[t] \in {"list", "open", "delete"} => db[t] \in Profile
                            /\ pc[t] = "delete" => \E c \in Cert : c \in live[t])
    /\ [][PassAdvances /\ QuietPassPurges]_cleanupVars
<1> DEFINE Ready == \A t \in Thread : /\ pc[t] \in {"list", "open", "delete"} => db[t] \in Profile
                                      /\ pc[t] = "delete" => \E c \in Cert : c \in live[t]
<1>1. CleanupInit => PassOK
  BY PassInit
<1>2. CInv /\ PassOK /\ [CleanupNext]_cleanupVars => PassOK' /\ PassAdvances /\ QuietPassPurges
  BY CleanupStepOfPass
<1>3. PassOK => Ready
  BY DEF PassOK
<1>4. CInv /\ PassOK /\ [CleanupNext]_cleanupVars => [PassAdvances /\ QuietPassPurges]_cleanupVars
  BY <1>2
<1>5. QED
  BY <1>1, <1>2, <1>3, <1>4, CleanupInvariant, PTL DEF CleanupSpec
=============================================================================
