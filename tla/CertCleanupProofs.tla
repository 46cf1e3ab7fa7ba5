-------------------------- MODULE CertCleanupProofs --------------------------
(***************************************************************************)
(* For any windows, certificates and addresses: rebuilds that overlap      *)
(* leave the preference as it was, and a cleanup that met no error has     *)
(* deleted what it was to delete.                                          *)
(***************************************************************************)
EXTENDS CertCleanupAddon, FiniteSetTheorems, TLAPS

RebuildState == [at : {"idle"}] \cup [at : {"waiting"}, original : BOOLEAN]
CleanupState ==
  [at : {"idle"}]
  \cup [at : {"reading", "deleting"}, address : Address, stale : SUBSET Cert]
  \cup [at : {"resolved", "rejected"}, stale : SUBSET Cert]

CleanupTypeOK ==
  /\ win \in [Window -> {"closed", "plain", "hooked"}]
  /\ pref \in BOOLEAN /\ userPref \in BOOLEAN /\ interrupted \in BOOLEAN
  /\ rebuild \in [Window -> RebuildState]
  /\ imports \in Nat
  /\ cleanup \in [Window -> CleanupState]
  /\ rows \subseteq Cert
  /\ fin \in [todo : SUBSET Cert, stale : SUBSET Cert]

\* Nobody waits for an import that was never started: whatever value the preference has, and
\* whatever other windows are doing to it, each rebuild changes it from false to true
\* (reinitCertVerifier forces it to false first).
ImportUnderWay == Rebuilding # {} => imports > 0

\* Only hooked windows rebuild, until they are closed.
PlainAtRest == \A w \in Window : win[w] = "plain" => rebuild[w] = NotRebuilding

\* While windows rebuild, the preference is forced; one of them has found what the user chose.
PrefKept ==
  ~interrupted =>
    IF Rebuilding = {} THEN pref = userPref
    ELSE pref = TRUE /\ (userPref <=> \A w \in Rebuilding : rebuild[w].original)

\* What a cleanup still owes are rows of its address; once it is over it owes none.
StaleOK ==
  \A w \in Window :
    /\ cleanup[w].at \in {"reading", "deleting"} => cleanup[w].stale \subseteq RowsOf(cleanup[w].address)
    /\ cleanup[w].at \in {"resolved", "rejected"} => cleanup[w].stale = {}

AInv ==
  /\ CleanupTypeOK
  /\ PlainAtRest /\ ImportUnderWay /\ PrefKept
  /\ StaleOK /\ fin.stale \subseteq fin.todo

VerifierInv == PlainAtRest /\ ImportUnderWay /\ PrefKept
CleaningInv == StaleOK /\ fin.stale \subseteq fin.todo

LEMMA AInvInit == Init => AInv
<1> SUFFICES ASSUME Init PROVE AInv
  OBVIOUS
<1>1. Rebuilding = {}
  BY DEF Init, Rebuilding, NotRebuilding
<1>2. CleanupTypeOK
  BY DEF Init, CleanupTypeOK, RebuildState, CleanupState, NotRebuilding, NotCleaning, NotFinal
<1>3. VerifierInv
  BY <1>1 DEF Init, VerifierInv, PlainAtRest, ImportUnderWay, PrefKept
<1>4. CleaningInv
  BY DEF Init, CleaningInv, StaleOK, NotCleaning, NotFinal
<1>5. QED
  BY <1>2, <1>3, <1>4 DEF AInv, VerifierInv, CleaningInv

-----------------------------------------------------------------------------
(* What a step leaves alone. *)

LEMMA VerifierKept ==
  ASSUME AInv, UNCHANGED <<win, pref, userPref, rebuild, imports, interrupted>>
  PROVE  /\ VerifierInv'
         /\ win' \in [Window -> {"closed", "plain", "hooked"}] /\ rebuild' \in [Window -> RebuildState]
         /\ pref' \in BOOLEAN /\ userPref' \in BOOLEAN /\ interrupted' \in BOOLEAN /\ imports' \in Nat
BY DEF AInv, VerifierInv, CleanupTypeOK, PlainAtRest, ImportUnderWay, PrefKept, Rebuilding

LEMMA CleaningKept ==
  ASSUME AInv, UNCHANGED <<cleanup, rows, fin>>
  PROVE  CleaningInv' /\ cleanup' \in [Window -> CleanupState] /\ rows' \subseteq Cert
         /\ fin' \in [todo : SUBSET Cert, stale : SUBSET Cert]
BY DEF AInv, CleaningInv, CleanupTypeOK, StaleOK, RowsOf

\* Windows of W, none of which rebuilds, get hooked.
LEMMA HookKeepsVerifier ==
  ASSUME AInv, NEW W \in SUBSET Window, W # {}, \A w \in W : rebuild[w] = NotRebuilding,
         HookComposeWindows(W), UNCHANGED <<userPref, interrupted>>
  PROVE  /\ VerifierInv'
         /\ win' \in [Window -> {"closed", "plain", "hooked"}] /\ rebuild' \in [Window -> RebuildState]
         /\ pref' \in BOOLEAN /\ userPref' \in BOOLEAN /\ interrupted' \in BOOLEAN /\ imports' \in Nat
<1>1. PICK first \in W :
        rebuild' = [w \in Window |->
          IF w \notin W THEN rebuild[w]
          ELSE [at |-> "waiting", original |-> IF w = first THEN pref ELSE TRUE]]
  BY DEF HookComposeWindows, Reinit
<1>2. /\ win' = [w \in Window |-> IF w \in W THEN "hooked" ELSE win[w]]
      /\ pref' = TRUE /\ imports' = imports + Cardinality(W)
  BY DEF HookComposeWindows, Reinit
<1>3. IsFiniteSet(W) /\ Cardinality(W) \in Nat /\ Cardinality(W) # 0
  BY FS_Subset, FS_CardinalityType, FS_EmptySet, CertCleanupAssumption
<1>4. imports' \in Nat /\ imports' > 0
  BY <1>2, <1>3 DEF AInv, CleanupTypeOK
<1>5. /\ \A w \in Window \ W : rebuild'[w] = rebuild[w]
      /\ \A w \in W \ {first} : rebuild'[w] = [at |-> "waiting", original |-> TRUE]
      /\ rebuild'[first] = [at |-> "waiting", original |-> pref]
  BY <1>1
<1>6. rebuild' \in [Window -> RebuildState]
  <2>1. \A b \in BOOLEAN : [at |-> "waiting", original |-> b] \in RebuildState
    BY DEF RebuildState
  <2>2. rebuild'[first] \in RebuildState
    BY <1>5, <2>1 DEF AInv, CleanupTypeOK
  <2>3. \A w \in W \ {first} : rebuild'[w] \in RebuildState
    BY <1>5, <2>1
  <2>4. \A w \in Window \ W : rebuild'[w] \in RebuildState
    BY <1>5 DEF AInv, CleanupTypeOK
  <2>5. \A w \in Window : rebuild'[w] \in RebuildState
    BY <2>2, <2>3, <2>4
  <2>6. QED
    BY <1>1, <2>5
<1>7. Rebuilding' = Rebuilding \cup W /\ Rebuilding \cap W = {}
  BY <1>5 DEF Rebuilding, NotRebuilding
<1>8. PrefKept'
  <2> SUFFICES ASSUME ~interrupted
               PROVE  userPref' <=> \A w \in Rebuilding' : rebuild'[w].original
    BY <1>2, <1>7 DEF PrefKept
  <2>1. rebuild'[first].original <=> pref
    BY <1>5 DEF AInv, CleanupTypeOK
  <2>2. \A w \in W \ {first} : rebuild'[w].original
    BY <1>5
  <2>3. \A w \in Rebuilding : rebuild'[w] = rebuild[w]
    BY <1>5, <1>7 DEF Rebuilding
  <2>4. (\A w \in Rebuilding' : rebuild'[w].original)
          <=> (pref /\ \A w \in Rebuilding : rebuild[w].original)
    BY <1>7, <2>1, <2>2, <2>3
  <2>5. userPref <=> (pref /\ \A w \in Rebuilding : rebuild[w].original)
    BY DEF AInv, PrefKept, CleanupTypeOK
  <2>6. QED
    BY <2>4, <2>5
<1>9. PlainAtRest'
  BY <1>2, <1>5 DEF AInv, PlainAtRest, CleanupTypeOK
<1>10. win' \in [Window -> {"closed", "plain", "hooked"}]
  BY <1>2 DEF AInv, CleanupTypeOK
<1>11. QED
  BY <1>2, <1>4, <1>6, <1>8, <1>9, <1>10 DEF AInv, CleanupTypeOK, VerifierInv, ImportUnderWay

\* A set of rows goes, or none, and one cleanup moves on.
LEMMA RemoveKeepsCleaning ==
  ASSUME AInv, NEW gone \in SUBSET Cert, rows' = rows \ gone,
         fin' = [fin EXCEPT !.stale = @ \ gone] \/ fin' = [todo |-> fin.todo \ gone, stale |-> fin.stale \ gone],
         cleanup' \in [Window -> CleanupState],
         \A w \in Window : \/ cleanup'[w] = Without(cleanup[w], gone)
                           \/ cleanup'[w].at \in {"resolved", "rejected"} /\ cleanup'[w].stale = {}
  PROVE  CleaningInv' /\ rows' \subseteq Cert /\ fin' \in [todo : SUBSET Cert, stale : SUBSET Cert]
<1>1. rows' \subseteq Cert /\ fin' \in [todo : SUBSET Cert, stale : SUBSET Cert]
      /\ fin'.stale \subseteq fin'.todo
  BY DEF AInv, CleanupTypeOK
<1>2. ASSUME NEW w \in Window
      PROVE  /\ cleanup'[w].at \in {"reading", "deleting"} =>
                  cleanup'[w].stale \subseteq {c \in rows' : AddressOf[c] = cleanup'[w].address}
             /\ cleanup'[w].at \in {"resolved", "rejected"} => cleanup'[w].stale = {}
  <2>1. CASE cleanup'[w] = Without(cleanup[w], gone)
    <3>1. CASE cleanup[w] = NotCleaning
      BY <2>1, <3>1 DEF Without, NotCleaning
    <3>2. CASE cleanup[w] # NotCleaning
      <4>1. cleanup'[w] = [cleanup[w] EXCEPT !.stale = @ \ gone]
        BY <2>1, <3>2 DEF Without
      <4>2. cleanup[w] \in CleanupState
        BY DEF AInv, CleanupTypeOK
      <4>3. CASE cleanup[w] \in [at : {"reading", "deleting"}, address : Address, stale : SUBSET Cert]
        BY <4>1, <4>3 DEF AInv, StaleOK, RowsOf
      <4>4. CASE cleanup[w] \in [at : {"resolved", "rejected"}, stale : SUBSET Cert]
        BY <4>1, <4>4 DEF AInv, StaleOK
      <4>5. cleanup[w] \notin [at : {"idle"}]
        BY <3>2 DEF NotCleaning
      <4>6. QED
        BY <4>2, <4>3, <4>4, <4>5 DEF CleanupState
    <3>3. QED
      BY <3>1, <3>2
  <2>2. CASE cleanup'[w].at \in {"resolved", "rejected"} /\ cleanup'[w].stale = {}
    BY <2>2
  <2>3. QED
    BY <2>1, <2>2
<1>3. StaleOK'
  BY <1>2 DEF StaleOK, RowsOf
<1>4. QED
  BY <1>1, <1>3 DEF CleaningInv
-----------------------------------------------------------------------------
(* Windows and the verifier. *)

LEMMA WindowStepKeepsAInv ==
  ASSUME AInv,
         Initialize \/ Unload \/ AnnounceImport
         \/ \E w \in Window : OpenWindow(w) \/ CloseWindow(w) \/ TimeOut(w)
  PROVE  AInv'
<1>1. UNCHANGED <<cleanup, rows, fin>>
  BY DEF Initialize, Unload, AnnounceImport, OpenWindow, CloseWindow, TimeOut, sendVars
<1>2. CleaningInv' /\ cleanup' \in [Window -> CleanupState] /\ rows' \subseteq Cert
      /\ fin' \in [todo : SUBSET Cert, stale : SUBSET Cert]
  BY <1>1, CleaningKept
<1> DEFINE Types ==
      /\ win' \in [Window -> {"closed", "plain", "hooked"}] /\ rebuild' \in [Window -> RebuildState]
      /\ pref' \in BOOLEAN /\ userPref' \in BOOLEAN /\ interrupted' \in BOOLEAN /\ imports' \in Nat
<1> SUFFICES VerifierInv' /\ Types
  BY <1>2 DEF AInv, CleanupTypeOK, VerifierInv, CleaningInv
<1>3. CASE Initialize
  <2> DEFINE plain == {w \in Window : win[w] = "plain"}
  <2>1. UNCHANGED <<userPref, interrupted>>
    BY <1>3 DEF Initialize
  <2>2. CASE plain = {}
    <3>1. UNCHANGED <<win, pref, userPref, rebuild, imports, interrupted>>
      BY <1>3, <2>1, <2>2 DEF Initialize
    <3>2. QED
      BY <3>1, VerifierKept
  <2>3. CASE plain # {}
    <3>1. HookComposeWindows(plain)
      BY <1>3, <2>3 DEF Initialize
    <3>2. plain \in SUBSET Window /\ \A w \in plain : rebuild[w] = NotRebuilding
      BY DEF AInv, PlainAtRest
    <3> HIDE DEF plain
    <3>3. QED
      BY <2>1, <2>3, <3>1, <3>2, HookKeepsVerifier
  <2>4. QED
    BY <2>2, <2>3
<1>4. CASE Unload
  <2>1. UNCHANGED <<win, pref, userPref, rebuild, imports, interrupted>>
    BY <1>4 DEF Unload
  <2>2. QED
    BY <2>1, VerifierKept
<1>5. CASE AnnounceImport
  <2>1. /\ imports > 0 /\ imports' = imports - 1
        /\ pref' = (pref /\ \A w \in Rebuilding : rebuild[w].original)
        /\ rebuild' = [w \in Window |-> NotRebuilding]
        /\ UNCHANGED <<win, userPref, interrupted>>
    BY <1>5 DEF AnnounceImport
  <2>2. Rebuilding' = {}
    BY <2>1 DEF Rebuilding, NotRebuilding
  <2>3. pref' \in BOOLEAN
    BY <2>1
  <2>4. Types
    BY <2>1, <2>3 DEF AInv, CleanupTypeOK, RebuildState, NotRebuilding
  <2>5. ~interrupted => (pref' <=> userPref)
    BY <2>1 DEF AInv, PrefKept, CleanupTypeOK
  <2>6. ~interrupted => pref' = userPref
    BY <2>3, <2>5 DEF AInv, CleanupTypeOK
  <2>7. VerifierInv'
    BY <2>1, <2>2, <2>6 DEF VerifierInv, PlainAtRest, ImportUnderWay, PrefKept
  <2>8. QED
    BY <2>4, <2>7
<1>6. ASSUME NEW w \in Window, OpenWindow(w)
      PROVE  VerifierInv' /\ Types
  <2>1. rebuild[w] = NotRebuilding /\ UNCHANGED <<userPref, interrupted>>
    BY <1>6 DEF OpenWindow
  <2>2. CASE active
    <3>1. HookComposeWindows({w})
      BY <1>6, <2>2 DEF OpenWindow
    <3>2. QED
      BY <2>1, <3>1, HookKeepsVerifier
  <2>3. CASE ~active
    <3>1. win' = [win EXCEPT ![w] = "plain"] /\ UNCHANGED <<pref, rebuild, imports>>
      BY <1>6, <2>3 DEF OpenWindow
    <3>2. Types
      BY <2>1, <3>1 DEF AInv, CleanupTypeOK
    <3>3. VerifierInv'
      BY <2>1, <3>1 DEF AInv, CleanupTypeOK, VerifierInv, PlainAtRest, ImportUnderWay, PrefKept, Rebuilding
    <3>4. QED
      BY <3>2, <3>3
  <2>4. QED
    BY <2>2, <2>3
<1>7. ASSUME NEW w \in Window, CloseWindow(w)
      PROVE  VerifierInv' /\ Types
  <2>1. win' = [win EXCEPT ![w] = "closed"] /\ UNCHANGED <<pref, userPref, rebuild, imports, interrupted>>
    BY <1>7 DEF CloseWindow
  <2>2. Types
    BY <2>1 DEF AInv, CleanupTypeOK
  <2>3. VerifierInv'
    BY <2>1 DEF AInv, CleanupTypeOK, VerifierInv, PlainAtRest, ImportUnderWay, PrefKept, Rebuilding
  <2>4. QED
    BY <2>2, <2>3
<1>8. ASSUME NEW w \in Window, TimeOut(w)
      PROVE  VerifierInv' /\ Types
  <2>1. /\ rebuild' = [rebuild EXCEPT ![w] = NotRebuilding] /\ interrupted' = TRUE
        /\ UNCHANGED <<win, pref, userPref, imports>>
    BY <1>8 DEF TimeOut
  <2>2. Types
    BY <2>1 DEF AInv, CleanupTypeOK, RebuildState, NotRebuilding
  <2>3. Rebuilding' \subseteq Rebuilding
    BY <2>1 DEF AInv, CleanupTypeOK, Rebuilding, NotRebuilding
  <2>4. VerifierInv'
    BY <2>1, <2>3 DEF AInv, CleanupTypeOK, VerifierInv, PlainAtRest, ImportUnderWay, PrefKept
  <2>5. QED
    BY <2>2, <2>4
<1>9. QED
  BY <1>3, <1>4, <1>5, <1>6, <1>7, <1>8

-----------------------------------------------------------------------------
(* Clicks, shutdown and restart. *)

LEMMA OthersKept ==
  ASSUME AInv, UNCHANGED windowVars, CleaningInv', cleanup' \in [Window -> CleanupState],
         rows' \subseteq Cert, fin' \in [todo : SUBSET Cert, stale : SUBSET Cert]
  PROVE  AInv'
<1>1. UNCHANGED <<win, pref, userPref, rebuild, imports, interrupted>>
  BY DEF windowVars
<1>2. QED
  BY <1>1, VerifierKept DEF AInv, CleanupTypeOK, VerifierInv, CleaningInv

\* One cleanup gets to a point where what it owes is in the database.
LEMMA CleanupMoves ==
  ASSUME AInv, UNCHANGED <<windowVars, rows, fin>>, NEW w \in Window, NEW record \in CleanupState,
         cleanup' = [cleanup EXCEPT ![w] = record],
         record.at \in {"reading", "deleting"} => record.stale \subseteq RowsOf(record.address),
         record.at \in {"resolved", "rejected"} => record.stale = {}
  PROVE  AInv'
<1>1. cleanup' \in [Window -> CleanupState] /\ rows' \subseteq Cert
      /\ fin' \in [todo : SUBSET Cert, stale : SUBSET Cert]
  BY DEF AInv, CleanupTypeOK
<1>2. cleanup'[w] = record /\ \A v \in Window \ {w} : cleanup'[v] = cleanup[v]
  BY DEF AInv, CleanupTypeOK
<1>3. CleaningInv'
  BY <1>2 DEF AInv, CleaningInv, StaleOK, RowsOf
<1>4. QED
  BY <1>1, <1>3, OthersKept

LEMMA ClosedOK ==
  ASSUME NEW stale \in SUBSET Cert, NEW record \in Closed(stale)
  PROVE  record \in CleanupState /\ record.at \in {"resolved", "rejected"} /\ record.stale = stale
BY DEF Closed, CleanupState
LEMMA WithoutType ==
  ASSUME AInv, NEW w \in Window, NEW gone \in SUBSET Cert
  PROVE  Without(cleanup[w], gone) \in CleanupState
<1>1. cleanup[w] \in CleanupState
  BY DEF AInv, CleanupTypeOK
<1>2. CASE cleanup[w] = NotCleaning
  BY <1>1, <1>2 DEF Without
<1>3. CASE cleanup[w] # NotCleaning
  <2>1. Without(cleanup[w], gone) = [cleanup[w] EXCEPT !.stale = @ \ gone]
    BY <1>3 DEF Without
  <2>2. CASE cleanup[w] \in [at : {"reading", "deleting"}, address : Address, stale : SUBSET Cert]
    BY <2>1, <2>2 DEF CleanupState
  <2>3. CASE cleanup[w] \in [at : {"resolved", "rejected"}, stale : SUBSET Cert]
    BY <2>1, <2>3 DEF CleanupState
  <2>4. cleanup[w] \notin [at : {"idle"}]
    BY <1>3 DEF NotCleaning
  <2>5. QED
    BY <1>1, <2>2, <2>3, <2>4 DEF CleanupState
<1>4. QED
  BY <1>2, <1>3

LEMMA SendStepKeepsAInv ==
  ASSUME AInv, NEW w \in Window, Click(w) \/ SendEnds(w) \/ Cleaning(w)
  PROVE  AInv'
<1>1. UNCHANGED windowVars
  BY DEF Click, SendEnds, Cleaning, ReadRows, DeleteRows, ProceedWithSend
<1>2. cleanup[w] \in CleanupState
  BY DEF AInv, CleanupTypeOK
<1>3. ASSUME UNCHANGED <<cleanup, rows, fin>>
      PROVE  AInv'
  BY <1>1, <1>3, CleaningKept, OthersKept
<1>4. CASE Click(w)
  <2>1. UNCHANGED <<rows, fin>>
    BY <1>4 DEF Click
  <2>2. CASE cleanup[w] # NotCleaning
    <3>1. UNCHANGED cleanup
      BY <1>4, <2>2 DEF Click
    <3>2. QED
      BY <1>3, <2>1, <3>1
  <2>3. CASE cleanup[w] = NotCleaning
    <3>1. PICK address \in Address \cup {NoAddress} :
            cleanup' = [cleanup EXCEPT ![w] =
              IF address = NoAddress THEN Resolved
              ELSE [at |-> "reading", address |-> address, stale |-> RowsOf(address)]]
      BY <1>4, <2>3 DEF Click
    <3>2. CASE address = NoAddress
      <4>1. Resolved \in CleanupState /\ Resolved.at = "resolved" /\ Resolved.stale = {}
        BY DEF Resolved, CleanupState
      <4>2. cleanup' = [cleanup EXCEPT ![w] = Resolved]
        BY <3>1, <3>2
      <4>3. QED
        BY <1>1, <2>1, <4>1, <4>2, CleanupMoves
    <3>3. CASE address # NoAddress
      <4> DEFINE record == [at |-> "reading", address |-> address, stale |-> RowsOf(address)]
      <4>1. RowsOf(address) \in SUBSET Cert
        BY DEF AInv, CleanupTypeOK, RowsOf
      <4>2. record \in CleanupState /\ record.at = "reading" /\ record.stale = RowsOf(record.address)
        BY <3>3, <4>1 DEF CleanupState
      <4>3. cleanup' = [cleanup EXCEPT ![w] = record]
        BY <3>1, <3>3
      <4> HIDE DEF record
      <4>4. QED
        BY <1>1, <2>1, <4>2, <4>3, CleanupMoves
    <3>4. QED
      BY <3>2, <3>3
  <2>4. QED
    BY <2>2, <2>3
<1>5. CASE SendEnds(w)
  BY <1>3, <1>5 DEF SendEnds
<1>6. CASE ReadRows(w)
  <2> DEFINE found == RowsOf(cleanup[w].address) # {}
  <2>1. cleanup[w].at = "reading" /\ UNCHANGED <<rows, fin>>
    BY <1>6 DEF ReadRows
  <2>2. PICK record \in {Resolved} \cup Closed({})
                          \cup IF found THEN {[cleanup[w] EXCEPT !.at = "deleting"]}
                                        ELSE Closed(cleanup[w].stale) :
          cleanup' = [cleanup EXCEPT ![w] = record]
    BY <1>6 DEF ReadRows
  <2>3. cleanup[w] \in [at : {"reading", "deleting"}, address : Address, stale : SUBSET Cert]
    BY <1>2, <2>1 DEF CleanupState
  <2>4. cleanup[w].stale \subseteq RowsOf(cleanup[w].address)
    BY <2>1 DEF AInv, StaleOK
  <2>5. CASE record \in {Resolved} \cup Closed({})
    <3>1. record \in CleanupState /\ record.at \in {"resolved", "rejected"} /\ record.stale = {}
      BY <2>5, ClosedOK DEF Resolved, CleanupState
    <3>2. QED
      BY <1>1, <2>1, <2>2, <3>1, CleanupMoves
  <2>6. CASE found /\ record = [cleanup[w] EXCEPT !.at = "deleting"]
    <3>1. record \in CleanupState /\ record.at = "deleting" /\ record.stale = cleanup[w].stale
          /\ record.address = cleanup[w].address
      BY <2>3, <2>6 DEF CleanupState
    <3>2. QED
      BY <1>1, <2>1, <2>2, <2>4, <3>1, CleanupMoves
  <2>7. CASE ~found /\ record \in Closed(cleanup[w].stale)
    <3>1. cleanup[w].stale = {}
      BY <2>4, <2>7
    <3>2. record \in CleanupState /\ record.at \in {"resolved", "rejected"} /\ record.stale = {}
      BY <2>7, <3>1, ClosedOK
    <3>3. QED
      BY <1>1, <2>1, <2>2, <3>2, CleanupMoves
  <2>8. QED
    BY <2>2, <2>5, <2>6, <2>7
<1>7. CASE DeleteRows(w)
  <2>1. cleanup[w].at = "deleting"
    BY <1>7 DEF DeleteRows
  <2>2. CASE UNCHANGED <<rows, fin>> /\ \E record \in Closed({}) : cleanup' = [cleanup EXCEPT ![w] = record]
    <3>1. PICK record \in Closed({}) : cleanup' = [cleanup EXCEPT ![w] = record]
      BY <2>2
    <3>2. record \in CleanupState /\ record.at \in {"resolved", "rejected"} /\ record.stale = {}
      BY ClosedOK
    <3>3. QED
      BY <1>1, <2>2, <3>1, <3>2, CleanupMoves
  <2> DEFINE gone == RowsOf(cleanup[w].address)
  <2>3. CASE Remove(gone) /\ \E record \in Closed(cleanup[w].stale \ gone) :
               cleanup' = [v \in Window |-> IF v = w THEN record ELSE Without(cleanup[v], gone)]
    <3>1. PICK record \in Closed(cleanup[w].stale \ gone) :
            cleanup' = [v \in Window |-> IF v = w THEN record ELSE Without(cleanup[v], gone)]
      BY <2>3
    <3>2. cleanup[w].stale \ gone = {}
      BY <2>1 DEF AInv, StaleOK
    <3>3. record \in CleanupState /\ record.at \in {"resolved", "rejected"} /\ record.stale = {}
      BY <3>2, ClosedOK
    <3>4. gone \in SUBSET Cert
      BY DEF AInv, CleanupTypeOK, RowsOf
    <3> HIDE DEF gone
    <3>5. \A v \in Window : Without(cleanup[v], gone) \in CleanupState
      BY <3>4, WithoutType
    <3>6. cleanup' \in [Window -> CleanupState]
      BY <3>1, <3>3, <3>5
    <3>7. \A v \in Window : \/ cleanup'[v] = Without(cleanup[v], gone)
                            \/ cleanup'[v].at \in {"resolved", "rejected"} /\ cleanup'[v].stale = {}
      BY <3>1, <3>3
    <3>8. rows' = rows \ gone /\ fin' = [fin EXCEPT !.stale = @ \ gone]
      BY <2>3 DEF Remove
    <3>9. QED
      BY <1>1, <3>4, <3>6, <3>7, <3>8, RemoveKeepsCleaning, OthersKept
  <2>4. QED
    BY <1>7, <2>2, <2>3 DEF DeleteRows
<1>8. CASE ProceedWithSend(w)
  <2>1. NotCleaning \in CleanupState /\ NotCleaning.at = "idle"
    BY DEF NotCleaning, CleanupState
  <2>2. cleanup' = [cleanup EXCEPT ![w] = NotCleaning] /\ UNCHANGED <<rows, fin>>
    BY <1>8 DEF ProceedWithSend
  <2>3. QED
    BY <1>1, <2>1, <2>2, CleanupMoves
<1>9. QED
  BY <1>4, <1>5, <1>6, <1>7, <1>8 DEF Cleaning

LEMMA LifeStepKeepsAInv ==
  ASSUME AInv, OnQuitApplication \/ Exit \/ Start \/ \E c \in Cert : FinCertificate(c) \/ CacheRow(c)
  PROVE  AInv'
<1>1. CASE OnQuitApplication
  <2>1. UNCHANGED <<windowVars, cleanup, rows>>
    BY <1>1 DEF OnQuitApplication, sendVars
  <2>2. fin' = [todo |-> Signing, stale |-> rows \cap Signing] \/ fin' = NotFinal
    BY <1>1 DEF OnQuitApplication
  <2>3. fin' \in [todo : SUBSET Cert, stale : SUBSET Cert] /\ fin'.stale \subseteq fin'.todo
    BY <2>2, CertCleanupAssumption DEF Signing, NotFinal
  <2>4. CleaningInv' /\ cleanup' \in [Window -> CleanupState] /\ rows' \subseteq Cert
    BY <2>1, <2>3 DEF AInv, CleanupTypeOK, CleaningInv, StaleOK, RowsOf
  <2>5. QED
    BY <2>1, <2>3, <2>4, OthersKept
<1>2. CASE Exit
  <2>1. /\ win' = [w \in Window |-> "closed"] /\ rebuild' = [w \in Window |-> NotRebuilding]
        /\ imports' = 0 /\ interrupted' = (interrupted \/ Rebuilding # {})
        /\ cleanup' = [w \in Window |-> NotCleaning] /\ fin' = NotFinal
        /\ UNCHANGED <<pref, userPref, rows>>
    BY <1>2 DEF Exit
  <2>2. Rebuilding' = {}
    BY <2>1 DEF Rebuilding, NotRebuilding
  <2>3. interrupted' \in BOOLEAN
    BY <2>1
  <2>4. CleanupTypeOK'
    BY <2>1, <2>3 DEF AInv, CleanupTypeOK, RebuildState, CleanupState, NotRebuilding, NotCleaning, NotFinal
  <2>5. VerifierInv'
    BY <2>1, <2>2 DEF AInv, VerifierInv, PlainAtRest, ImportUnderWay, PrefKept
  <2>6. CleaningInv'
    BY <2>1 DEF CleaningInv, StaleOK, NotCleaning, NotFinal
  <2>7. QED
    BY <2>4, <2>5, <2>6 DEF AInv, VerifierInv, CleaningInv
<1>3. CASE Start
  <2>1. UNCHANGED <<windowVars, cleanup, rows, fin>>
    BY <1>3 DEF Start, sendVars
  <2>2. QED
    BY <2>1, CleaningKept, OthersKept
<1>4. ASSUME NEW c \in Cert, FinCertificate(c)
      PROVE  AInv'
  <2>1. UNCHANGED windowVars /\ fin' = [todo |-> fin.todo \ {c}, stale |-> fin.stale \ {c}]
    BY <1>4 DEF FinCertificate
  <2>2. CASE UNCHANGED <<rows, cleanup>>
    <3>1. CleaningInv' /\ fin' \in [todo : SUBSET Cert, stale : SUBSET Cert]
      BY <2>1, <2>2 DEF AInv, CleanupTypeOK, CleaningInv, StaleOK, RowsOf
    <3>2. cleanup' \in [Window -> CleanupState] /\ rows' \subseteq Cert
      BY <2>2 DEF AInv, CleanupTypeOK
    <3>3. QED
      BY <2>1, <3>1, <3>2, OthersKept
  <2>3. CASE rows' = rows \ {c} /\ cleanup' = [w \in Window |-> Without(cleanup[w], {c})]
    <3>1. cleanup' \in [Window -> CleanupState]
      BY <2>3, WithoutType
    <3>2. \A w \in Window : cleanup'[w] = Without(cleanup[w], {c})
      BY <2>3
    <3>3. {c} \in SUBSET Cert
      OBVIOUS
    <3>4. QED
      BY <2>1, <2>3, <3>1, <3>2, <3>3, RemoveKeepsCleaning, OthersKept
  <2>4. QED
    BY <1>4, <2>2, <2>3 DEF FinCertificate
<1>5. ASSUME NEW c \in Cert, CacheRow(c)
      PROVE  AInv'
  <2>1. rows' = rows \cup {c} /\ UNCHANGED <<windowVars, cleanup, fin>>
    BY <1>5 DEF CacheRow, sendVars
  <2>2. CleaningInv'
    BY <2>1 DEF AInv, CleaningInv, StaleOK, RowsOf
  <2>3. /\ cleanup' \in [Window -> CleanupState] /\ rows' \subseteq Cert
        /\ fin' \in [todo : SUBSET Cert, stale : SUBSET Cert]
    BY <2>1 DEF AInv, CleanupTypeOK
  <2>4. QED
    BY <2>1, <2>2, <2>3, OthersKept
<1>6. QED
  BY <1>1, <1>2, <1>3, <1>4, <1>5

-----------------------------------------------------------------------------

LEMMA StepKeepsAInv ==
  ASSUME AInv, [Next]_vars
  PROVE  AInv'
<1>1. CASE UNCHANGED vars
  <2>1. UNCHANGED <<windowVars, cleanup, rows, fin>>
    BY <1>1 DEF vars, sendVars
  <2>2. QED
    BY <2>1, CleaningKept, OthersKept
<1>2. CASE Next
  BY <1>2, WindowStepKeepsAInv, SendStepKeepsAInv, LifeStepKeepsAInv DEF Next
<1>3. QED
  BY <1>1, <1>2

\* The inductive invariant: types, what the rebuilding windows have found the preference to be, and
\* what the cleanups still owe against the rows that are there.
THEOREM AddonInvariant == Spec => []AInv
<1>1. Init => AInv
  BY AInvInit
<1>2. AInv /\ [Next]_vars => AInv'
  BY StepKeepsAInv
<1>3. QED
  BY <1>1, <1>2, PTL DEF Spec

\* No rebuild waits for an import that was never started (reinitCertVerifier).
THEOREM RebuildsEnd == Spec => []ImportUnderWay
<1>1. AInv => ImportUnderWay
  BY DEF AInv
<1>2. QED
  BY <1>1, AddonInvariant, PTL

\* Rebuilds of any number of windows, however they overlap, leave the preference as the user chose
\* it unless one is cut short (reinitCertVerifier).
THEOREM PreferenceRestored == Spec => []PrefRestored
<1>1. AInv => PrefRestored
  BY DEF AInv, PrefKept, PrefRestored
<1>2. QED
  BY <1>1, AddonInvariant, PTL

\* A cleanup that met no error leaves none of the rows that were there at the click (doCleanup).
THEOREM SendFindsNoDuplicate == Spec => []CleanedForSend
<1>1. AInv => CleanedForSend
  BY DEF AInv, StaleOK, CleanedForSend
<1>2. QED
  BY <1>1, AddonInvariant, PTL

\* One certificate that fails does not keep the shutdown pass from the others (doCleanupFin).
THEOREM ShutdownIsThorough == Spec => []ShutdownCleansOthers
<1>1. AInv => ShutdownCleansOthers
  BY DEF AInv, ShutdownCleansOthers
<1>2. QED
  BY <1>1, AddonInvariant, PTL
-----------------------------------------------------------------------------
(* A click that was held back is followed by its send. *)

\* A cleanup's steps that are still to come, the send included.
StepsToSend(w) ==
  IF cleanup[w].at = "reading" THEN 3
  ELSE IF cleanup[w].at = "deleting" THEN 2
  ELSE IF cleanup[w].at = "idle" THEN 0 ELSE 1

\* What it waits for is only its own next step: the guards of ReadRows, DeleteRows, ProceedWithSend.
CleaningGoesOn(w) == cleanup[w].at \in {"reading", "deleting", "resolved", "rejected"}

\* A click is held back exactly while its cleanup is under way.
HeldBack == \A w \in Window : heldClick[w] = "waiting" <=> cleanup[w] # NotCleaning
SendInv ==
  /\ heldClick \in [Window -> {"none", "waiting", "sent", "dropped", "lost"}]
  /\ sending \in [Window -> BOOLEAN]
  /\ HeldBack

\* What becomes of a held click when its cleanup is over.
Ends(w) ==
  \/ w \in Sendable /\ heldClick'[w] = "sent" /\ sending'[w]
  \/ w \notin Sendable /\ heldClick'[w] = "dropped"
  \/ app' = "down" /\ heldClick'[w] = "lost"

\* Each step of the cleanup brings its end nearer and nothing that happens elsewhere puts it off.
\* When it is over the message is sent, unless the window can not send or the application has
\* ended; until then the click stays held.
SendComesNearer ==
  \A w \in Window :
    cleanup[w] # NotCleaning =>
      /\ StepsToSend(w)' <= StepsToSend(w)
      /\ Cleaning(w) => StepsToSend(w)' < StepsToSend(w)
      /\ IF cleanup'[w] = NotCleaning THEN Ends(w) ELSE heldClick'[w] = "waiting"

LEMMA StepsToSendIs ==
  ASSUME AInv, NEW w \in Window
  PROVE  /\ StepsToSend(w) \in 0 .. 3
         /\ cleanup[w] # NotCleaning => StepsToSend(w) # 0 /\ CleaningGoesOn(w)
         /\ cleanup[w] = NotCleaning => StepsToSend(w) = 0
<1>1. cleanup[w] \in CleanupState
  BY DEF AInv, CleanupTypeOK
<1>2. \A record \in [at : {"idle"}] : record = NotCleaning
  BY DEF NotCleaning
<1>3. cleanup[w] # NotCleaning => cleanup[w].at # "idle"
  BY <1>1, <1>2 DEF CleanupState
<1>4. QED
  BY <1>1, <1>3 DEF StepsToSend, NotCleaning, CleaningGoesOn, CleanupState

LEMMA WithoutSteps ==
  ASSUME AInv, NEW w \in Window, NEW gone, cleanup'[w] = Without(cleanup[w], gone)
  PROVE  /\ StepsToSend(w)' = StepsToSend(w)
         /\ cleanup'[w] = NotCleaning <=> cleanup[w] = NotCleaning
<1>1. cleanup[w] \in CleanupState
  BY DEF AInv, CleanupTypeOK
<1>2. CASE cleanup[w] = NotCleaning
  BY <1>2 DEF Without, StepsToSend
<1>3. CASE cleanup[w] # NotCleaning
  <2>1. cleanup[w].at # "idle"
    BY <1>3, StepsToSendIs DEF StepsToSend
  <2>2. cleanup'[w] = [cleanup[w] EXCEPT !.stale = @ \ gone]
    BY <1>3 DEF Without
  <2>3. cleanup'[w].at = cleanup[w].at
    BY <1>1, <2>1, <2>2 DEF CleanupState
  <2>4. cleanup'[w] # NotCleaning
    BY <2>1, <2>3 DEF NotCleaning
  <2>5. QED
    BY <1>3, <2>3, <2>4 DEF StepsToSend
<1>4. QED
  BY <1>2, <1>3

LEMMA ClosedAt ==
  ASSUME NEW stale, NEW record \in Closed(stale)
  PROVE  record.at \in {"resolved", "rejected"}
BY DEF Closed

\* One cleanup takes its next step, and others only lose rows they are after.
LEMMA CleaningSteps ==
  ASSUME AInv, SendInv, NEW w \in Window, Cleaning(w)
  PROVE  /\ cleanup[w] # NotCleaning
         /\ StepsToSend(w)' < StepsToSend(w)
         /\ IF ProceedWithSend(w)
            THEN /\ cleanup'[w] = NotCleaning /\ Ends(w) /\ heldClick'[w] # "waiting"
                 /\ \A v \in Window \ {w} : heldClick'[v] = heldClick[v]
            ELSE cleanup'[w] # NotCleaning /\ heldClick' = heldClick
         /\ \A v \in Window \ {w} : /\ StepsToSend(v)' = StepsToSend(v)
                                    /\ cleanup'[v] = NotCleaning <=> cleanup[v] = NotCleaning
<1>1. cleanup[w].at # "idle"
  BY DEF Cleaning, ReadRows, DeleteRows, ProceedWithSend
<1>2. cleanup[w] \in CleanupState /\ cleanup[w] # NotCleaning
  BY <1>1 DEF AInv, CleanupTypeOK, NotCleaning
<1>3. ASSUME NEW record, cleanup' = [cleanup EXCEPT ![w] = record]
      PROVE  cleanup'[w] = record /\ \A v \in Window \ {w} : cleanup'[v] = cleanup[v]
  BY <1>3 DEF AInv, CleanupTypeOK
<1>4. CASE ReadRows(w)
  <2>1. cleanup[w].at = "reading" /\ heldClick' = heldClick
    BY <1>4 DEF ReadRows
  <2>2. PICK record : /\ cleanup' = [cleanup EXCEPT ![w] = record]
                      /\ record.at \in {"resolved", "rejected", "deleting"}
    <3>1. [cleanup[w] EXCEPT !.at = "deleting"].at = "deleting"
      BY <1>2, <2>1 DEF CleanupState
    <3>2. PICK record \in {Resolved} \cup Closed({}) \cup Closed(cleanup[w].stale)
                          \cup {[cleanup[w] EXCEPT !.at = "deleting"]} :
            cleanup' = [cleanup EXCEPT ![w] = record]
      BY <1>4 DEF ReadRows
    <3>3. record.at \in {"resolved", "rejected", "deleting"}
      <4>1. CASE record = Resolved
        BY <4>1 DEF Resolved
      <4>2. CASE record \in Closed({}) \/ record \in Closed(cleanup[w].stale)
        BY <4>2, ClosedAt
      <4>3. CASE record = [cleanup[w] EXCEPT !.at = "deleting"]
        BY <3>1, <4>3
      <4>4. QED
        BY <4>1, <4>2, <4>3
    <3>4. QED
      BY <3>2, <3>3
  <2>3. cleanup'[w] # NotCleaning
    <3>1. cleanup'[w] = record
      BY <1>3, <2>2
    <3>2. QED
      BY <2>2, <3>1 DEF NotCleaning
  <2>4. StepsToSend(w) = 3 /\ StepsToSend(w)' \in {1, 2}
    BY <1>3, <2>1, <2>2 DEF StepsToSend
  <2>5. ~ProceedWithSend(w)
    BY <2>1 DEF ProceedWithSend
  <2>6. QED
    BY <1>2, <1>3, <2>1, <2>2, <2>3, <2>4, <2>5 DEF StepsToSend
<1>5. CASE DeleteRows(w)
  <2>1. cleanup[w].at = "deleting" /\ heldClick' = heldClick
    BY <1>5 DEF DeleteRows
  <2>2. /\ cleanup'[w].at \in {"resolved", "rejected"}
        /\ \A v \in Window \ {w} : cleanup'[v] = cleanup[v] \/ \E gone : cleanup'[v] = Without(cleanup[v], gone)
    <3>1. CASE \E record \in Closed({}) : cleanup' = [cleanup EXCEPT ![w] = record]
      BY <1>3, <3>1 DEF Closed
    <3>2. CASE \E gone : \E record \in Closed(cleanup[w].stale \ gone) :
                 cleanup' = [v \in Window |-> IF v = w THEN record ELSE Without(cleanup[v], gone)]
      BY <3>2 DEF Closed
    <3>3. QED
      BY <1>5, <3>1, <3>2 DEF DeleteRows
  <2>3. cleanup'[w] # NotCleaning
    BY <2>2 DEF NotCleaning
  <2>4. StepsToSend(w) = 2 /\ StepsToSend(w)' = 1
    BY <2>1, <2>2 DEF StepsToSend
  <2>5. ~ProceedWithSend(w)
    BY <2>1 DEF ProceedWithSend
  <2>6. ASSUME NEW v \in Window \ {w}, cleanup'[v] = cleanup[v]
        PROVE  /\ StepsToSend(v)' = StepsToSend(v)
               /\ cleanup'[v] = NotCleaning <=> cleanup[v] = NotCleaning
    BY <2>6 DEF StepsToSend
  <2>7. QED
    BY <1>2, <2>1, <2>2, <2>3, <2>4, <2>5, <2>6, WithoutSteps
<1>6. CASE ProceedWithSend(w)
  <2>1. /\ cleanup' = [cleanup EXCEPT ![w] = NotCleaning]
        /\ Ends(w) /\ heldClick'[w] # "waiting"
        /\ \A v \in Window \ {w} : heldClick'[v] = heldClick[v]
    BY <1>6 DEF ProceedWithSend, SendInv, Ends
  <2>2. StepsToSend(w) = 1 /\ StepsToSend(w)' = 0
    <3>1. cleanup[w].at \in {"resolved", "rejected"}
      BY <1>6 DEF ProceedWithSend
    <3>2. cleanup'[w] = NotCleaning
      BY <1>3, <2>1
    <3>3. cleanup'[w].at = "idle"
      BY <3>2 DEF NotCleaning
    <3>4. QED
      BY <3>1, <3>3 DEF StepsToSend
  <2>3. QED
    BY <1>2, <1>3, <1>6, <2>1, <2>2 DEF StepsToSend
<1>7. QED
  BY <1>4, <1>5, <1>6 DEF Cleaning

\* All other steps.
LEMMA OtherStepsOfSend ==
  ASSUME AInv, SendInv, [Next]_vars, \A w \in Window : ~Cleaning(w)
  PROVE  SendInv' /\ SendComesNearer
<1>1. CASE Exit
  <2>1. /\ cleanup' = [w \in Window |-> NotCleaning]
        /\ heldClick' = [w \in Window |-> IF cleanup[w] # NotCleaning THEN "lost" ELSE "none"]
        /\ sending' = [w \in Window |-> FALSE] /\ app' = "down"
    BY <1>1 DEF Exit
  <2>2. SendInv'
    BY <2>1 DEF SendInv, HeldBack
  <2>3. \A w \in Window : StepsToSend(w)' = 0 /\ StepsToSend(w) \in 0 .. 3
    BY <2>1, StepsToSendIs DEF StepsToSend, NotCleaning
  <2>4. QED
    BY <2>1, <2>2, <2>3 DEF SendComesNearer, Ends
<1>2. ASSUME \A w \in Window : /\ cleanup'[w] = cleanup[w]
                                  \/ \E gone : cleanup'[w] = Without(cleanup[w], gone)
                               /\ \/ heldClick'[w] = heldClick[w]
                                  \/ cleanup[w] = NotCleaning /\ heldClick'[w] = "none",
             heldClick' \in [Window -> {"none", "waiting", "sent", "dropped", "lost"}],
             sending' \in [Window -> BOOLEAN]
      PROVE  SendInv' /\ SendComesNearer
  <2>1. \A w \in Window : /\ StepsToSend(w)' = StepsToSend(w) /\ StepsToSend(w) \in 0 .. 3
                          /\ cleanup'[w] = NotCleaning <=> cleanup[w] = NotCleaning
    BY <1>2, WithoutSteps, StepsToSendIs DEF StepsToSend
  <2>2. QED
    BY <1>2, <2>1 DEF SendInv, HeldBack, SendComesNearer
<1>3. ASSUME NEW w \in Window, Click(w)
      PROVE  SendInv' /\ SendComesNearer
  <2>1. sending' \in [Window -> BOOLEAN]
    BY <1>3 DEF Click, SendInv
  <2>2. CASE cleanup[w] = NotCleaning
    <3>1. PICK record : /\ cleanup' = [cleanup EXCEPT ![w] = record]
                        /\ record.at \in {"resolved", "reading"}
      <4>1. PICK address \in Address \cup {NoAddress} :
              cleanup' = [cleanup EXCEPT ![w] =
                IF address = NoAddress THEN Resolved
                ELSE [at |-> "reading", address |-> address, stale |-> RowsOf(address)]]
        BY <1>3, <2>2 DEF Click
      <4>2. CASE address = NoAddress
        <5>1. cleanup' = [cleanup EXCEPT ![w] = Resolved] /\ Resolved.at = "resolved"
          BY <4>1, <4>2 DEF Resolved
        <5>2. QED
          BY <5>1
      <4>3. CASE address # NoAddress
        <5> DEFINE record == [at |-> "reading", address |-> address, stale |-> RowsOf(address)]
        <5>1. cleanup' = [cleanup EXCEPT ![w] = record] /\ record.at = "reading"
          BY <4>1, <4>3
        <5> HIDE DEF record
        <5>2. QED
          BY <5>1
      <4>4. QED
        BY <4>2, <4>3
    <3>2. heldClick' = [heldClick EXCEPT ![w] = "waiting"]
      BY <1>3, <2>2 DEF Click
    <3>3. cleanup'[w] # NotCleaning /\ \A v \in Window \ {w} : cleanup'[v] = cleanup[v]
      BY <3>1 DEF AInv, CleanupTypeOK, NotCleaning
    <3>4. SendInv'
      BY <2>1, <2>2, <3>2, <3>3 DEF SendInv, HeldBack
    <3>5. \A v \in Window \ {w} : StepsToSend(v)' = StepsToSend(v) /\ StepsToSend(v) \in 0 .. 3
      BY <3>3, StepsToSendIs DEF StepsToSend
    <3>6. QED
      BY <2>2, <3>3, <3>4, <3>5 DEF SendComesNearer, SendInv, HeldBack
  <2>3. CASE cleanup[w] # NotCleaning
    <3>1. UNCHANGED <<cleanup, heldClick>>
      BY <1>3, <2>3 DEF Click
    <3>2. QED
      BY <1>2, <2>1, <3>1 DEF SendInv
  <2>4. QED
    BY <2>2, <2>3
<1>4. ASSUME NEW w \in Window, CloseWindow(w) \/ SendEnds(w)
      PROVE  SendInv' /\ SendComesNearer
  <2>1. /\ UNCHANGED cleanup /\ sending' = [sending EXCEPT ![w] = FALSE]
        /\ \/ heldClick' = heldClick
           \/ cleanup[w] = NotCleaning /\ heldClick' = [heldClick EXCEPT ![w] = "none"]
    BY <1>4 DEF CloseWindow, SendEnds
  <2>2. QED
    BY <1>2, <2>1 DEF SendInv
<1>5. ASSUME NEW c \in Cert, FinCertificate(c)
      PROVE  SendInv' /\ SendComesNearer
  <2>1. /\ UNCHANGED <<heldClick, sending>>
        /\ UNCHANGED cleanup \/ cleanup' = [w \in Window |-> Without(cleanup[w], {c})]
    BY <1>5 DEF FinCertificate
  <2>2. QED
    BY <1>2, <2>1 DEF SendInv
<1>6. ASSUME UNCHANGED sendVars
      PROVE  SendInv' /\ SendComesNearer
  BY <1>2, <1>6 DEF SendInv, sendVars
<1>7. QED
  BY <1>1, <1>3, <1>4, <1>5, <1>6
  DEF Next, vars, Initialize, Unload, AnnounceImport, OnQuitApplication, Start, OpenWindow, TimeOut, CacheRow

\* A click on Send that was held back is sent, whatever fails in the cleanup: there is one cleanup
\* for it, with at most three steps of its own, each of which it can take when it comes to it, and
\* no step of another window, of an import or of the shutdown puts them off or ends the click.  The
\* cleanup over, the message is sent.  The exceptions are a window without GenericSendMessage(),
\* whose click is dropped, and the end of the application, which loses it (hookSendButton,
\* doCleanup).  With database calls that return, this is ClicksSend.
THEOREM SendFollowsClick ==
  Spec => /\ [](HeldBack /\ \A w \in Window :
                  heldClick[w] = "waiting" => CleaningGoesOn(w) /\ StepsToSend(w) \in 1 .. 3)
          /\ [][SendComesNearer]_vars
<1>1. Init => SendInv
  BY DEF Init, SendInv, HeldBack
<1>2. AInv /\ SendInv /\ [Next]_vars => SendInv' /\ SendComesNearer
  <2> SUFFICES ASSUME AInv, SendInv, [Next]_vars PROVE SendInv' /\ SendComesNearer
    OBVIOUS
  <2>1. ASSUME NEW w \in Window, Cleaning(w)
        PROVE  SendInv' /\ SendComesNearer
    <3>1. /\ heldClick' \in [Window -> {"none", "waiting", "sent", "dropped", "lost"}]
          /\ sending' \in [Window -> BOOLEAN]
      <4>1. CASE ProceedWithSend(w)
        BY <4>1 DEF ProceedWithSend, SendInv
      <4>2. CASE ReadRows(w) \/ DeleteRows(w)
        BY <4>2 DEF ReadRows, DeleteRows, SendInv
      <4>3. QED
        BY <2>1, <4>1, <4>2 DEF Cleaning
    <3>2. SendInv'
      BY <2>1, <3>1, CleaningSteps DEF SendInv, HeldBack
    <3>3. \A v \in Window : StepsToSend(v) \in 0 .. 3
      BY StepsToSendIs
    <3>4. ASSUME NEW v \in Window, Cleaning(v) PROVE StepsToSend(v)' < StepsToSend(v)
      BY <3>4, CleaningSteps
    <3>5. StepsToSend(w)' \in 0 .. 3
      BY DEF StepsToSend
    <3>6. QED
      BY <2>1, <3>2, <3>3, <3>4, <3>5, CleaningSteps DEF SendComesNearer, SendInv, HeldBack
  <2>2. QED
    BY <2>1, OtherStepsOfSend
<1>3. AInv /\ SendInv =>
        HeldBack /\ \A w \in Window :
          heldClick[w] = "waiting" => CleaningGoesOn(w) /\ StepsToSend(w) \in 1 .. 3
  BY StepsToSendIs DEF SendInv, HeldBack
<1>4. AInv /\ SendInv /\ [Next]_vars => [SendComesNearer]_vars
  BY <1>2
<1>5. QED
  BY <1>1, <1>2, <1>3, <1>4, AddonInvariant, PTL DEF Spec
=============================================================================
