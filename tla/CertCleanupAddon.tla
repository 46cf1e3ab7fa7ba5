--------------------------- MODULE CertCleanupAddon ---------------------------
(***************************************************************************)
(* The privileged part of the cert cleanup add-on (implementation.js).  It *)
(* hooks every compose window: when one opens it rebuilds the certificate  *)
(* verifier by forcing a preference for a while, and a click on Send is    *)
(* held back until stale rows of cert9.db are deleted.  A shutdown blocker *)
(* cleans up once more.                                                    *)
(*                                                                         *)
(* JavaScript runs on one thread: a step is what runs between two awaits.  *)
(* Everything that happens in between is a step of something else.         *)
(***************************************************************************)
EXTENDS Naturals, FiniteSets

CONSTANTS
  Window,      \* compose windows
  Sendable,    \* those with a GenericSendMessage function
  Cert,        \* certificates that NSS may have a row for in cert9.db
  Address,     \* e-mail addresses
  NoAddress,   \* no signing identity, or a certificate without an address
  AddressOf,   \* certificate -> its address
  Live,        \* the certificates on our token
  MaxImports   \* bound: imports of enterprise roots under way

ASSUME CertCleanupAssumption ==
  /\ IsFiniteSet(Window)
  /\ Sendable \subseteq Window
  /\ NoAddress \notin Address
  /\ AddressOf \in [Cert -> Address \cup {NoAddress}]
  /\ Live \subseteq Cert
  /\ MaxImports \in Nat \ {0}

VARIABLES
  app,         \* the application: up, quitting (the blocker runs), down
  active,      \* the add-on is initialized and not unloaded
  win,         \* window -> closed, plain or hooked (__certCleanupHooked)
  pref,        \* security.enterprise_roots.enabled
  userPref,    \* what the user chose for it
  rebuild,     \* window -> its reinitCertVerifier(), waiting or over
  imports,     \* imports that a false -> true change of pref started
  interrupted, \* history: a rebuild timed out or died with the application
  cleanup,     \* window -> its doCleanup(); __certCleanupInterceptingSend unless idle
  heldClick,   \* history: window -> what has become of the click held back last
  sending,     \* window -> Thunderbird is sending its message
  rows,        \* the certificates with a row in cert9.db
  fin          \* doCleanupFin()

windowVars == <<active, win, pref, userPref, rebuild, imports, interrupted>>
sendVars == <<cleanup, heldClick, sending>>
vars == <<app, windowVars, sendVars, rows, fin>>

NotRebuilding == [at |-> "idle"]
NotCleaning == [at |-> "idle"]
Resolved == [at |-> "resolved", stale |-> {}]

\* The database is closed; if that fails, so does doCleanup().  Nothing comes between the two
\* that could tell whether it is closed.
Closed(stale) == [at : {"resolved", "rejected"}, stale : {stale}]
NotFinal == [todo |-> {}, stale |-> {}]

Rebuilding == {w \in Window : rebuild[w].at = "waiting"}
RowsOf(address) == {c \in rows : AddressOf[c] = address}

Init ==
  /\ app = "up" /\ active = FALSE
  /\ win \in [Window -> {"closed", "plain"}]
  /\ pref \in BOOLEAN /\ userPref = pref
  /\ rebuild = [w \in Window |-> NotRebuilding]
  /\ imports = 0 /\ interrupted = FALSE
  /\ cleanup = [w \in Window |-> NotCleaning]
  /\ heldClick = [w \in Window |-> "none"]
  /\ sending = [w \in Window |-> FALSE]
  /\ rows = {} /\ fin = NotFinal

-----------------------------------------------------------------------------
(* Windows and the verifier *)

\* reinitCertVerifier() up to its await, for windows hooked one after another.  The first
\* reads the preference as it is, the others what the first has set; each forces a change
\* from false to true, which starts an import.
Reinit(W) ==
  \E first \in W :
    /\ rebuild' = [w \in Window |->
         IF w \notin W THEN rebuild[w]
         ELSE [at |-> "waiting", original |-> IF w = first THEN pref ELSE TRUE]]
    /\ pref' = TRUE
    /\ imports' = imports + Cardinality(W)

HookComposeWindows(W) ==
  /\ imports + Cardinality(W) <= MaxImports
  /\ win' = [w \in Window |-> IF w \in W THEN "hooked" ELSE win[w]]
  /\ Reinit(W)

\* getAPI(): observers are registered, and the compose windows that are open get hooked.
Initialize ==
  /\ app = "up" /\ ~active
  /\ active' = TRUE
  /\ LET plain == {w \in Window : win[w] = "plain"} IN
       IF plain = {} THEN UNCHANGED <<win, pref, rebuild, imports>>
       ELSE HookComposeWindows(plain)
  /\ UNCHANGED <<app, userPref, interrupted, sendVars, rows, fin>>

\* onShutdown() when only the add-on goes: hooked windows keep their listeners.
Unload ==
  /\ app = "up" /\ active
  /\ active' = FALSE
  /\ UNCHANGED <<app, win, pref, userPref, rebuild, imports, interrupted, sendVars, rows, fin>>

\* A new window takes the name of one whose rebuild is over.
OpenWindow(w) ==
  /\ app = "up" /\ win[w] = "closed" /\ rebuild[w] = NotRebuilding
  /\ IF active THEN HookComposeWindows({w})
     ELSE win' = [win EXCEPT ![w] = "plain"] /\ UNCHANGED <<pref, rebuild, imports>>
  /\ UNCHANGED <<app, active, userPref, interrupted, sendVars, rows, fin>>

CloseWindow(w) ==
  /\ win[w] # "closed" /\ cleanup[w] = NotCleaning
  /\ win' = [win EXCEPT ![w] = "closed"]
  /\ sending' = [sending EXCEPT ![w] = FALSE]
  /\ heldClick' = [heldClick EXCEPT ![w] = "none"]
  /\ UNCHANGED <<app, active, pref, userPref, rebuild, imports, interrupted, cleanup, rows, fin>>

\* Sets the preference to what it was read as; the order of the observers decides.
AnnounceImport_RestoresOriginal ==
  /\ imports > 0
  /\ imports' = imports - 1
  /\ IF Rebuilding = {} THEN UNCHANGED pref
     ELSE \E last \in Rebuilding : pref' = rebuild[last].original
  /\ rebuild' = [w \in Window |-> NotRebuilding]
  /\ UNCHANGED <<app, active, win, userPref, interrupted, sendVars, rows, fin>>

\* "psm:enterprise-certs-imported" calls every observer, and what comes after their awaits
\* runs before any other event: whoever found the preference false sets it back.
AnnounceImport ==
  /\ imports > 0
  /\ imports' = imports - 1
  /\ pref' = (pref /\ \A w \in Rebuilding : rebuild[w].original)
  /\ rebuild' = [w \in Window |-> NotRebuilding]
  /\ UNCHANGED <<app, active, win, userPref, interrupted, sendVars, rows, fin>>

\* REINIT_TIMEOUT_MS have passed: the promise is rejected and the catch returns false.
TimeOut(w) ==
  /\ rebuild[w].at = "waiting"
  /\ rebuild' = [rebuild EXCEPT ![w] = NotRebuilding]
  /\ interrupted' = TRUE
  /\ UNCHANGED <<app, active, win, pref, userPref, imports, sendVars, rows, fin>>

-----------------------------------------------------------------------------
(* A click on Send *)

\* The first click is held back, and the rows of its address that are there now are to go;
\* without an address doCleanup() returns at once.  A click in the meantime goes to
\* Thunderbird's own handler, which sends.  Thunderbird takes no click while it is sending.
Click(w) ==
  /\ app = "up" /\ win[w] = "hooked" /\ ~sending[w]
  /\ \/ /\ cleanup[w] = NotCleaning
        /\ \E address \in Address \cup {NoAddress} :
             cleanup' = [cleanup EXCEPT ![w] =
               IF address = NoAddress THEN Resolved
               ELSE [at |-> "reading", address |-> address, stale |-> RowsOf(address)]]
        /\ heldClick' = [heldClick EXCEPT ![w] = "waiting"]
        /\ UNCHANGED sending
     \/ /\ cleanup[w] # NotCleaning
        /\ sending' = [sending EXCEPT ![w] = TRUE]
        /\ UNCHANGED <<cleanup, heldClick>>
  /\ UNCHANGED <<app, windowVars, rows, fin>>

\* External: Thunderbird's send comes to an end.
SendEnds(w) ==
  /\ sending[w]
  /\ sending' = [sending EXCEPT ![w] = FALSE]
  /\ UNCHANGED <<app, windowVars, cleanup, heldClick, rows, fin>>

\* The database is opened and searched.  One that can not be opened has nothing to close.
\* After an error the cleanup owes nobody that rows are gone.
ReadRows(w) ==
  /\ cleanup[w].at = "reading"
  /\ LET found == RowsOf(cleanup[w].address) # {} IN
     \E record \in
         {Resolved} \cup Closed({})                      \* not opened, or SELECT failed
         \cup IF found THEN {[cleanup[w] EXCEPT !.at = "deleting"]}
                       ELSE Closed(cleanup[w].stale) :
       cleanup' = [cleanup EXCEPT ![w] = record]
  /\ UNCHANGED <<app, windowVars, heldClick, sending, rows, fin>>

\* A set of rows goes: for nobody are they stale rows that are left.
Remove(gone) ==
  /\ rows' = rows \ gone
  /\ fin' = [fin EXCEPT !.stale = @ \ gone]

Without(record, gone) ==
  IF record = NotCleaning THEN record ELSE [record EXCEPT !.stale = @ \ gone]

\* Deletes by the id of one row that was read.
DeleteRows_One(w) ==
  /\ cleanup[w].at = "deleting"
  /\ \E c \in RowsOf(cleanup[w].address) :
       /\ Remove({c})
       /\ \E record \in Closed(cleanup[w].stale \ {c}) :
            cleanup' = [v \in Window |-> IF v = w THEN record ELSE Without(cleanup[v], {c})]
  /\ UNCHANGED <<app, windowVars, heldClick, sending>>

DeleteRows(w) ==
  /\ cleanup[w].at = "deleting"
  /\ \/ LET gone == RowsOf(cleanup[w].address) IN
          /\ Remove(gone)
          /\ \E record \in Closed(cleanup[w].stale \ gone) :
               cleanup' = [v \in Window |-> IF v = w THEN record ELSE Without(cleanup[v], gone)]
     \/ /\ \E record \in Closed({}) : cleanup' = [cleanup EXCEPT ![w] = record]
        /\ UNCHANGED <<rows, fin>>
  /\ UNCHANGED <<app, windowVars, heldClick, sending>>

\* Without the catch(): a rejected cleanup is the end of it.
ProceedWithSend_NoCatch(w) ==
  /\ cleanup[w].at = "resolved"
  /\ cleanup' = [cleanup EXCEPT ![w] = NotCleaning]
  /\ \/ /\ w \in Sendable
        /\ heldClick' = [heldClick EXCEPT ![w] = "sent"]
        /\ sending' = [sending EXCEPT ![w] = TRUE]
     \/ /\ w \notin Sendable
        /\ heldClick' = [heldClick EXCEPT ![w] = "dropped"]
        /\ UNCHANGED sending
  /\ UNCHANGED <<app, windowVars, rows, fin>>

\* The then() after the catch(): the flag is cleared and GenericSendMessage() called.  In a
\* window without that function an error is logged, and the click is dropped.
ProceedWithSend(w) ==
  /\ cleanup[w].at \in {"resolved", "rejected"}
  /\ cleanup' = [cleanup EXCEPT ![w] = NotCleaning]
  /\ \/ /\ w \in Sendable
        /\ heldClick' = [heldClick EXCEPT ![w] = "sent"]
        /\ sending' = [sending EXCEPT ![w] = TRUE]
     \/ /\ w \notin Sendable
        /\ heldClick' = [heldClick EXCEPT ![w] = "dropped"]
        /\ UNCHANGED sending
  /\ UNCHANGED <<app, windowVars, rows, fin>>

-----------------------------------------------------------------------------
(* Shutdown and restart *)

\* The candidates of doCleanupFin(): a failure takes one out of fin.stale.
Signing == {c \in Live : AddressOf[c] # NoAddress}

\* The blocker starts doCleanupFin().  Without it, without getCerts(), or with a database
\* that can not be opened nothing gets cleaned; our module may also have no certificates.
OnQuitApplication ==
  /\ app = "up"
  /\ app' = "quitting"
  /\ \/ active /\ fin' = [todo |-> Signing, stale |-> rows \cap Signing]
     \/ fin' = NotFinal
  /\ UNCHANGED <<windowVars, sendVars, rows>>

\* A failure ends the loop.
FinCertificate_Returns(c) ==
  /\ c \in fin.todo
  /\ \/ /\ fin' = [todo |-> {}, stale |-> fin.stale \ {c}]
        /\ UNCHANGED <<rows, cleanup>>
     \/ /\ fin' = [todo |-> fin.todo \ {c}, stale |-> fin.stale \ {c}]
        /\ rows' = rows \ {c}
        /\ cleanup' = [w \in Window |-> Without(cleanup[w], {c})]
  /\ UNCHANGED <<app, windowVars, heldClick, sending>>

\* One certificate of the loop: SELECT or deleteCertificate() fails, or its row is deleted if
\* there is one.
FinCertificate(c) ==
  /\ c \in fin.todo
  /\ fin' = [todo |-> fin.todo \ {c}, stale |-> fin.stale \ {c}]
  /\ \/ UNCHANGED <<rows, cleanup>>
     \/ /\ rows' = rows \ {c}
        /\ cleanup' = [w \in Window |-> Without(cleanup[w], {c})]
  /\ UNCHANGED <<app, windowVars, heldClick, sending>>

\* The process ends with whatever is pending, clicks that are held back included: nothing
\* keeps them for the next start.  Preferences and cert9.db stay.
Exit ==
  /\ app = "quitting" /\ fin.todo = {}
  /\ app' = "down" /\ active' = FALSE
  /\ win' = [w \in Window |-> "closed"]
  /\ rebuild' = [w \in Window |-> NotRebuilding]
  /\ imports' = 0
  /\ interrupted' = (interrupted \/ Rebuilding # {})
  /\ cleanup' = [w \in Window |-> NotCleaning]
  /\ heldClick' = [w \in Window |-> IF cleanup[w] # NotCleaning THEN "lost" ELSE "none"]
  /\ sending' = [w \in Window |-> FALSE]
  /\ fin' = NotFinal
  /\ UNCHANGED <<pref, userPref, rows>>

Start ==
  /\ app = "down"
  /\ app' = "up"
  /\ UNCHANGED <<windowVars, sendVars, rows, fin>>

\* NSS stores a certificate it met in a signature.
CacheRow(c) ==
  /\ app # "down" /\ c \notin rows
  /\ rows' = rows \cup {c}
  /\ UNCHANGED <<app, windowVars, sendVars, fin>>

-----------------------------------------------------------------------------
Cleaning(w) == ReadRows(w) \/ DeleteRows(w) \/ ProceedWithSend(w)

Next ==
  \/ Initialize \/ Unload \/ AnnounceImport
  \/ OnQuitApplication \/ Exit \/ Start
  \/ \E w \in Window : OpenWindow(w) \/ CloseWindow(w) \/ TimeOut(w)
                     \/ Click(w) \/ Cleaning(w) \/ SendEnds(w)
  \/ \E c \in Cert : FinCertificate(c) \/ CacheRow(c)

\* Database calls return; nothing is assumed of imports, timers and the user.
Fairness == \A w \in Window : WF_vars(Cleaning(w))

Spec == Init /\ [][Next]_vars /\ Fairness

-----------------------------------------------------------------------------
(* Properties *)

\* When no rebuild is running, and none was cut short by the timeout or the end of the
\* application, the preference is what the user chose, also when the rebuilds of several
\* windows overlapped and later ones read the forced value (reinitCertVerifier).
PrefRestored == (Rebuilding = {} /\ ~interrupted) => pref = userPref

\* A cleanup that met no error has deleted every row of the signing address that was there
\* when Send was clicked, before the send starts (doCleanup, hookSendButton).
CleanedForSend ==
  \A w \in Window :
    cleanup[w].at \in {"resolved", "rejected"} => cleanup[w].stale = {}

\* At the end of the shutdown pass, each duplicate that was there at its start is deleted,
\* unless deleting that one failed: failures do not keep others from being cleaned
\* (doCleanupFin).
ShutdownCleansOthers ==
  (app = "quitting" /\ fin.todo = {}) => fin.stale = {}

\* A click on Send that is held back is sent in the end, whatever fails in the cleanup and
\* whatever else is going on (hookSendButton).  There are two exceptions: it is dropped in a
\* window without GenericSendMessage(), and lost when the application ends before the cleanup.
ClicksSend ==
  \A w \in Window :
    heldClick[w] = "waiting" ~>
      \/ heldClick[w] = "sent" /\ sending[w]
      \/ heldClick[w] = "dropped" /\ w \notin Sendable
      \/ heldClick[w] = "lost" /\ app = "down"

\* The comment on reinitCertVerifier: it sets the preference to true and waits, "then
\* restores whatever value it started with".  Not after a timeout, or a quit in between.
PrefAlwaysRestored == Rebuilding = {} => pref = userPref

\* background.js: "Cleanup always runs before this window's only send attempt".  Not before
\* that of a second click while the cleanup of the first one is running.
CleanupBeforeSend ==
  [][\A w \in Window :
       (~sending[w] /\ sending'[w]) => cleanup[w].at \in {"resolved", "rejected"}]_vars
=============================================================================
