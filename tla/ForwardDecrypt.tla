---------------------------- MODULE ForwardDecrypt ----------------------------
(***************************************************************************)
(* The forward-decrypt add-on.  Its privileged part (implementation.js)    *)
(* turns the forward of an embedded encrypted message into a reply before  *)
(* the window opens; its background script (background.js) looks at every  *)
(* compose tab, makes a forward of such a reply again, and rebuilds other  *)
(* encrypted forwards.  The two share single variables: the mark of a      *)
(* redirect, its message and its readiness.                                *)
(*                                                                         *)
(* A step of a task is what runs between two awaits; awaits after which    *)
(* nothing that is shared is read belong to the step before.  Thunderbird  *)
(* may stop the background script when it is idle; the next event starts   *)
(* it again, without its memory, and it looks through the open tabs.       *)
(***************************************************************************)
EXTENDS Naturals, FiniteSets

CONSTANTS
  MaxTab,      \* bound: compose tabs, numbered in the order in which they open
  Message,
  None,
  Raw,         \* messages whose raw MIME holds an enveloped-data entity (isEmbeddedEncryptedSmime)
  Container,   \* messages whose root content type is message/rfc822 for the background script
  Encrypted,   \* isSmimeEncrypted
  Decryptable, \* canDecrypt
  MaxTrouble   \* bound: calls that fail, waits that take too long, and stops of the script

ASSUME ForwardAssumption ==
  /\ MaxTab \in Nat
  /\ None \notin Message \cup Nat
  /\ Raw \subseteq Message /\ Container \subseteq Message
  /\ Encrypted \subseteq Message /\ Decryptable \subseteq Message
  /\ MaxTrouble \in Nat

VARIABLES
  enabled,  \* the wrapper of ComposeMessage is installed
  pending,  \* redirectPending
  latest,   \* the tab of the last redirect, whose URI and readiness are the current ones
  ready,    \* tab of a redirect -> its redirectComposeReady: the window it is bound to, the result
  window,   \* tab -> its compose window
  bg,       \* the background script: starting, scanning, up or asleep
  claimed,  \* processedTabIds
  task,     \* tab -> where its processComposeTab() is
  sweeps,   \* tab -> delayed sweeps to come
  taken,    \* history: how many marks reply tabs have taken
  faults,
  sleeps

parentVars == <<enabled, pending, latest, ready>>
backgroundVars == <<bg, claimed, task, sweeps, sleeps>>
forwardVars == <<parentVars, window, backgroundVars, taken, faults>>

Tab == 1 .. MaxTab
NoWindow == [at |-> "none"]
Idle == [at |-> "idle"]
NoReady == [window |-> None, result |-> "none"]
Eligible == Container \cap Encrypted \cap Decryptable
Rebuildable == (Encrypted \cap Decryptable) \ Container

Open(t) == window[t].at \in {"opening", "init", "built"}
Unused == {t \in Tab : window[t] = NoWindow}
Redirected == {t \in Tab \ Unused : window[t].redirected}

ForwardInit ==
  /\ enabled = FALSE /\ pending = FALSE /\ latest = None
  /\ ready = [t \in Tab |-> NoReady]
  /\ window = [t \in Tab |-> NoWindow]
  /\ bg = "starting" /\ claimed = {} /\ task = [t \in Tab |-> Idle]
  /\ sweeps = [t \in Tab |-> 0]
  /\ taken = 0 /\ faults = 0 /\ sleeps = 0

\* A call fails, or something takes longer than is waited for.
Fault == faults + sleeps < MaxTrouble /\ faults' = faults + 1
Works == UNCHANGED faults

-----------------------------------------------------------------------------
(* Compose windows, and what the privileged part does with them. *)

Window(at, type, m, redirected, listens) ==
  [at |-> at, type |-> type, of |-> m, redirected |-> redirected, listens |-> listens,
   announced |-> FALSE, recipients |-> type = "reply", envelope |-> "none",
   files |-> [f \in Message |-> 0]]

\* onOpenWindow(): a window that opens while a redirect is not bound to one listens for its own
\* initialization.
Opens(t, type, m, redirected, current) ==
  /\ t \in Unused /\ \A u \in Unused : t <= u
  /\ window' = [window EXCEPT ![t] =
       Window("opening", type, m, redirected,
              IF current # None /\ ready[current] = NoReady THEN current ELSE None)]

\* ComposeMessage() with a forward type, once the raw message has been read and looked through: the
\* mark, the URI and a new readiness are set, and a reply opens.  Nothing else is kept in the
\* meantime.
Redirect(m, t) ==
  /\ enabled /\ m \in Raw
  /\ pending' = TRUE
  /\ latest' = t
  /\ Opens(t, "reply", m, TRUE, t)
  /\ UNCHANGED <<enabled, ready, backgroundVars, taken, faults>>

\* Otherwise, also when the message can not be read or before the wrapper is there: a forward.
PlainForward(m, t) ==
  /\ IF enabled /\ m \in Raw THEN Fault ELSE Works
  /\ Opens(t, "forward", m, FALSE, latest)
  /\ UNCHANGED <<parentVars, backgroundVars, taken>>

\* The user replies to a message.
Reply(m, t) ==
  /\ Opens(t, "reply", m, FALSE, latest)
  /\ UNCHANGED <<parentVars, backgroundVars, taken, faults>>

\* "compose-window-init": the first window of those that listen is taken for the redirected one.
\* If its listener can not be registered, the readiness is unavailable.
InitWindow(t) ==
  /\ window[t].at = "opening"
  /\ window' = [window EXCEPT ![t].at = "init", ![t].listens = None]
  /\ LET u == window[t].listens IN
       IF u # None /\ ready[u] = NoReady
       THEN \/ ready' = [ready EXCEPT ![u].window = t] /\ Works
            \/ ready' = [ready EXCEPT ![u] = [window |-> t, result |-> "unavailable"]] /\ Fault
       ELSE UNCHANGED ready /\ Works
  /\ UNCHANGED <<enabled, pending, latest, backgroundVars, taken>>

\* The promises bound to a window are resolved once.
Resolve(t, result) ==
  ready' = [u \in Tab |-> IF ready[u].window = t /\ ready[u].result = "none"
                          THEN [ready[u] EXCEPT !.result = result] ELSE ready[u]]

\* NotifyComposeBodyReady, which only the window that is bound listens for.
BodyReady(t) ==
  /\ window[t].at = "init" /\ \E u \in Tab : ready[u].window = t
  /\ window' = [window EXCEPT ![t].at = "built"]
  /\ Resolve(t, "ready")
  /\ UNCHANGED <<enabled, pending, latest, backgroundVars, taken, faults>>

-----------------------------------------------------------------------------
(* The background script's life and its listeners. *)

\* Any event starts it: a tab, an attachment, a setting.
Woken == IF bg = "asleep" THEN "starting" ELSE bg

Claim_Forgets(tabs) ==
  /\ task' = [t \in Tab |-> IF t \in tabs \ claimed THEN [at |-> "details"] ELSE task[t]]
  /\ UNCHANGED claimed

\* processComposeTab() up to its first await, for some tabs.
Claim(tabs) ==
  /\ claimed' = claimed \cup tabs
  /\ task' = [t \in Tab |-> IF t \in tabs \ claimed THEN [at |-> "details"] ELSE task[t]]

\* tabs.onCreated.
TabCreated(t) ==
  /\ Open(t) /\ ~window[t].announced
  /\ window' = [window EXCEPT ![t].announced = TRUE]
  /\ Claim({t})
  /\ bg' = Woken
  /\ UNCHANGED <<parentVars, sweeps, sleeps, taken, faults>>

Wake ==
  /\ bg = "asleep"
  /\ bg' = "starting"
  /\ UNCHANGED <<parentVars, window, claimed, task, sweeps, sleeps, taken, faults>>

\* The start: setEnabled(true), which is no news when the wrapper is there already.
SetEnabled ==
  /\ bg = "starting"
  /\ bg' = "scanning"
  /\ \/ enabled' = TRUE /\ Works
     \/ UNCHANGED enabled /\ Fault
  /\ UNCHANGED <<pending, latest, ready, window, claimed, task, sweeps, sleeps, taken>>

\* Then the compose tabs that are open, if they can be listed.
ScanTabs ==
  /\ bg = "scanning"
  /\ bg' = "up"
  /\ \/ Claim({t \in Tab : Open(t)}) /\ Works
     \/ UNCHANGED <<claimed, task>> /\ Fault
  /\ UNCHANGED <<parentVars, window, sweeps, sleeps, taken>>

\* A script that has had nothing under way for a while is stopped, and its sets are lost.  The
\* tabs that are open have long been announced by then.
Sleep ==
  /\ bg = "up" /\ faults + sleeps < MaxTrouble
  /\ \A t \in Tab : Open(t) => window[t].announced
  /\ \A t \in Tab : task[t] = Idle /\ sweeps[t] = 0
  /\ \A t \in Tab \ Unused : window[t].envelope # "added"
  /\ bg' = "asleep" /\ claimed' = {} /\ sleeps' = sleeps + 1
  /\ UNCHANGED <<parentVars, window, task, sweeps, taken, faults>>

\* The user, or Thunderbird, closes the window: "unload", and tabs.onRemoved.  What the window held
\* is forgotten.
Close(t) ==
  /\ Open(t)
  /\ window' = [window EXCEPT ![t] = Window("closed", @.type, @.of, @.redirected, None)]
  /\ Resolve(t, "closed")
  /\ claimed' = claimed \ {t}
  /\ bg' = Woken
  /\ UNCHANGED <<enabled, pending, latest, task, sweeps, sleeps, taken, faults>>

\* Thunderbird adds the envelope to a forward, at any time: onAttachmentAdded begins its removal.
EnvelopeArrives(t) ==
  /\ Open(t) /\ window[t].type = "forward" /\ window[t].of \in Encrypted
  /\ window[t].envelope = "none"
  /\ window' = [window EXCEPT ![t].envelope = "added"]
  /\ bg' = Woken
  /\ UNCHANGED <<parentVars, claimed, task, sweeps, sleeps, taken, faults>>

RemoveEnvelope(t) ==
  window' = [window EXCEPT ![t].envelope = IF @ \in {"added", "there"} THEN "gone" ELSE @]

\* A removal that comes too late, or fails otherwise, is only logged.
EnvelopeRemoved(t) ==
  \/ RemoveEnvelope(t) /\ Works
  \/ Open(t) /\ UNCHANGED window /\ Fault

RemoveAdded(t) ==
  /\ window[t].at # "none" /\ window[t].envelope = "added"
  /\ \/ window' = [window EXCEPT ![t].envelope = "gone"] /\ Works
     \/ window' = [window EXCEPT ![t].envelope = "there"] /\ Fault
  /\ UNCHANGED <<parentVars, backgroundVars, taken>>

\* The delayed sweeps, 3 s and 8 s after a rebuild.
Sweep(t) ==
  /\ sweeps[t] > 0
  /\ sweeps' = [sweeps EXCEPT ![t] = @ - 1]
  /\ EnvelopeRemoved(t)
  /\ UNCHANGED <<parentVars, bg, claimed, task, sleeps, taken>>

-----------------------------------------------------------------------------
(* The background script's work on a tab: processComposeTab. *)

Goes(t, to) == task' = [task EXCEPT ![t] = to]
Ends(t) == Goes(t, Idle)
TaskUnchanged == UNCHANGED <<enabled, latest, ready, bg, claimed, sleeps>>

ReadDetails_Once(t) ==
  /\ task[t].at = "details"
  /\ IF window[t].at \in {"init", "built"}
     THEN Goes(t, [at |-> IF window[t].type = "reply" THEN "marker" ELSE "checks"])
     ELSE Ends(t)
  /\ UNCHANGED <<pending, window, sweeps, taken, faults>> /\ TaskUnchanged

\* waitForComposeDetails(): a window that is closed, or takes more than 15 s, is given up.
ReadDetails(t) ==
  /\ task[t].at = "details"
  /\ \/ /\ window[t].at \in {"init", "built"}
        /\ Goes(t, [at |-> IF window[t].type = "reply" THEN "marker" ELSE "checks"])
        /\ Works
     \/ window[t].at = "closed" /\ Ends(t) /\ Works
     \/ window[t].at = "opening" /\ Ends(t) /\ Fault
  /\ UNCHANGED <<pending, window, sweeps, taken>> /\ TaskUnchanged

TakeMarker_Keeps(t) ==
  /\ task[t].at = "marker"
  /\ taken' = taken + (IF pending THEN 1 ELSE 0)
  /\ IF pending /\ window[t].of \in Eligible THEN Goes(t, [at |-> "clear"]) ELSE Ends(t)
  /\ UNCHANGED <<pending, window, sweeps, faults>> /\ TaskUnchanged

\* getAndClearRedirectPending(): whichever reply asks first has the mark, also when its message
\* then turns out not to be for us, or can not be examined.
TakeMarker(t) ==
  /\ task[t].at = "marker"
  /\ pending' = FALSE
  /\ taken' = taken + (IF pending THEN 1 ELSE 0)
  /\ \/ /\ IF pending /\ window[t].of \in Eligible THEN Goes(t, [at |-> "clear"]) ELSE Ends(t)
        /\ Works
     \/ pending /\ Ends(t) /\ Fault
  /\ UNCHANGED <<window, sweeps>> /\ TaskUnchanged

\* handleExperimentReplyTab(): the recipients are cleared; 15 tries that fail do not stop it.
ClearRecipients(t) ==
  /\ task[t].at = "clear"
  /\ IF ~Open(t) THEN Ends(t) /\ Works /\ UNCHANGED window
     ELSE /\ Goes(t, [at |-> "cleared"])
          /\ \/ window' = [window EXCEPT ![t].recipients = FALSE] /\ Works
             \/ UNCHANGED window /\ Fault
  /\ UNCHANGED <<pending, sweeps, taken>> /\ TaskUnchanged

\* waitForRedirectedComposeReady() takes the readiness that is current now, which is another one if
\* there was another redirect while the recipients were cleared.
AwaitReady(t) ==
  /\ task[t].at = "cleared"
  /\ Goes(t, [at |-> "waiting", waits |-> latest])
  /\ UNCHANGED <<pending, window, sweeps, taken, faults>> /\ TaskUnchanged

\* It is over when the readiness is known, or after 8 s.
ReadyOrTimeout(t) ==
  /\ task[t].at = "waiting"
  /\ IF ready[task[t].waits].result = "closed" \/ ~Open(t) THEN Ends(t)
     ELSE Goes(t, [at |-> "uri"])
  /\ UNCHANGED <<pending, window, sweeps, taken, faults>> /\ TaskUnchanged

\* getLastForwardUri(): of the last redirect, whoever it was for; and what is extracted from it.
Extract(t) ==
  /\ task[t].at = "uri"
  /\ \/ Goes(t, [at |-> "list", uri |-> window[latest].of, attempt |-> 1]) /\ Works
     \/ Ends(t) /\ Fault
  /\ UNCHANGED <<pending, window, sweeps, taken>> /\ TaskUnchanged

\* Up to three times: is the attachment there, and still there after a while?  If not, add it.
Attached(t) == window[t].files[task[t].uri] > 0

ListAttachments(t) ==
  /\ task[t].at \in {"list", "again"}
  /\ IF ~Open(t) \/ (Attached(t) /\ task[t].at = "again") THEN Ends(t)
     ELSE Goes(t, [task[t] EXCEPT !.at = IF Attached(t) THEN "again" ELSE "add"])
  /\ UNCHANGED <<pending, window, sweeps, taken, faults>> /\ TaskUnchanged

AddAttachment(t) ==
  /\ task[t].at = "add"
  /\ \/ /\ Open(t) /\ Works
        /\ window' = [window EXCEPT ![t].files[task[t].uri] = @ + 1]
        /\ IF task[t].attempt = 3 THEN Ends(t)
           ELSE Goes(t, [task[t] EXCEPT !.at = "list", !.attempt = @ + 1])
     \/ ~Open(t) /\ Works /\ UNCHANGED window /\ Ends(t)
     \/ Open(t) /\ Fault /\ UNCHANGED window /\ Ends(t)
  /\ UNCHANGED <<pending, sweeps, taken>> /\ TaskUnchanged

\* Thunderbird drops an attachment that was added; bound: only the first time.
DropAttachment(t) ==
  /\ task[t].at \in {"list", "again"} /\ task[t].attempt = 2
  /\ Open(t) /\ Attached(t)
  /\ window' = [window EXCEPT ![t].files[task[t].uri] = 0]
  /\ UNCHANGED <<parentVars, backgroundVars, taken, faults>>

\* A forward.  An embedded container that was not redirected is left as it is; others are rebuilt:
\* rebuildForwardCompose() removes what is there of the envelope.  With isSmimeEncrypted() or
\* canDecrypt() failing, the forward is left; with getRootContentType() failing, a container is
\* rebuilt too (one fault stands for that and a removal that fails with it).
Rebuild(t) ==
  /\ task[t].at = "checks"
  /\ \/ window[t].of \in Rebuildable /\ Goes(t, [at |-> "files"]) /\ EnvelopeRemoved(t)
     \/ /\ window[t].of \in Eligible /\ Goes(t, [at |-> "files"])
        /\ (RemoveEnvelope(t) \/ UNCHANGED window) /\ Fault
     \/ window[t].of \notin Rebuildable /\ Ends(t) /\ UNCHANGED window /\ Works
     \/ Ends(t) /\ UNCHANGED window /\ Fault
  /\ UNCHANGED <<pending, sweeps, taken>> /\ TaskUnchanged

AddFiles_NoSweeps(t) ==
  /\ task[t].at = "files"
  /\ \/ /\ window' = [window EXCEPT ![t].files[window[t].of] = IF Open(t) THEN @ + 1 ELSE @]
        /\ Works
     \/ UNCHANGED window /\ Fault
  /\ Ends(t)
  /\ UNCHANGED <<pending, sweeps, taken>> /\ TaskUnchanged

\* It sets the body and adds the decrypted attachments.  Whatever fails is skipped, and the sweeps
\* follow in any case.
AddFiles(t) ==
  /\ task[t].at = "files"
  /\ \/ /\ window' = [window EXCEPT ![t].files[window[t].of] = IF Open(t) THEN @ + 1 ELSE @]
        /\ Works
     \/ UNCHANGED window /\ Fault
  /\ sweeps' = [sweeps EXCEPT ![t] = 2]
  /\ Ends(t)
  /\ UNCHANGED <<pending, taken>> /\ TaskUnchanged

TaskStep(t) ==
  \/ ReadDetails(t)
  \/ TakeMarker(t)
  \/ ClearRecipients(t)
  \/ AwaitReady(t)
  \/ ReadyOrTimeout(t)
  \/ Extract(t)
  \/ ListAttachments(t)
  \/ AddAttachment(t)
  \/ Rebuild(t)
  \/ AddFiles(t)

Background == SetEnabled \/ ScanTabs

SystemStep ==
  \/ Background
  \/ \E t \in Tab :
       \/ InitWindow(t)
       \/ TabCreated(t)
       \/ TaskStep(t)
       \/ RemoveAdded(t)
       \/ Sweep(t)

ForwardNext ==
  \/ \E m \in Message, t \in Tab : Redirect(m, t) \/ PlainForward(m, t) \/ Reply(m, t)
  \/ Wake \/ Sleep
  \/ \E t \in Tab :
       \/ BodyReady(t)
       \/ Close(t)
       \/ EnvelopeArrives(t)
       \/ DropAttachment(t)
  \/ SystemStep

\* Windows get initialized and are announced, timers fire, promises settle and the script runs on:
\* it does not stop while any of this is left to do.  Nothing is assumed of the user.
ForwardSpec == ForwardInit /\ [][ForwardNext]_forwardVars /\ WF_forwardVars(SystemStep)

-----------------------------------------------------------------------------
(* What the add-on promises. *)

\* Replies whose recipients the add-on has removed.
Cleared == {t \in Tab \ Unused : window[t].type = "reply" /\ ~window[t].recipients}

\* Each redirect is good for at most one reply tab, whoever takes its mark and however often the
\* background script starts again; no more replies lose their recipients than marks were taken
\* (getAndClearRedirectPending; the state that is shared across background contexts).
OneTabPerRedirect ==
  /\ taken + (IF pending THEN 1 ELSE 0) <= Cardinality(Redirected)
  /\ Cardinality(Cleared) <= taken

\* Neither the meeting of tabs.onCreated and the startup scan nor the attempts to make an
\* attachment stay give a window the same attachment twice.  A forward is given it again, at
\* most once after each stop of the script: the next start does not know the tab (see NeverTwice).
\* The mark that a reply has taken is gone by then, so a reply gets none twice in any case.
AttachedOnce ==
  \A t \in Tab \ Unused : \A m \in Message :
    window[t].files[m] <= IF window[t].type = "forward" THEN 1 + sleeps ELSE 1

\* The envelope does not stay in a forward that is rebuilt when it arrives before the last sweep, even
\* if one removal of it fails (onAttachmentAdded, the sweeps at 3 s and 8 s).
EnvelopeGoes ==
  \A t \in Tab :
    /\ Open(t) /\ window[t].envelope \in {"added", "there"}
    /\ task[t].at = "files" \/ sweeps[t] > 0
    ~> (Open(t) => window[t].envelope = "gone")

\* A forward that is redirected while no other reply is open, and left alone, has no recipients
\* and its own message's attachments in the end, also when the script has to be started for it or
\* Thunderbird drops what was added.
Alone(t) ==
  /\ latest = t /\ Open(t) /\ ready[t].window \in {None, t} /\ faults = 0
  /\ \A u \in Tab \ (Unused \cup {t}) :
       window[u].type = "reply" => ~Open(u) /\ task[u] = Idle
Complete(t) ==
  /\ ~window[t].recipients
  /\ window[t].files = [m \in Message |-> IF m = window[t].of THEN 1 ELSE 0]
ForwardCompletes ==
  \A t \in Tab :
    (Alone(t) /\ pending /\ window[t].of \in Eligible)
      ~> (Alone(t) => Complete(t) /\ task[t] = Idle)

\* README.md of the add-on, of a background page that Thunderbird suspends and recreates: startup
\* scanning and tabs.onCreated "cannot process the same compose tab twice".  A forward that is
\* still open when the page comes back is rebuilt once more, and has its attachments twice.
NeverTwice == \A t \in Tab \ Unused : \A m \in Message : window[t].files[m] <= 1

\* What the comment in processComposeTab says of the mark: a reply that the user opened is left as
\* it is.
ManualUntouched == \A t \in Tab \ (Unused \cup Redirected) : window[t].type = "reply" => window[t].recipients
=============================================================================
