# Verification of osclientcerts in TLA+

osclientcerts is a PKCS #11 module (a shared library that NSS loads into Thunderbird) that shows
the certificates and keys of the operating system to NSS, together with two Thunderbird add-ons
that work around what NSS and Thunderbird do with them. This directory holds TLA+ modules that
model the parts of it that keep state, the TLC configurations that check them on small instances,
and proofs for the TLA+ proof system.

Paths below are relative to the repository.

## 1. The system

### 1.1 Components

| Component | Source | State it keeps | Operations |
|---|---|---|---|
| Manager | `src/manager.rs` (`Manager`) | open sessions; pending searches; pending sign, decrypt and encrypt operations with the parts accumulated so far; the object table; the identifiers already seen per class; two handle counters; the time of the last scan | open/close/inspect sessions, search in three phases, attributes, start/measure/update/finish an operation, scan the backend |
| Proxy and manager thread | `src/manager.rs` (`ManagerProxy`), `src/lib.rs` (`MANAGER_PROXY`, `C_Initialize`, `C_Finalize`, the guard macros) | a mutex around an optional proxy; two channels; a thread per initialization | initialize, finalize, send a call and wait for its result, stop |
| PKCS #11 functions | `src/lib.rs` | none of their own (the client's buffers) | validate arguments, translate to Manager calls, copy output |
| Mechanisms | `src/mechanism.rs` | none | parse `CK_MECHANISM` parameters |
| Windows backend | `src/backend_windows.rs` | none between calls (the certificate stores are the system's) | list certificates, keys and trust records; sign, decrypt, encrypt |
| macOS, stub, regression backends | `src/backend_macos.rs`, `src/backend_other.rs` | none | the same interface |
| cert9.db cleanup thread | `src/cert9_cleanup.rs` | whether it was started | every 5 s: delete rows of NSS's database that duplicate a listed certificate |
| Cert cleanup add-on | `tools/thunderbird-cert-cleanup` | per window: hooked, intercepting; a preference it forces for a while | clean up before a send and at shutdown, rebuild the certificate verifier when a compose window opens |
| Forward-decrypt add-on | `tools/thunderbird-forward-decrypt` | sets of tabs seen, closed, opened by itself; three single slots in the privileged part (URI, pending mark, readiness) | turn the forward of an encrypted message into a reply, clean the reply, re-attach its files, sweep envelopes |

### 1.2 How they interact

    client threads --C_ functions--> lib.rs --mutex--> ManagerProxy --channel--> manager thread
                                                            ^                       | Manager
                                                            +------channel----------+   |
    cleanup thread (cert9_cleanup) ---------------- list_objects() <-------------------+
                                                            |
                                            the operating system's certificate stores

The proxy exists because the operating system's APIs may keep state per thread: only the manager
thread is to call them. A C_ function holds the mutex for as long as its Manager call takes, but
the functions with output make *two* Manager calls and let go of the mutex in between. Manager
scans the backend when it is made, when a session is opened (at most every 3 s) and when a search
finds nothing (at most every 250 ms).

### 1.3 What is hard in it

* threads of the application in any order, in particular between the two halves of an output call;
* a manager thread that panics before, during or after a call, and the module after that;
* finalizing and initializing again while other threads call;
* a certificate store that changes at any time under a table whose handles NSS caches;
* two throttles that share one timestamp;
* refusals in the middle of a multipart operation;
* foreign handles that have to be given back on every path, and calls of Windows that fail midway;
* a database that NSS writes while another thread deletes from it;
* in the add-ons: state kept in single variables across awaits, windows that open in any order, a
  background script that Thunderbird stops and starts.

`PROJECT.json` lists every hazard at its line, with the properties that cover it, or why none does.

### 1.4 What makes each component correct

* Manager: an object has one handle and keeps it; whatever is pending stays what it was, and stays
  usable, until it is finished or its session is closed; a refused call changes nothing; a search
  does not miss what the store has had for long enough.
* Proxy: it "should be identical to using the real Manager": calls take effect one at a time, at one
  moment between invocation and return, on one Manager; nothing is left of it after finalizing; and
  every call returns.
* Functions with output: nothing longer than the buffer is written, a too small buffer costs the
  client nothing, the output covers exactly the parts that were accepted.
* Listing: every listed leaf's chain is there up to the trusted root, each CA once, trust only for
  roots of the system that permit e-mail; the walk ends.
* cert9.db cleanup: one thread; only duplicates of listed certificates are deleted; a failure does
  not keep later rows or passes from being cleaned.
* Cert cleanup add-on: one send per click; the preference is what it was when nothing is running.
* Forward-decrypt add-on: exactly the redirected windows are cleaned, with the attachments of the
  message they were made from.

## 2. Modules

| Module | What it is | Lines of the code |
|---|---|---|
| `Manager` | the Manager: one action per method, the environment (time, store), and its properties | `manager.rs` |
| `TokenCalls` | sessions, searches and attributes as NSS calls them, on top of `Manager`, with one client that polls | `lib.rs`, the attributes and `matches` of `backend_windows.rs` |
| `CryptoCall` | the twelve operation functions, several threads, on top of `Manager` | `lib.rs` |
| `KeyOperation` | one operation from the mechanism to the calls of Windows | `mechanism.rs`, keys in `backend_windows.rs`, the Init functions in `lib.rs` |
| `WindowsListing` | one scan of the certificate stores: certificates with keys, issuers, trust records | `list_objects`, `list_root_trust_objects` |
| `SerialManager` | abstract: one Manager that serves one call at a time, and may break | |
| `ManagerProxy` | the threads, mutex, slot and channels; implements `SerialManager` | `manager.rs`, `lib.rs` |
| `Cert9Cleanup` | the cleanup thread beside NSS and the application | `cert9_cleanup.rs` |
| `CertCleanupAddon` | verifier rebuilds, intercepted sends, the shutdown pass | `thunderbird-cert-cleanup` |
| `ForwardDecrypt` | the two halves of the forward-decrypt add-on and the compose windows | `thunderbird-forward-decrypt` |
| `...Proofs` | theorems about the module of that name; `WindowsBackendProofs`: about `WindowsListing` and `KeyOperation` | |
| `MC...` | instances for TLC | |

How they fit together:

    TokenCalls    CryptoCall               the C_ functions (EXTENDS Manager)
         \           /    \
          \         /      \  lengths, errors
           Manager          KeyOperation   mechanisms and the backend's key calls
              | Listings
        WindowsListing                     what a scan returns      <-- also used by Cert9Cleanup

    ManagerProxy ==refines==> SerialManager: why a Manager call may be one step above

`CryptoCall` and `TokenCalls` EXTEND `Manager` and make its actions the steps of the C_ functions. They
take each Manager call as one step; that this is what a caller sees is what `ManagerProxy` shows
against `SerialManager`. `ManagerProxy` in turn takes the Manager as a function `Effect` from a state and
a call to a state and a result, so that it holds for any Manager. `Manager` takes the listings of
its scans from the constant `Listings`, with repetitions and in any composition; `WindowsListing` says
which these are. A definition with an underscore in its name (`Hop_Unbounded`, say) is a variant
of the definition before or after it with a mistake in it; `PROJECT.json` says which property catches it.

### 2.1 Manager

The maps of the code are functions with a changing domain (`Put`, `Drop`, `IsMap`). `signs`,
`decrypts` and `encrypts` are treated alike by the code and are one variable, `ops`, by kind. An
object is its class and its identifier, which is what the code compares; the store is a sequence of
objects, with repetitions, because the code sees them in that order. `age` is the time since
`last_scan_time` in ticks and stops at the larger throttle, after which nothing can tell. Since
Manager::new() scans unconditionally, `Init` has the table of its first scan.

The vector a search returns handles from is ascending, because it is collected from a BTreeMap, and
`split_off` takes from its end: a set and `LastHandles` say the same. Search templates are pairs of
"all attributes are supported" and the set of matching objects. `result` has only what the
properties tell apart. The backend's verdict on a call is nondeterministic.

`start_sign`, `start_decrypt`, `start_encrypt` and `start_search` do not look at the session they are
given, and neither does the model: a client may start something on a session that is closed, or
that will only be opened later. All properties are checked with clients that do. Such an
operation is not ended by a close of the session (the close fails), which no documentation of the
repository rules out.

Arms of the code that are not modelled because nothing leads to them: "search trying to return
too many handles" (`split_off` returns at most `max_objects`). The `InvalidKey` arms after a
successful start *are* modelled, and shown never to be taken (`OperationsResolve`).

### 2.2 ManagerProxy

Each C_Initialize makes an *incarnation*: a proxy, two channels, a thread. A client goes
`wants` (blocked on the mutex), `locked`, `awaiting` (in `recv`), `joining` (in C_Finalize), `done`. The
steps of a thread are `Begin` (Manager::new()), `Take` (`recv`), `Serve` (the match and `send`), `Exit`.

* The arms for a poisoned mutex are not modelled: nothing panics while it is held that is not
  already the end of the process (a panic does not leave an `extern "C"` function), and the Manager
  panics on its own thread.
* The error arms of the manager thread's `recv` and `send` are not modelled: a proxy is dropped only
  by C_Finalize, after its thread has answered or is gone.
* `Panic` is a panic of the Manager or the backend; the channels are dropped with the thread. After
  one, calls fail with an error until the client finalizes (which fails, but empties the slot) and
  initializes again. `SerialManager` says exactly that with `Break`.

The refinement mapping takes as the current Manager the one in the slot or, while C_Finalize is
stopping it, the one that was taken out; a request takes effect in `Serve`, when the reply is put
into the channel, or, when there is no thread to serve it, where the caller finds that out.

### 2.3 CryptoCall

A call with output is two steps, `CheckRoom` (the length query and the comparison, under the guard)
and `WriteOutput` (the call that makes the output, and the copying). Between them `call[c]` has what
the function keeps on its stack. The length of an output is the modulus length of the key; for a
decryption that is an upper bound. `parts` and `promised` are history variables: what was accepted
since the Init call, and what the last CKR_BUFFER_TOO_SMALL of a thread said. Of the other return
codes only CKR_BUFFER_TOO_SMALL is told apart: a backend may fail with any code (its own statuses,
CKR_FUNCTION_FAILED, CKR_KEY_HANDLE_INVALID, ...), so a client can not see from a code whether the
Manager or the backend refused it. `RetrySucceeds` therefore speaks of the Manager's verdict, `result`.
Time passes and the store changes between the halves of a call, and another thread's
C_OpenSession scans it there; what `OutputFits` rests on is that such a scan leaves handles alone.

Arguments that fail validation return before anything is touched and are not modelled; nor are
finalizing and re-initializing, which end all operations.

### 2.4 TokenCalls

`Contents` gives the objects the attributes that `get_attribute` returns. A template is a set of
attribute types, each with a value and the form it is written in, since `matches` takes a boolean as a
CK_ULONG too and a serial number as DER too (`Forms`), and compares fewer attributes of a trust record
than can be read (`Comparable`). `TemplateOf` turns it into what `Manager` needs to know of it.
`found` and `expected` are history: the handles a search has returned, and those whose attributes read as
the template says when it began.

C_GetAttributeValue is one step: it makes one Manager call. A client makes two of *them*, the first
for the lengths, anything in between: `query` is what it remembers.

### 2.5 WindowsListing

An opened store is a snapshot, and a scan opens "My" twice, so the stores may change in between
(`mine`, `collection`). Certificates stand for their DER bytes; what the code parses out of them is a
constant each (`Named`, `Usable`, `SelfSigned`, `Purposes`). `Candidates` gives the certificates that
could be a certificate's issuer; `IssuerOf` picks one of those the collection has, the same each time. `Hop`
is one round of the loop in `list_root_trust_objects`. `OpenStores` lets any of the stores be left out of
the collection, as CertAddStoreToCollection's result is ignored.

The specification the scan is compared with is `Above`: the certificates on a path from a leaf of at
most MAX_CHAIN_DEPTH issuers, none of them self-signed but the last. It has no order, no set of issuers met
before and no list, which is what the code's shortcuts are about.

### 2.6 KeyOperation

`Parse` is `parse_rsa_cipher_mechanism` and the check of C_SignInit, in the order of the code's
conditions; a hash is its name, whether as CKM_, CKG_ or a CNG identifier, and a request is a record of
the shapes that the code tells apart. `BackendStep` are the steps of sign_internal, decrypt_internal
and encrypt_internal, in the order each has them; at each, Windows may fail with any status. `held`
is what the call's values own, to be dropped when it returns; `open` is what Windows counts. `Handed` are
the kinds of handles CryptAcquireCertificatePrivateKey gives out, the caller's own or a cached one.

A decryption's length query may answer with anything from the plaintext's length to the key's.

### 2.7 Cert9Cleanup

A pass is `StartPass` (sleep, `find_profile_dir`), `ListLiveCerts`, `OpenCert9Db` and a `Delete` for each
certificate, in any order. Others add rows, change the stores and profiles.ini meanwhile. `Thread`
has two names, so that a second thread could be born if the code let it. A row is its
certificate, since the DELETE compares nothing but the class and the value. The list of live
certificates is complete, lacks the issuers (their stores do not open) or is empty ("My" does not open).

### 2.8 CertCleanupAddon

JavaScript runs on one thread, so an action is what runs between two awaits. `Rebuilding` are the
windows whose `reinitCertVerifier()` is at its await, each with the `original` it has read; when the
import is announced, every observer is called and the code after each await runs before any
other event, so `AnnounceImport` is one step for all of them. An import that fails is one
that is never announced: `AnnounceImport` is not fair. `TimeOut` may come at any time
during the wait, as an import may be slow.

A window's `cleanup` is its doCleanup(), from the click to the send: opening the database and the
SELECT, the DELETE with the closing of the database, and `ProceedWithSend`, which in a window without
GenericSendMessage() (not `Sendable`) clears the flag and sends nothing. While it is not idle,
`__certCleanupInterceptingSend` is set. Every database call may fail. `stale` is history: the rows the
cleanup is expected to delete and that are still there; an error empties it. `fin` is the same for
doCleanupFin() at shutdown. Certificates stand for their DER encoding, and `AddressOf` for the
address in a row. `heldClick` and `interrupted` are history variables too. `heldClick` is what became
of the click that a window's cleanup holds back: waiting, sent, dropped for want of
GenericSendMessage(), or lost when the application ended (`Exit`). The last two are the exceptions that
`ClicksSend` names; the code does nothing against either.

Not in the model: a compose window that is closed while its cleanup runs, the user changing the
preference while Thunderbird runs, and the time between the opening of a window and its
load event. The manual `cleanup()` of the API is a doCleanup() without a send.

### 2.9 ForwardDecrypt

The privileged part keeps its state as long as Thunderbird runs: `enabled`, `pending` (redirectPending),
`latest` (the tab of the last redirect, which stands for lastForwardUri and for the current
redirectComposeReady) and `ready` (each redirect's promise: the window it was bound to, and the result).
The background script's is lost when it is stopped: `claimed` (processedTabIds), `task` (where each
processComposeTab() is) and `sweeps`. `Window` makes a compose window with what the add-on reads and
writes of it: its type, its message, recipients, envelope, and how often each message's files were added.

An action is what runs between two awaits; an await after which nothing shared is read is joined to the
step before. The readiness that a redirected reply waits for is read by a step of its own
(`AwaitReady`), since another redirect may replace it while the recipients are cleared. A message is four booleans: whether its raw MIME is an embedded container (the privileged
part's test), whether its root content type says so (the background's test), whether it is encrypted,
and whether it can be decrypted. `Fault` is a call that fails or a wait that takes too long, at any place
that has one, the listing of the open tabs at startup included (`ScanTabs`); where getRootContentType() fails, a
forwarded container is rebuilt like any other message (`Rebuild`). `Sleep` is Thunderbird stopping the
script when nothing is under way and the open tabs have been announced to it.

The text of headers, subjects and bodies is left out, and so is the extraction of the decrypted files
from Thunderbird's MIME tree: it either has a result or fails (`Extract`, `AddFiles`).

## 3. Runs

| Run | Result | Distinct states | What it shows |
|---|---|---|---|
| `manager` | passes | 388 458 | the Manager's invariants and action properties |
| `token_calls` | passes | 136 528 | searches in batches, two-step reads and a polling client, while the store changes |
| `crypto_call` | passes | 869 120 | output calls of threads on sessions of their own, with scans of a changed store between their halves |
| `windows_backend` | passes | 40 533 | scans of shared, cross-signed and cyclic chains in stores that change; every shape of mechanism, every failing call of Windows |
| `manager_proxy` | passes | 522 302 | the threads implement one serial Manager; no thread left behind; calls return |
| `cert9_cleanup` | passes | 244 416 | one loop beside NSS and changing stores: only duplicates go, and they all do |
| `cert_cleanup` | passes | 471 272 | overlapping rebuilds, failing cleanups, quits: preference restored, clicks send |
| `forward_decrypt` | passes | 431 481 | two windows, the script's restarts, one fault: each redirect served once, and served |
| `cert_cleanup_pref` | violated | | the preference stays forced after a timeout |
| `cert_cleanup_send` | violated | | a second click sends before the cleanup is done |
| `forward_manual` | violated | | a reply of the user's own loses its recipients |
| `forward_twice` | violated | | a forward that is open while the script is stopped and started again gets its attachments twice |

### 3.1 Properties

| Run | Invariants | Steps and liveness |
|---|---|---|
| `manager` | `TypeOK`, `OneHandlePerObject`, `OperationsResolve`, `SearchesResolve`, `BuffersBounded` | `HandlesStable`, `SessionHandlesFresh`, `PendingStable`, `CloseEndsPending` |
| `token_calls` | `SearchEnumerates` | `AttributesStay`, `MissIsFresh`, `ListedIsFound` |
| `crypto_call` | `OutputFits` | `FinalCoversParts`, `RetrySucceeds` |
| `windows_backend` | `LeavesPaired`, `EachOnce`, `OnlyFromChains`, `ListsAll`; `HandlesReturned`, `CngDoesAsAsked`, `AcceptedIsUsable`, `LengthKept` | `ScanReturns` |
| `manager_proxy` | `NoStrayMessages`, `FinalizedMeansGone` | `LooksSerial` (the refinement), `CallsReturn` |
| `cert9_cleanup` | `OneLoop` | `OthersStay`, `StaleRowsGo` |
| `cert_cleanup` | `PrefRestored`, `CleanedForSend`, `ShutdownCleansOthers` | `ClicksSend` |
| `forward_decrypt` | `OneTabPerRedirect`, `AttachedOnce` | `EnvelopeGoes`, `ForwardCompletes` |

Each has, in the modules, a comment that says what it is about, and in `PROJECT.json` a mutant of the
code that breaks it. The type invariants of the other modules are part of the inductive invariants
that are proved.

### 3.2 Bounds, and why they are enough

* `manager`: two sessions (open, closed and never opened handles occur together), two pending
  searches or operations (`MaxLoad`), one payload unit and a limit of one unit (an update at the limit,
  and one over it), two store contents: a leaf alone, and a small internal CA whose certificate is
  listed twice, once as one of the user's own and once as the issuer of the leaf. The throttles are
  1 and 2 ticks, so that a scan can be allowed by one and not by the other. Handles are
  interchangeable beyond that: the code compares them only for equality and order.
* `token_calls`: throttles of 2 and 3 ticks, so that a rescan by others can fall between two polls;
  two sessions, one of them the poller's; templates of one and two attributes, one of them with an attribute
  that can be read but is not supported in a search; a boolean as a CK_ULONG and a serial number as DER;
  a read of two attributes with a buffer that is enough for the one, and for the other not with every object.
* `crypto_call`: two threads, a session each; a store that has a key with a short output alone, or behind
  a certificate with a long one, so that a table numbered anew would exchange them; buffers for the short and for
  both; two units of payload in any order. Every C_OpenSession scans (both throttles are 0): the throttles are the
  matter of `manager` and `token_calls`.
* `windows_backend`, keys: an RSA and an EC key, so that each kind of key meets each mechanism; of three hashes CNG
  knows two; labels that are absent, short and one longer than `MaxLabel`; every combination of the fields.
* `windows_backend`, listing: a leaf under a chain that is longer than `MaxDepth` (3), a second leaf that joins
  it further up, a cross-signing certificate that closes a circle, a certificate with a key the module
  can not read, and five contents of the stores, so that "My" and the issuers change within a scan. A scan
  and a key operation share no state, so the run goes through the one or through the other
  (`MCWindowsBackend`) and not through all pairs of their states.
* `manager_proxy`: two clients and three incarnations, so that a finalize and two further
  initializes happen beside a pending call; the Manager is a counter modulo 3, so that a call that
  was lost, doubled or given to another caller shows in a reply. More clients only wait on the mutex.
* `cert9_cleanup`: an own certificate, an issuer and a stranger's; two profiles, so that a pass may work on
  the one while profiles.ini already names the other; one failing call and two changes by others, which
  may all fall into one pass.
* `cert_cleanup`: two windows, so that rebuilds and cleanups overlap, and names of closed windows
  are used again; two imports under way (`MaxImports`), so that one outlives its rebuild; two
  certificates with one address, both on the token, so that a cleanup has several rows to delete and the
  shutdown pass something left after a failure; one of the windows can not send.
* `forward_decrypt`: two windows, which is what the single variables can confuse; a message that is
  redirected and one that is rebuilt; one fault or stop of the script (`MaxTrouble`). Thunderbird drops an added
  attachment once. When all windows are closed and nothing is left to do, the model stops: deadlock
  is not checked there.

### 3.3 Fairness

* `manager`, `crypto_call`: none.
* `token_calls`: time passes, and the polling client goes on polling. Nothing is assumed of the
  other sessions.
* `windows_backend`: a scan goes on: the calls of Windows return. The stores may change for ever.
* `manager_proxy`: weak fairness of every client's and every thread's next step: threads of the
  operating system that can run do. Invocations and panics are not fair. The mutex is not assumed
  to be fair (std's is not), so a client is only promised to get out once it got in
  (`CallsReturn`). Weak fairness of `Serve` says that backend calls return; one that waits for a dialog
  holds the mutex as long as the dialog is open, and that is not something the code can change.
* `cert9_cleanup`: each thread's next step: the loop has no exit, the sleep ends, SQLite's busy timeout ends.
* `cert_cleanup`: weak fairness of every cleanup's next step: database calls return, well or badly.
  Nothing is assumed of imports, timers, or the user.
* `forward_decrypt`: weak fairness of `SystemStep` as a whole: as long as there are promises to settle,
  timers to fire or windows to initialize, one of them does. Each of these is done a bounded number of
  times for each window, so none is passed over for ever. The script is only stopped when nothing is under way:
  Thunderbird keeps an event page for 30 s after the last event or API call, and the add-on's timers are
  shorter. Nothing is assumed of the user, nor of NotifyComposeBodyReady.

## 4. Findings

Places where the code does something else than a comment of the repository says, each shown by a run:

1. The comment on the verifier rebuild (`tools/thunderbird-cert-cleanup/experiments/certCleanup/implementation.js:383`):
   it sets the preference to true, "then restores whatever value it started with". After the 8 s timeout, or
   a quit during the wait, it does not. (`cert_cleanup_pref`)
2. `tools/thunderbird-cert-cleanup/background.js:12`: "Cleanup always runs before this window's only send
   attempt". A second click during the cleanup is passed on to Thunderbird's own handler, which
   sends; the first click sends as well when its cleanup is done. (`cert_cleanup_send`)
3. `tools/thunderbird-forward-decrypt/background.js:830`, on the mark that tells a redirected reply from a
   manual one. The first reply to ask takes it; when that is one the user has opened on an encrypted message,
   its recipients are cleared, and the redirected one stays a plain reply. (`forward_manual`)
4. `tools/thunderbird-forward-decrypt/README.md:107`, on a background page that Thunderbird suspends and
   recreates: "Startup scanning and `tabs.onCreated` cannot process the same compose tab twice." The set that
   tells the processed tabs (`background.js:40`) is lost with the page, and the startup scan (`background.js:980`)
   rebuilds a forward that is still open a second time, and adds its attachments again. Within one life of the page the
   claim holds, which is `AttachedOnce`. (`forward_twice`)

Observations made while modelling, without a run of their own:

* `manager.rs:616`: "there should be a corresponding identical id in the `cert_ids` set, and vice-versa".
  Issuers are certificates without a key, so the two sets differ. `manager.rs:627`: "no more than once
  every 3 seconds"; a search that misses scans again after 250 ms.
* `README.md:116`: CKR_BUFFER_TOO_SMALL "reports the required size and leaves the operation active". Not when
  it is a backend's error, which comes after the operation was taken out of the table.
* `lib.rs:1336`: the length is determined before the operation is consumed, but in between the mutex is free. Two
  threads that share a session can replace the operation there; the properties of output calls
  are therefore stated for threads on sessions of their own.
* C_SignInit looks at no more than the length of PSS parameters: the MGF and the salt's relation to the
  hash are not compared, unknown mechanisms sign without padding information, and an EC key ignores the
  mechanism. `sign_internal` acquires the key before `SignParams::new` may refuse.
* The cleanup thread and the manager thread may enumerate the stores at the same time.
* In the forward-decrypt add-on: a window that opens between a redirect and its window can be bound as
  the redirected one; the attachments added to a redirected reply are those of the *last* redirect's
  message (`background.js:724`); a redirected window that is closed before its marker is asked for leaves the
  mark for the next reply; a redirected message that the background's own test does not take for a
  container stays a reply with recipients; when getRootContentType() fails, a forwarded container that was not
  redirected is rebuilt although it should be left as it is.
* In the cert cleanup add-on, a click that is held back when Thunderbird quits is lost: the shutdown blocker waits
  for the shutdown pass, not for the cleanups under way.

## 5. Proofs

Theorems hold for every value of the constants that satisfies the named ASSUME of the module (types
and non-emptiness; `ManagerAssumption`, `ProxyAssumption`, `ListingAssumption`, `KeyAssumption`, `CleanupAssumption`, ...).
`CryptoCallProofs` has one more, `OwnSessionsOnly`, as a hypothesis of two theorems. Every module has an
inductive invariant, a lemma that each step keeps it with one step per action, and theorems that
derive the properties.

**`ManagerProofs`** (`InvariantHolds`, `TypeCorrect`, `OneHandle`, `OperationsKeepTheirKey`, `SearchHandlesKnown`,
`AccumulationBounded`, `HandlesKeepTheirObject`, `SessionHandlesNeverReused`, `PendingWorkKept`, `CloseEndsAll`,
`KeysHaveCertificates`).
The object table only ever grows, and only at handles not below `nextHandle`: that is
`HandleNumbering`, which says that the fresh positions of a listing are numbered without gaps
and without repetition from `nextHandle` on. It rests on cardinalities of the sets of earlier fresh
positions. So a handle never changes its object, and what a pending operation or search refers to
stays there (`OperationsResolve`, `SearchesResolve` are preserved by every scan). For
`OneHandlePerObject` the identifier sets are needed: they have exactly the identifiers in the table,
so that a fresh object is not in the table. The invariant on its own is not inductive without
typing, without the domain of `objects` being below `nextHandle`, and without session handles being below
`nextSession`. With that bound, `SessionHandlesFresh` says in two clauses that no session handle is handed out
twice: a new one is the counter's, which has passed it afterwards, and the counter never goes back. For
`PendingStable` each of the calls says which entries it leaves alone; only the single-part and final calls,
C_FindObjectsFinal and the two closes take one out. `ScanTakesAll` says that after a scan every listed object has a handle: the first position
that has it is fresh unless its identifier was known, and then the table had it already. With it
`KeysHaveCertificates` carries what holds of every listing over to the table: if no listing has a key
without its certificate, neither has the table, whatever came and went between the scans. That the
listings of the Windows backend are such is `ListingsArePaired` in `WindowsBackendProofs`.

**`ManagerProxyProofs`** (`ProxyInvariant`, `RepliesMatch`, `FinalizedIsGone`,
`ProxyImplementsSerial`, `HolderReturns`). `PInv` says who holds the mutex, that incarnations not made yet have neither
thread nor messages, that a thread alive is in the slot or is being stopped by the one client that holds the mutex,
and that a channel has a message only for the client that waits. With it every step maps to a step of
`SerialManager` or to a stutter, for any number of clients and any Manager. The mapping's
`Current` is the difficult part: a finalizing client has emptied the slot, but the Manager is not gone until
its thread has answered.

**`CryptoCallProofs`** (`CryptoImplementsManager`, `FinalsCoverParts`, `OutputAlwaysFits`, `RetriesSucceed`).
`CryptoSpec` implements `Manager`'s `Spec`, so that `ManagerProofs` applies to it; with shared sessions, too. The
invariant `SharedInv` relates the history `parts` to the Manager's buffer. `OInv`, under `OwnSessionsOnly`, adds that
between a call's two steps its operation is still there with the length that was checked, and that a
promise made is kept. Its frame lemma `StepLeavesOthers` says that a step under one session changes no
operation of another.

**`WindowsBackendProofs`**, about `WindowsListing` (`ScanInvariant`, `ListingTypes`, `KeysComeWithCertificates`, `IssuersOnce`,
`TrustOnlyFromChains`, `NothingIsMissed`, `ListingsArePaired`, `ScanEnds`). `LInv` has the shape of the list under construction: pairs at the front, then entries
whose certificates are in `processed`, each class once. `WalkOK` says that `current` is `hops` issuers above the leaf, with a
path as witness, which `HopExtends` lengthens. That nothing is missed needs more (`CompleteInv`): once the walk is
past a certificate it reached, what lies within reach above it has been processed or still lies ahead of
`current`. A path from a leaf is compared with the walk hop by hop, which works because a certificate has
one issuer in a collection, so that paths do not fork; there is no induction over paths.
About `KeyOperation` (`KeyInvariant`, `NoHandleLeaks`, `ParametersKept`, `AcceptedMechanismsWork`, `OutputFitsReports`):
`KInv` has, for each point a call can be at, what it owns and what has been established of the request.

**`TokenCallsProofs`** (`TokenImplementsManager`, `SearchesEnumerate`, `AttributesAgree`, `MissesAreFresh`).
`TokenSpec` implements `Manager`'s `Spec`, so that `ManagerProofs` applies to it too. `TInv` adds that every object
has its attributes (they come from listings, `ScanKeepsContents`), that what a client remembers of a length query
is what the object has, which `HandlesKeepTheirObject`'s step lemma keeps, and that what a search
has returned and what is still to come are disjoint and together what its template meant. `TemplateMeans` is where
`matches` and `get_attribute` are compared. `MissesAreFresh` rests on `ScanTakesAll`.

**`Cert9CleanupProofs`** (`CleanupInvariant`, `AtMostOneLoop`, `OnlyLiveRowsDeleted`, `PassesGetThrough`) and
**`CertCleanupProofs`** (`AddonInvariant`, `RebuildsEnd`, `PreferenceRestored`, `SendFindsNoDuplicate`,
`ShutdownIsThorough`, `SendFollowsClick`), for any number of windows and certificates. `AInv` needs `PrefKept`: while
windows rebuild, the preference is true, and it was true for the user exactly if all of them found it so; the
import's announcement, which ends all of them in one step, therefore leaves what the user chose. `RebuildsEnd` says
that a rebuild that waits has an import under way (`ImportUnderWay`); it is a step of the argument and no property
of a run.

**`ForwardDecryptProofs`** (`ForwardInvariant`, `MarksGoOnce`, `NothingTwice`, `TasksEnd`), for any number of windows, failures
and stops of the script. `FInv` counts: a mark is added with each redirected window and given to one
reply, and a reply whose recipients are gone, or are about to be cleared, has had one (`CountsOK`, on cardinalities).
For the attachments, `FilesOK` says of a forward that what is in it, and what its task is still going to add, are
at most one for each time the script has claimed the tab: once for each start of the script, since `claimed` is only
forgotten when the script is stopped, and then no task is under way. Of a reply it says that nothing is there
twice, for which a task must have found the attachment missing (`TaskOK`), with nothing between that look and
the adding that could have added it. The invariant is not inductive without the kinds of tasks: those that
took a mark belong to replies, those that rebuild to forwards; and without `MarksOK`, by which a task that has
taken a mark finds a redirect whose message it can read.

**Why things end.** Liveness under fairness is out of the proof system's reach. What is proved for most of the
liveness properties is everything but the fairness: that what has to happen next can always happen, that a measure gets
smaller with it, and that no other step undoes this. Each of these theorems has an invariant and an
action property, for any values of the constants, where the model checker's answer is for one instance.

* `ScanEnds` (for `ScanReturns`): a scan that is under way can go on, and has never more than `ScanLength` rounds of its loops
  left, which the length of "My" and `MaxDepth` alone determine; each round leaves fewer, and changes of the stores
  leave as many.
* `HolderReturns` (for `CallsReturn`): the client that holds the mutex, or the manager thread it waits for, can
  take a step; at most seven such steps lead to its return, and no other step adds to them, whatever
  has panicked.
* `PassesGetThrough` (for `StaleRowsGo`): a pass of the cleanup thread always has a step, each step advances its stage
  even when what it calls fails, and a pass that is not disturbed stays on track until the rows are gone.
* `SendFollowsClick` (for `ClicksSend`): a click that is held back is on its way, with a number of steps left that each of
  them makes smaller and no other handler makes larger; the last one sends, or drops the click of a window that
  can not send, and nothing but the end of the application loses it.
* `TasksEnd` (for `ForwardCompletes`): the work on a compose tab is at most fifteen steps from its end, finds what its next
  step reads, is changed by its own steps alone, and is not begun a second time while it goes on, since its tab stays claimed
  (`ClaimedWhileBusy`) as long as the window is open.

Only model-checked: the liveness properties themselves (`ListedIsFound`, `ScanReturns`, `CallsReturn`,
`StaleRowsGo`, `ClicksSend`, `EnvelopeGoes`, `ForwardCompletes`). For `ListedIsFound` there is no measure of this kind:
it rests on `MissesAreFresh` and on time passing. `EnvelopeGoes` and the result of `ForwardCompletes` hold
within the number of failures the run allows.

## 6. Not modelled

* The information functions of `lib.rs` and those that only return CKR_FUNCTION_NOT_SUPPORTED: constants.
* The macOS backend, which has the same interface in one call per operation on reference-counted objects,
  and the stub and regression backends, which are doubles for tests. What `Manager` and `CryptoCall` assume of
  a backend (any listing, any verdict) covers them.
* `util.rs` and the encoding in the backends: DER of ECDSA signatures, of public keys and DigestInfo; pure
  functions over bytes, with unit tests of their own.
* In the forward-decrypt add-on: the walk over Thunderbird's MIME tree that extracts the decrypted files,
  and all text. `handleEmbeddedForward` is called from nowhere.
* Arguments that fail validation before anything is read (null pointers, wrong slots), and the
  poisoned-mutex arms, for the reason given in 2.2.
* Two hazards in `PROJECT.json` have no property, as the repository makes no promise on them: work started
  under a session handle that is not open (`manager.rs:881`), which the models allow and every property
  survives, and a redirected reply that gets another redirect's attachments (`background.js:724`).
* Build configuration, scripts, diagnostics and options pages.

## 7. What could be added

1. An abstract output call of one step that `CryptoCall` implements when sessions are not shared.
2. The macOS backend as a second instance of the steps in `KeyOperation`.
