------------------------- MODULE ForwardDecryptProofs -------------------------
(***************************************************************************)
(* The forward-decrypt add-on, for any number of compose windows, any      *)
(* messages, and any number of failures and stops of the script.           *)
(***************************************************************************)
EXTENDS ForwardDecrypt, FiniteSetTheorems, TLAPS

-----------------------------------------------------------------------------
(* The inductive invariant. *)

ComposeWindow ==
  [at : {"opening", "init", "built", "closed"}, type : {"reply", "forward"}, of : Message,
   redirected : BOOLEAN, listens : Tab \cup {None}, announced : BOOLEAN, recipients : BOOLEAN,
   envelope : {"none", "added", "there", "gone"}, files : [Message -> Nat]]

Task ==
  {Idle} \cup [at : {"details", "marker", "checks", "clear", "cleared", "uri", "files"}]
    \cup [at : {"waiting"}, waits : Tab]
    \cup [at : {"list", "again", "add"}, uri : Message, attempt : 1 .. 3]

ParentTypeOK ==
  /\ enabled \in BOOLEAN /\ pending \in BOOLEAN /\ latest \in Tab \cup {None}
  /\ ready \in [Tab -> [window : Tab \cup {None},
                        result : {"none", "ready", "closed", "unavailable"}]]
WindowsOK == window \in [Tab -> ComposeWindow \cup {NoWindow}]
BackgroundTypeOK ==
  /\ bg \in {"starting", "scanning", "up", "asleep"} /\ claimed \subseteq Tab
  /\ task \in [Tab -> Task] /\ sweeps \in [Tab -> 0 .. 2]
  /\ taken \in Nat /\ faults \in Nat /\ sleeps \in Nat

ForwardTypeOK == ParentTypeOK /\ WindowsOK /\ BackgroundTypeOK

\* The places of a task that only a reply, or only a forward, gets to.
ForReply == {"marker", "clear", "cleared", "waiting", "uri", "list", "again", "add"}
ForForward == {"checks", "files"}
AfterMark == {"clear", "cleared", "waiting", "uri", "list", "again", "add"}

\* A task belongs to a window of its kind, and adds an attachment only when it is not there.
TaskOK(t) ==
  /\ task[t] # Idle \/ sweeps[t] > 0 => t \notin Unused
  /\ task[t].at \in ForReply => window[t].type = "reply"
  /\ task[t].at \in ForForward => window[t].type = "forward"
  /\ task[t].at = "add" => window[t].files[task[t].uri] = 0
TasksOK == \A t \in Tab : TaskOK(t)

\* The current URI and readiness are those of a redirect, once there can be a mark to take.
MarksOK ==
  /\ latest # None => latest \in Redirected
  /\ pending \/ (\E t \in Tab : task[t].at \in AfterMark) => latest # None

\* A tab that has taken a mark is about to clear its recipients, or has.
Clearing == {t \in Tab : task[t].at = "clear"}
CountsOK == OneTabPerRedirect /\ Cardinality(Cleared \cup Clearing) <= taken

\* A forward's files are added once for each time the script has claimed it, and it is claimed once
\* for each start of the script.
Adding(t) == task[t].at \in {"details", "checks", "files"}
FilesOK(t) ==
  \A m \in Message :
    IF window[t].type = "reply" THEN window[t].files[m] <= 1
    ELSE IF ~Open(t) THEN window[t].files[m] = 0
    ELSE window[t].files[m] + (IF Adding(t) THEN 1 ELSE 0)
           <= sleeps + (IF t \in claimed THEN 1 ELSE 0)
AllFilesOK == \A t \in Tab \ Unused : FilesOK(t)

FInv == ForwardTypeOK /\ TasksOK /\ MarksOK /\ CountsOK /\ AllFilesOK
-----------------------------------------------------------------------------
(* Windows. *)

LEMMA TabsFinite == IsFiniteSet(Tab)
BY FS_Interval, ForwardAssumption DEF Tab

LEMMA NoWindowIsNone ==
  /\ NoWindow \notin ComposeWindow
  /\ WindowsOK => \A t \in Tab \ Unused : window[t] \in ComposeWindow
<1>1. NoWindow.at = "none"
  BY DEF NoWindow
<1>2. \A w \in ComposeWindow : w.at # "none"
  BY DEF ComposeWindow
<1>3. QED
  BY <1>1, <1>2 DEF WindowsOK, Unused

LEMMA OpenIsUsed == ASSUME NEW t \in Tab, Open(t) PROVE t \notin Unused
BY DEF Open, Unused, NoWindow

\* A window stays what it is.
Stays(t) ==
  IF t \in Unused THEN window'[t] = window[t]
  ELSE /\ window'[t] \in ComposeWindow
       /\ window'[t].type = window[t].type /\ window'[t].of = window[t].of
       /\ window'[t].redirected = window[t].redirected

\* And nothing that the add-on puts into it or takes out of it changes.
Untouched(t) ==
  /\ Stays(t)
  /\ t \notin Unused => /\ window'[t].recipients = window[t].recipients
                        /\ window'[t].files = window[t].files
                        /\ Open(t)' = Open(t)

LEMMA StayingWindows ==
  ASSUME WindowsOK, window' \in [Tab -> ComposeWindow \cup {NoWindow}], \A t \in Tab : Stays(t)
  PROVE  Unused' = Unused /\ Redirected' = Redirected
<1>1. \A t \in Tab : t \in Unused' <=> t \in Unused
  BY NoWindowIsNone DEF Unused, Stays
<1>2. QED
  BY <1>1 DEF Unused, Redirected, Stays

\* A step that changes at most one window.
LEMMA OneWindowStays ==
  ASSUME WindowsOK, NEW t \in Tab, NEW w, window' = [window EXCEPT ![t] = w], Stays(t)
  PROVE  WindowsOK' /\ \A u \in Tab : Stays(u)
<1>1. ASSUME NEW u \in Tab, u # t PROVE Stays(u)
  <2>1. window'[u] = window[u]
    BY <1>1 DEF WindowsOK
  <2>2. QED
    BY <2>1, NoWindowIsNone DEF Stays
<1>2. \A u \in Tab : Stays(u)
  BY <1>1
<1>3. WindowsOK'
  BY <1>2 DEF WindowsOK, Stays, Unused
<1>4. QED
  BY <1>2, <1>3

LEMMA OneWindowUntouched ==
  ASSUME WindowsOK, NEW t \in Tab, NEW w, window' = [window EXCEPT ![t] = w], Untouched(t)
  PROVE  WindowsOK' /\ \A u \in Tab : Untouched(u)
<1>1. ASSUME NEW u \in Tab, u # t PROVE Untouched(u)
  <2>1. window'[u] = window[u]
    BY <1>1 DEF WindowsOK
  <2>2. QED
    BY <2>1, NoWindowIsNone DEF Untouched, Stays, Open
<1>2. QED
  BY <1>1, OneWindowStays DEF Untouched

LEMMA WindowUnchanged ==
  ASSUME WindowsOK, UNCHANGED window
  PROVE  WindowsOK' /\ \A u \in Tab : Untouched(u)
BY NoWindowIsNone DEF WindowsOK, Untouched, Stays, Open

\* Steps of a window that are none of the add-on's doing, and the handling of the envelope.
LEMMA EnvelopeLeavesRest ==
  ASSUME WindowsOK, NEW t \in Tab \ Unused, NEW e \in {"none", "added", "there", "gone"},
         window' = [window EXCEPT ![t].envelope = e]
  PROVE  WindowsOK' /\ \A u \in Tab : Untouched(u)
<1> DEFINE w == [window[t] EXCEPT !.envelope = e]
<1>1. window[t] \in ComposeWindow
  BY NoWindowIsNone
<1>2. window' = [window EXCEPT ![t] = w] /\ window'[t] = w
  BY DEF WindowsOK
<1>3. /\ w \in ComposeWindow
      /\ w.at = window[t].at /\ w.type = window[t].type /\ w.of = window[t].of
      /\ w.redirected = window[t].redirected /\ w.recipients = window[t].recipients
      /\ w.files = window[t].files
  BY <1>1 DEF ComposeWindow
<1> HIDE DEF w
<1>4. Untouched(t)
  BY <1>2, <1>3 DEF Untouched, Stays, Open
<1>5. QED
  BY <1>2, <1>4, OneWindowUntouched

Alike(v, w) ==
  /\ v.type = w.type /\ v.of = w.of /\ v.redirected = w.redirected
  /\ v.recipients = w.recipients /\ v.files = w.files

LEMMA LifeLeavesRest ==
  ASSUME WindowsOK, NEW t \in Tab, InitWindow(t) \/ BodyReady(t) \/ TabCreated(t)
  PROVE  WindowsOK' /\ \A u \in Tab : Untouched(u)
<1>1. Open(t) /\ t \notin Unused
  <2>1. Open(t)
    BY DEF InitWindow, BodyReady, TabCreated, Open
  <2>2. QED
    BY <2>1, OpenIsUsed
<1>2. window[t] \in ComposeWindow
  BY <1>1, NoWindowIsNone
<1>3. PICK w : /\ window' = [window EXCEPT ![t] = w] /\ w \in ComposeWindow
               /\ w.at \in {"opening", "init", "built"} /\ Alike(w, window[t])
  <2>1. CASE InitWindow(t)
    <3> DEFINE w == [window[t] EXCEPT !.at = "init", !.listens = None]
    <3>1. window' = [window EXCEPT ![t] = w]
      BY <2>1 DEF InitWindow, WindowsOK
    <3>2. w \in ComposeWindow /\ w.at = "init" /\ Alike(w, window[t])
      BY <1>2 DEF ComposeWindow, Alike
    <3> HIDE DEF w
    <3>3. QED
      BY <3>1, <3>2
  <2>2. CASE BodyReady(t)
    <3> DEFINE w == [window[t] EXCEPT !.at = "built"]
    <3>1. window' = [window EXCEPT ![t] = w]
      BY <2>2 DEF BodyReady, WindowsOK
    <3>2. w \in ComposeWindow /\ w.at = "built" /\ Alike(w, window[t])
      BY <1>2 DEF ComposeWindow, Alike
    <3> HIDE DEF w
    <3>3. QED
      BY <3>1, <3>2
  <2>3. CASE TabCreated(t)
    <3> DEFINE w == [window[t] EXCEPT !.announced = TRUE]
    <3>1. window' = [window EXCEPT ![t] = w]
      BY <2>3 DEF TabCreated, WindowsOK
    <3>2. w \in ComposeWindow /\ w.at = window[t].at /\ Alike(w, window[t])
      BY <1>2 DEF ComposeWindow, Alike
    <3> HIDE DEF w
    <3>3. QED
      BY <1>1, <3>1, <3>2 DEF Open
  <2>4. QED
    BY <2>1, <2>2, <2>3
<1>4. window'[t] = w
  BY <1>3 DEF WindowsOK
<1>5. Untouched(t)
  BY <1>1, <1>3, <1>4 DEF Untouched, Stays, Open, Alike
<1>6. QED
  BY <1>3, <1>5, OneWindowUntouched
-----------------------------------------------------------------------------
(* Steps that leave alone what the add-on has put into the windows. *)

\* The next place of a task, as long as no mark is taken and no recipients are cleared.
Moves(t) ==
  /\ task'[t].at \in ForReply => window[t].type = "reply"
  /\ task'[t].at \in ForForward => window[t].type = "forward"
  /\ task'[t].at \in AfterMark => task[t].at \in AfterMark
  /\ task'[t].at = "clear" => task[t].at = "clear"
  /\ task'[t].at = "add" => window[t].files[task'[t].uri] = 0
  /\ Adding(t)' /\ window[t].type # "reply" => Adding(t)

GoesOn(t) ==
  /\ t \in claimed => t \in claimed'
  /\ task'[t] # Idle \/ sweeps'[t] > 0 => t \notin Unused
  /\ \/ task'[t] = task[t]
     \/ t \in claimed' \ claimed /\ task'[t] = [at |-> "details"]
     \/ Moves(t)

LEMMA MovesKeepTask ==
  ASSUME NEW t \in Tab, TaskOK(t), Untouched(t), GoesOn(t), Unused' = Unused
  PROVE  TaskOK(t)'
<1>1. CASE t \in Unused
  <2>1. task'[t] = Idle /\ ~(sweeps'[t] > 0)
    BY <1>1 DEF GoesOn
  <2>2. QED
    BY <2>1 DEF TaskOK, Idle, ForReply, ForForward
<1>2. CASE t \notin Unused
  <2>1. window'[t].type = window[t].type /\ window'[t].files = window[t].files
    BY <1>2 DEF Untouched, Stays
  <2>2. CASE task'[t] = task[t]
    BY <1>2, <2>1, <2>2 DEF TaskOK
  <2>3. CASE task'[t] = [at |-> "details"]
    BY <1>2, <2>1, <2>3 DEF TaskOK, ForReply, ForForward
  <2>4. CASE Moves(t)
    BY <1>2, <2>1, <2>4 DEF TaskOK, Moves
  <2>5. QED
    BY <2>2, <2>3, <2>4 DEF GoesOn
<1>3. QED
  BY <1>1, <1>2

LEMMA MovesKeepFiles ==
  ASSUME NEW t \in Tab \ Unused, window[t] \in ComposeWindow, sleeps \in Nat,
         FilesOK(t), Untouched(t), GoesOn(t), UNCHANGED sleeps
  PROVE  FilesOK(t)'
<1>1. /\ window'[t].type = window[t].type /\ window'[t].files = window[t].files
      /\ Open(t)' = Open(t)
  BY DEF Untouched, Stays
<1>2. \A m \in Message : window[t].files[m] \in Nat
  BY DEF ComposeWindow
<1>3. CASE window[t].type = "reply"
  BY <1>1, <1>3 DEF FilesOK
<1>4. CASE window[t].type # "reply" /\ ~Open(t)
  BY <1>1, <1>4 DEF FilesOK
<1>5. CASE window[t].type # "reply" /\ Open(t)
  <2> DEFINE adding == IF Adding(t) THEN 1 ELSE 0
             claims == IF t \in claimed THEN 1 ELSE 0
  <2>1. \A m \in Message : window[t].files[m] + adding <= sleeps + claims
    BY <1>5 DEF FilesOK
  <2>2. CASE t \in claimed' \ claimed
    <3>1. \A m \in Message : window[t].files[m] + 1 <= sleeps + 1
      BY <1>2, <2>1, <2>2
    <3>2. \A m \in Message : window[t].files[m] + (IF Adding(t)' THEN 1 ELSE 0) <= sleeps + 1
      BY <1>2, <3>1
    <3>3. QED
      BY <1>1, <1>5, <2>2, <3>2 DEF FilesOK
  <2>3. CASE ~(t \in claimed' \ claimed)
    <3>1. Adding(t)' => Adding(t)
      BY <1>5, <2>3 DEF GoesOn, Moves, Adding
    <3>2. t \in claimed' <=> t \in claimed
      BY <2>3 DEF GoesOn
    <3>3. \A m \in Message : window[t].files[m] + (IF Adding(t)' THEN 1 ELSE 0) <= sleeps + claims
      BY <1>2, <2>1, <3>1
    <3>4. QED
      BY <1>1, <1>5, <3>2, <3>3 DEF FilesOK
  <2>4. QED
    BY <2>2, <2>3
<1>6. QED
  BY <1>3, <1>4, <1>5

LEMMA MarksKept ==
  ASSUME MarksOK, Redirected \subseteq Redirected', UNCHANGED latest, pending' => pending,
         \A t \in Tab : task'[t].at \in AfterMark => task[t].at \in AfterMark \/ pending
  PROVE  MarksOK'
BY DEF MarksOK

LEMMA CountsKept ==
  ASSUME CountsOK, Redirected' = Redirected, UNCHANGED <<pending, taken>>, taken \in Nat,
         Cleared' \cup Clearing' \subseteq Cleared \cup Clearing
  PROVE  CountsOK'
<1> DEFINE S == Cleared \cup Clearing
           T == Cleared' \cup Clearing'
<1>1. IsFiniteSet(S)
  <2>1. S \subseteq Tab
    BY DEF Cleared, Clearing
  <2>2. QED
    BY <2>1, TabsFinite, FS_Subset
<1>2. Cardinality(S) \in Nat /\ Cardinality(T) \in Nat /\ Cardinality(T) <= Cardinality(S)
  <2>1. T \subseteq S
    OBVIOUS
  <2> HIDE DEF S, T
  <2>2. IsFiniteSet(T) /\ Cardinality(T) <= Cardinality(S)
    BY <1>1, <2>1, FS_Subset
  <2>3. QED
    BY <1>1, <2>2, FS_CardinalityType
<1>3. Cardinality(Cleared') \in Nat /\ Cardinality(Cleared') <= Cardinality(T)
  <2>1. Cleared' \subseteq T /\ T \subseteq S
    OBVIOUS
  <2> HIDE DEF S, T
  <2>2. IsFiniteSet(T)
    BY <1>1, <2>1, FS_Subset
  <2>3. IsFiniteSet(Cleared') /\ Cardinality(Cleared') <= Cardinality(T)
    BY <2>1, <2>2, FS_Subset
  <2>4. QED
    BY <2>3, FS_CardinalityType
<1>4. Cardinality(S) <= taken
  BY DEF CountsOK
<1>5. Cardinality(T) <= taken /\ Cardinality(Cleared') <= taken
  <2> HIDE DEF S, T
  <2>1. QED
    BY <1>2, <1>3, <1>4
<1>6. QED
  BY <1>5 DEF CountsOK, OneTabPerRedirect

LEMMA UntouchedKeepsFInv ==
  ASSUME FInv, ParentTypeOK', WindowsOK', BackgroundTypeOK',
         UNCHANGED <<pending, latest, taken, sleeps>>,
         \A t \in Tab : Untouched(t) /\ GoesOn(t)
  PROVE  FInv'
<1>1. Unused' = Unused /\ Redirected' = Redirected
  BY StayingWindows DEF FInv, ForwardTypeOK, WindowsOK, Untouched
<1>2. TasksOK'
  BY <1>1, MovesKeepTask DEF FInv, TasksOK
<1>3. \A t \in Tab \ Unused : window[t] \in ComposeWindow
  BY NoWindowIsNone DEF FInv, ForwardTypeOK
<1>4. AllFilesOK'
  BY <1>1, <1>3, MovesKeepFiles DEF FInv, ForwardTypeOK, BackgroundTypeOK, AllFilesOK
<1>5. \A t \in Tab : /\ task'[t].at \in AfterMark => task[t].at \in AfterMark
                     /\ task'[t].at = "clear" => task[t].at = "clear"
  BY DEF GoesOn, Moves, AfterMark
<1>6. MarksOK'
  BY <1>1, <1>5, MarksKept DEF FInv
<1>7. Cleared' = Cleared
  BY <1>1 DEF Cleared, Untouched, Stays
<1>8. CountsOK'
  <2>1. Clearing' \subseteq Clearing
    BY <1>5 DEF Clearing
  <2>2. QED
    BY <1>1, <1>7, <2>1, CountsKept DEF FInv, ForwardTypeOK, BackgroundTypeOK
<1>9. QED
  BY <1>2, <1>4, <1>6, <1>8 DEF FInv, ForwardTypeOK
-----------------------------------------------------------------------------
(* Types. *)

LEMMA ResolveTyped ==
  ASSUME ParentTypeOK, NEW t \in Tab, NEW result \in {"ready", "closed"}, Resolve(t, result)
  PROVE  ready' \in [Tab -> [window : Tab \cup {None},
                             result : {"none", "ready", "closed", "unavailable"}]]
<1> DEFINE R == [window : Tab \cup {None}, result : {"none", "ready", "closed", "unavailable"}]
<1>1. ASSUME NEW u \in Tab PROVE [ready[u] EXCEPT !.result = result] \in R /\ ready[u] \in R
  BY DEF ParentTypeOK
<1>2. QED
  BY <1>1 DEF Resolve

LEMMA ParentTyped == FInv /\ ForwardNext => ParentTypeOK'
<1> SUFFICES ASSUME FInv, ForwardNext PROVE ParentTypeOK'
  OBVIOUS
<1>1. ParentTypeOK
  BY DEF FInv, ForwardTypeOK
<1>2. CASE UNCHANGED parentVars
  BY <1>1, <1>2 DEF ParentTypeOK, parentVars
<1>3. ASSUME NEW t \in Tab, TaskStep(t) PROVE ParentTypeOK'
  <2>1. UNCHANGED <<enabled, latest, ready>> /\ pending' \in {pending, FALSE}
    BY <1>3 DEF TaskStep, ReadDetails, TakeMarker, ClearRecipients, AwaitReady, ReadyOrTimeout, Extract,
                ListAttachments, AddAttachment, Rebuild, AddFiles, TaskUnchanged
  <2>2. QED
    BY <1>1, <2>1 DEF ParentTypeOK
<1>4. ASSUME NEW m \in Message, NEW t \in Tab, Redirect(m, t) PROVE ParentTypeOK'
  BY <1>1, <1>4 DEF Redirect, ParentTypeOK
<1>5. ASSUME NEW t \in Tab, InitWindow(t) PROVE ParentTypeOK'
  <2>1. UNCHANGED <<enabled, pending, latest>>
    BY <1>5 DEF InitWindow
  <2> DEFINE R == [window : Tab \cup {None}, result : {"none", "ready", "closed", "unavailable"}]
             u == window[t].listens
  <2>2. CASE UNCHANGED ready
    BY <1>1, <2>1, <2>2 DEF ParentTypeOK
  <2>3. CASE ready' = [ready EXCEPT ![u].window = t]
    <3>1. ready \in [Tab -> R]
      BY <1>1 DEF ParentTypeOK
    <3> HIDE DEF u
    <3>2. ready' \in [Tab -> R]
      <4>1. \A x \in Tab : ready[x] \in R /\ [ready[x] EXCEPT !.window = t] \in R
        BY <3>1
      <4> HIDE DEF R
      <4>2. QED
        BY <2>3, <3>1, <4>1
    <3>3. QED
      BY <1>1, <2>1, <3>2 DEF ParentTypeOK
  <2>4. CASE ready' = [ready EXCEPT ![u] = [window |-> t, result |-> "unavailable"]]
    <3>1. ready \in [Tab -> R] /\ [window |-> t, result |-> "unavailable"] \in R
      BY <1>1 DEF ParentTypeOK
    <3>2. ready' \in [Tab -> R]
      <4> HIDE DEF R, u
      <4>1. QED
        BY <2>4, <3>1
    <3>3. QED
      BY <1>1, <2>1, <3>2 DEF ParentTypeOK
  <2>5. QED
    BY <1>5, <2>2, <2>3, <2>4 DEF InitWindow
<1>6. ASSUME NEW t \in Tab, BodyReady(t) \/ Close(t) PROVE ParentTypeOK'
  BY <1>1, <1>6, ResolveTyped DEF BodyReady, Close, ParentTypeOK
<1>7. CASE SetEnabled
  BY <1>1, <1>7 DEF SetEnabled, ParentTypeOK
<1>8. QED
  BY <1>2, <1>3, <1>4, <1>5, <1>6, <1>7
     DEF ForwardNext, SystemStep, Background, PlainForward, Reply, Wake, Sleep, EnvelopeArrives,
         DropAttachment, ScanTabs, TabCreated, RemoveAdded, Sweep

LEMMA PlacesTyped ==
  /\ Idle \in Task
  /\ \A at \in {"details", "marker", "checks", "clear", "cleared", "uri", "files"} : [at |-> at] \in Task
  /\ \A t \in Tab : [at |-> "waiting", waits |-> t] \in Task
BY DEF Task

LEMMA AttemptTyped ==
  ASSUME NEW m \in Message, NEW n \in 1 .. 3, NEW at \in {"list", "again", "add"}
  PROVE  [at |-> at, uri |-> m, attempt |-> n] \in Task
BY DEF Task

\* What is known of a task by its place.
LEMMA TaskAtPlace ==
  ASSUME NEW x \in Task
  PROVE  /\ x.at \in {"list", "again", "add"} =>
              /\ x.uri \in Message /\ x.attempt \in 1 .. 3
              /\ x = [at |-> x.at, uri |-> x.uri, attempt |-> x.attempt]
         /\ x.at = "waiting" => x.waits \in Tab
         /\ x.at = "idle" => x = Idle
<1>1. Idle.at = "idle"
  BY DEF Idle
<1>2. CASE x \in [at : {"list", "again", "add"}, uri : Message, attempt : 1 .. 3]
  BY <1>2
<1>3. CASE x \in [at : {"waiting"}, waits : Tab]
  BY <1>3
<1>4. CASE x \in [at : {"details", "marker", "checks", "clear", "cleared", "uri", "files"}]
  BY <1>4
<1>5. QED
  BY <1>1, <1>2, <1>3, <1>4 DEF Task
LEMMA FaultOrNot ==
  ASSUME BackgroundTypeOK, Fault \/ Works
  PROVE  faults' \in Nat
BY DEF BackgroundTypeOK, Fault, Works

LEMMA GoesTyped ==
  ASSUME BackgroundTypeOK, NEW t \in Tab, NEW to \in Task, Goes(t, to)
  PROVE  /\ task' \in [Tab -> Task] /\ task'[t] = to
         /\ \A u \in Tab \ {t} : task'[u] = task[u]
<1>1. task \in [Tab -> Task]
  BY DEF BackgroundTypeOK
<1>2. QED
  BY <1>1 DEF Goes

LEMMA ClaimTyped ==
  ASSUME BackgroundTypeOK, NEW tabs \in SUBSET Tab, Claim(tabs)
  PROVE  /\ claimed' \subseteq Tab /\ claimed \subseteq claimed' /\ task' \in [Tab -> Task]
         /\ \A u \in Tab : \/ task'[u] = task[u]
                           \/ /\ u \in claimed' \ claimed /\ u \in tabs
                              /\ task'[u] = [at |-> "details"]
<1>1. task \in [Tab -> Task] /\ claimed \subseteq Tab
  BY DEF BackgroundTypeOK
<1>2. [at |-> "details"] \in Task
  BY PlacesTyped
<1>3. QED
  BY <1>1, <1>2 DEF Claim

-----------------------------------------------------------------------------
(* The steps that change nothing of the add-on's in a window. *)

LEMMA NothingGoesOn ==
  ASSUME FInv, UNCHANGED <<claimed, task, sweeps>>
  PROVE  \A t \in Tab : GoesOn(t)
BY DEF FInv, TasksOK, TaskOK, GoesOn

LEMMA LifeSteps ==
  ASSUME FInv, ParentTypeOK',
         NEW t \in Tab, InitWindow(t) \/ BodyReady(t) \/ EnvelopeArrives(t) \/ RemoveAdded(t)
  PROVE  FInv'
<1>1. UNCHANGED <<pending, latest, taken, sleeps, claimed, task, sweeps>>
  BY DEF InitWindow, BodyReady, EnvelopeArrives, RemoveAdded, parentVars, backgroundVars
<1>2. BackgroundTypeOK'
  <2>1. faults' \in Nat
    BY FaultOrNot DEF InitWindow, BodyReady, EnvelopeArrives, RemoveAdded, FInv, ForwardTypeOK,
                      Works
  <2>2. bg' \in {"starting", "scanning", "up", "asleep"}
    BY DEF InitWindow, BodyReady, EnvelopeArrives, RemoveAdded, backgroundVars, Woken,
           FInv, ForwardTypeOK, BackgroundTypeOK
  <2>3. QED
    BY <1>1, <2>1, <2>2 DEF FInv, ForwardTypeOK, BackgroundTypeOK
<1>3. WindowsOK' /\ \A u \in Tab : Untouched(u)
  <2>1. CASE InitWindow(t) \/ BodyReady(t)
    BY <2>1, LifeLeavesRest DEF FInv, ForwardTypeOK
  <2>2. CASE EnvelopeArrives(t)
    <3>1. t \in Tab \ Unused
      BY <2>2, OpenIsUsed DEF EnvelopeArrives
    <3>2. QED
      BY <2>2, <3>1, EnvelopeLeavesRest DEF EnvelopeArrives, FInv, ForwardTypeOK
  <2>3. CASE RemoveAdded(t)
    <3>1. t \in Tab \ Unused
      BY <2>3 DEF RemoveAdded, Unused, NoWindow
    <3>2. QED
      BY <2>3, <3>1, EnvelopeLeavesRest DEF RemoveAdded, FInv, ForwardTypeOK
  <2>4. QED
    BY <2>1, <2>2, <2>3
<1>4. QED
  BY <1>1, <1>2, <1>3, NothingGoesOn, UntouchedKeepsFInv

LEMMA EnvelopeRemovedLeavesRest ==
  ASSUME FInv, NEW t \in Tab \ Unused, RemoveEnvelope(t) \/ UNCHANGED window, Fault \/ Works
  PROVE  WindowsOK' /\ faults' \in Nat /\ \A u \in Tab : Untouched(u)
<1>1. window[t] \in ComposeWindow /\ window \in [Tab -> ComposeWindow \cup {NoWindow}]
  BY NoWindowIsNone DEF FInv, ForwardTypeOK, WindowsOK
<1>2. faults' \in Nat
  BY FaultOrNot DEF FInv, ForwardTypeOK
<1>3. CASE UNCHANGED window
  BY <1>2, <1>3, WindowUnchanged DEF FInv, ForwardTypeOK
<1>4. CASE window' = [window EXCEPT ![t].envelope = IF @ \in {"added", "there"} THEN "gone" ELSE @]
  <2> DEFINE e == IF window[t].envelope \in {"added", "there"} THEN "gone" ELSE window[t].envelope
  <2>1. e \in {"none", "added", "there", "gone"}
    BY <1>1 DEF ComposeWindow
  <2>2. window' = [window EXCEPT ![t].envelope = e]
    BY <1>4
  <2> HIDE DEF e
  <2>3. QED
    BY <1>2, <2>1, <2>2, EnvelopeLeavesRest DEF FInv, ForwardTypeOK
<1>5. QED
  BY <1>3, <1>4 DEF RemoveEnvelope

LEMMA SweepStep ==
  ASSUME FInv, ParentTypeOK', NEW t \in Tab, Sweep(t)
  PROVE  FInv'
<1>1. t \in Tab \ Unused /\ EnvelopeRemoved(t)
  BY DEF Sweep, FInv, TasksOK, TaskOK
<1>2. WindowsOK' /\ faults' \in Nat /\ \A u \in Tab : Untouched(u)
  BY <1>1, EnvelopeRemovedLeavesRest DEF EnvelopeRemoved
<1>3. UNCHANGED <<pending, latest, taken, sleeps, bg, claimed, task>>
  BY DEF Sweep, parentVars
<1>4. sweeps \in [Tab -> 0 .. 2] /\ sweeps[t] > 0 /\ sweeps' = [sweeps EXCEPT ![t] = @ - 1]
  BY DEF Sweep, FInv, ForwardTypeOK, BackgroundTypeOK
<1>5. sweeps' \in [Tab -> 0 .. 2] /\ \A u \in Tab : sweeps'[u] > 0 => sweeps[u] > 0
  BY <1>4
<1>6. BackgroundTypeOK'
  BY <1>2, <1>3, <1>5 DEF FInv, ForwardTypeOK, BackgroundTypeOK
<1>7. \A u \in Tab : GoesOn(u)
  BY <1>3, <1>5 DEF FInv, TasksOK, TaskOK, GoesOn
<1>8. QED
  BY <1>2, <1>3, <1>6, <1>7, UntouchedKeepsFInv

LEMMA BackgroundSteps ==
  ASSUME FInv, ParentTypeOK', SetEnabled \/ Wake \/ UNCHANGED forwardVars
  PROVE  FInv'
<1>1. UNCHANGED <<pending, latest, window, taken, sleeps, claimed, task, sweeps>>
  BY DEF SetEnabled, Wake, forwardVars, parentVars, backgroundVars
<1>2. BackgroundTypeOK'
  <2>1. faults' \in Nat
    BY FaultOrNot DEF SetEnabled, Wake, forwardVars, FInv, ForwardTypeOK, Works
  <2>2. bg' \in {"starting", "scanning", "up", "asleep"}
    BY DEF SetEnabled, Wake, forwardVars, backgroundVars, FInv, ForwardTypeOK, BackgroundTypeOK
  <2>3. QED
    BY <1>1, <2>1, <2>2 DEF FInv, ForwardTypeOK, BackgroundTypeOK
<1>3. WindowsOK' /\ \A u \in Tab : Untouched(u)
  BY <1>1, WindowUnchanged DEF FInv, ForwardTypeOK
<1>4. QED
  BY <1>1, <1>2, <1>3, NothingGoesOn, UntouchedKeepsFInv

LEMMA ClaimSteps ==
  ASSUME FInv, ParentTypeOK', ScanTabs \/ \E t \in Tab : TabCreated(t)
  PROVE  FInv'
<1>1. UNCHANGED <<pending, latest, sweeps, sleeps, taken>> /\ (Fault \/ Works)
  BY DEF ScanTabs, TabCreated, parentVars, Works
<1>2. PICK tabs \in SUBSET Tab : (Claim(tabs) \/ UNCHANGED <<claimed, task>>) /\ tabs \cap Unused = {}
  <2>1. CASE ScanTabs
    BY <2>1, OpenIsUsed DEF ScanTabs
  <2>2. CASE \E t \in Tab : TabCreated(t)
    <3>1. PICK t \in Tab : TabCreated(t)
      BY <2>2
    <3>2. Claim({t}) /\ t \notin Unused
      BY <3>1, OpenIsUsed DEF TabCreated
    <3>3. QED
      BY <3>2
  <2>3. QED
    BY <2>1, <2>2
<1>3. /\ claimed' \subseteq Tab /\ claimed \subseteq claimed' /\ task' \in [Tab -> Task]
      /\ \A u \in Tab : \/ task'[u] = task[u]
                        \/ /\ u \in claimed' \ claimed /\ u \in tabs
                           /\ task'[u] = [at |-> "details"]
  BY <1>2, ClaimTyped DEF FInv, ForwardTypeOK, BackgroundTypeOK
<1>4. bg' \in {"starting", "scanning", "up", "asleep"}
  BY DEF ScanTabs, TabCreated, Woken, FInv, ForwardTypeOK, BackgroundTypeOK
<1>5. BackgroundTypeOK'
  BY <1>1, <1>3, <1>4, FaultOrNot DEF FInv, ForwardTypeOK, BackgroundTypeOK
<1>6. WindowsOK' /\ \A u \in Tab : Untouched(u)
  BY LifeLeavesRest, WindowUnchanged DEF ScanTabs, FInv, ForwardTypeOK
<1>7. \A u \in Tab : GoesOn(u)
  BY <1>1, <1>2, <1>3 DEF FInv, TasksOK, TaskOK, GoesOn
<1>8. QED
  BY <1>1, <1>5, <1>6, <1>7, UntouchedKeepsFInv

\* A task goes on without touching a window.
LEMMA TaskGoesOn ==
  ASSUME FInv, ParentTypeOK', NEW t \in Tab \ Unused, NEW to \in Task, Goes(t, to), TaskUnchanged,
         UNCHANGED <<pending, sweeps, taken>>, Fault \/ Works,
         WindowsOK', \A u \in Tab : Untouched(u),
         to = task'[t] => Moves(t)
  PROVE  FInv'
<1>1. /\ task' \in [Tab -> Task] /\ task'[t] = to
      /\ \A u \in Tab \ {t} : task'[u] = task[u]
  BY GoesTyped DEF FInv, ForwardTypeOK
<1>2. UNCHANGED <<latest, bg, claimed, sleeps>>
  BY DEF TaskUnchanged
<1>3. faults' \in Nat
  BY FaultOrNot DEF FInv, ForwardTypeOK
<1>4. BackgroundTypeOK'
  BY <1>1, <1>2, <1>3 DEF FInv, ForwardTypeOK, BackgroundTypeOK
<1>5. \A u \in Tab : GoesOn(u)
  BY <1>1, <1>2 DEF FInv, TasksOK, TaskOK, GoesOn
<1>6. QED
  BY <1>2, <1>4, <1>5, UntouchedKeepsFInv

LEMMA IdleMoves == ASSUME NEW t \in Tab, task'[t] = Idle PROVE Moves(t)
BY DEF Moves, Idle, ForReply, ForForward, AfterMark, Adding
LEMMA BusyIsUsed ==
  ASSUME FInv, NEW t \in Tab, task[t].at # "idle"
  PROVE  /\ t \in Tab \ Unused /\ task[t] \in Task /\ window[t] \in ComposeWindow
         /\ TaskOK(t) /\ BackgroundTypeOK
<1>1. task[t] # Idle
  BY DEF Idle
<1>2. t \in Tab \ Unused
  BY <1>1 DEF FInv, TasksOK, TaskOK
<1>3. QED
  BY <1>2, NoWindowIsNone DEF FInv, ForwardTypeOK, BackgroundTypeOK, TasksOK

LEMMA LookingSteps ==
  ASSUME FInv, ParentTypeOK', NEW t \in Tab,
         ReadDetails(t) \/ AwaitReady(t) \/ ReadyOrTimeout(t) \/ Extract(t) \/ ListAttachments(t)
  PROVE  FInv'
<1>1. /\ t \in Tab \ Unused /\ task[t] \in Task /\ window[t] \in ComposeWindow
      /\ TaskOK(t) /\ BackgroundTypeOK
  BY BusyIsUsed DEF ReadDetails, AwaitReady, ReadyOrTimeout, Extract, ListAttachments
<1>2. UNCHANGED <<pending, window, sweeps, taken>> /\ TaskUnchanged /\ (Fault \/ Works)
  BY DEF ReadDetails, AwaitReady, ReadyOrTimeout, Extract, ListAttachments, Works
<1>3. WindowsOK' /\ \A u \in Tab : Untouched(u)
  BY <1>2, WindowUnchanged DEF FInv, ForwardTypeOK
<1>4. CASE Ends(t)
  BY <1>1, <1>2, <1>3, <1>4, IdleMoves, PlacesTyped, TaskGoesOn DEF Ends
<1>5. ASSUME NEW to \in Task, Goes(t, to), task'[t] = to => Moves(t) PROVE FInv'
  BY <1>1, <1>2, <1>3, <1>5, TaskGoesOn
<1>6. CASE ReadDetails(t) /\ ~Ends(t)
  <2> DEFINE to == [at |-> IF window[t].type = "reply" THEN "marker" ELSE "checks"]
  <2>1. Goes(t, to) /\ task[t].at = "details"
    BY <1>6 DEF ReadDetails
  <2>2. to \in Task
    BY PlacesTyped
  <2>3. window[t].type \in {"reply", "forward"}
    BY <1>1 DEF ComposeWindow
  <2>4. task'[t] = to => Moves(t)
    BY <2>1, <2>3 DEF Moves, ForReply, ForForward, AfterMark, Adding
  <2>5. QED
    BY <1>5, <2>1, <2>2, <2>4
<1>7. CASE ReadyOrTimeout(t) /\ ~Ends(t)
  <2> DEFINE to == [at |-> "uri"]
  <2>1. Goes(t, to) /\ task[t].at = "waiting"
    BY <1>7 DEF ReadyOrTimeout
  <2>2. to \in Task
    BY PlacesTyped
  <2>3. task'[t] = to => Moves(t)
    BY <1>1, <2>1 DEF Moves, TaskOK, ForReply, ForForward, AfterMark, Adding
  <2>4. QED
    BY <1>5, <2>1, <2>2, <2>3
<1>8. CASE Extract(t) /\ ~Ends(t)
  <2> DEFINE to == [at |-> "list", uri |-> window[latest].of, attempt |-> 1]
  <2>1. Goes(t, to) /\ task[t].at = "uri"
    BY <1>8 DEF Extract
  <2>2. latest \in Tab \ Unused
    BY <2>1 DEF FInv, MarksOK, AfterMark, Redirected
  <2>3. window[latest].of \in Message
    <3>1. window[latest] \in ComposeWindow
      BY <2>2, NoWindowIsNone DEF FInv, ForwardTypeOK
    <3>2. QED
      BY <3>1 DEF ComposeWindow
  <2>4. to \in Task
    BY <2>3 DEF Task
  <2>5. task'[t] = to => Moves(t)
    BY <1>1, <2>1 DEF Moves, TaskOK, ForReply, ForForward, AfterMark, Adding
  <2>6. QED
    BY <1>5, <2>1, <2>4, <2>5
<1>9. CASE ListAttachments(t) /\ ~Ends(t)
  <2> DEFINE place == IF Attached(t) THEN "again" ELSE "add"
             to == [task[t] EXCEPT !.at = place]
  <2>1. Goes(t, to) /\ task[t].at \in {"list", "again"}
    BY <1>9 DEF ListAttachments
  <2>2. /\ task[t].uri \in Message /\ task[t].attempt \in 1 .. 3
        /\ task[t] = [at |-> task[t].at, uri |-> task[t].uri, attempt |-> task[t].attempt]
    BY <1>1, <2>1, TaskAtPlace
  <2>3. place \in {"again", "add"}
    OBVIOUS
  <2>4. to = [at |-> place, uri |-> task[t].uri, attempt |-> task[t].attempt]
    <3> HIDE DEF place
    <3>1. QED
      BY <2>2
  <2>5. to \in Task
    <3> HIDE DEF place, to
    <3>1. QED
      BY <2>2, <2>3, <2>4, AttemptTyped
  <2>6. place = "add" => window[t].files[task[t].uri] = 0
    <3>1. window[t].files[task[t].uri] \in Nat
      BY <1>1, <2>2 DEF ComposeWindow
    <3>2. QED
      BY <3>1 DEF Attached
  <2>7. task'[t] = to => Moves(t)
    <3> HIDE DEF place
    <3>1. to.at = place /\ to.uri = task[t].uri
      BY <2>4
    <3> HIDE DEF to
    <3>2. QED
      BY <1>1, <2>1, <2>3, <2>6, <3>1 DEF Moves, TaskOK, ForReply, ForForward, AfterMark, Adding
  <2>8. QED
    BY <1>5, <2>1, <2>5, <2>7
<1>10. CASE AwaitReady(t)
  <2> DEFINE to == [at |-> "waiting", waits |-> latest]
  <2>1. Goes(t, to) /\ task[t].at = "cleared"
    BY <1>10 DEF AwaitReady
  <2>2. to \in Task
    <3>1. latest \in Tab
      BY <2>1 DEF FInv, MarksOK, AfterMark, Redirected
    <3>2. QED
      BY <3>1, PlacesTyped
  <2>3. task'[t] = to => Moves(t)
    BY <1>1, <2>1 DEF Moves, TaskOK, ForReply, ForForward, AfterMark, Adding
  <2>4. QED
    BY <1>5, <2>1, <2>2, <2>3
<1>11. QED
  BY <1>4, <1>6, <1>7, <1>8, <1>9, <1>10

LEMMA RebuildStep ==
  ASSUME FInv, ParentTypeOK', NEW t \in Tab, Rebuild(t)
  PROVE  FInv'
<1>1. /\ t \in Tab \ Unused /\ task[t] \in Task /\ window[t] \in ComposeWindow
      /\ TaskOK(t) /\ BackgroundTypeOK
  BY BusyIsUsed DEF Rebuild
<1>2. UNCHANGED <<pending, sweeps, taken>> /\ TaskUnchanged /\ (Fault \/ Works)
  BY DEF Rebuild, EnvelopeRemoved
<1>3. WindowsOK' /\ \A u \in Tab : Untouched(u)
  <2>1. RemoveEnvelope(t) \/ UNCHANGED window
    BY DEF Rebuild, EnvelopeRemoved
  <2>2. QED
    BY <1>1, <1>2, <2>1, EnvelopeRemovedLeavesRest
<1>4. CASE Ends(t)
  BY <1>1, <1>2, <1>3, <1>4, IdleMoves, PlacesTyped, TaskGoesOn DEF Ends
<1>5. CASE Goes(t, [at |-> "files"])
  <2>1. [at |-> "files"] \in Task
    BY PlacesTyped
  <2>2. task[t].at = "checks"
    BY DEF Rebuild
  <2>3. task'[t] = [at |-> "files"] => Moves(t)
    BY <1>1, <2>2 DEF Moves, TaskOK, ForReply, ForForward, AfterMark, Adding
  <2>4. QED
    BY <1>1, <1>2, <1>3, <1>5, <2>1, <2>3, TaskGoesOn
<1>6. QED
  BY <1>4, <1>5 DEF Rebuild
-----------------------------------------------------------------------------
(* The steps that change what is in one window. *)

LEMMA OneTabStep ==
  ASSUME FInv, ParentTypeOK', BackgroundTypeOK', UNCHANGED <<pending, latest, taken, sleeps>>,
         NEW t \in Tab \ Unused, NEW w, window' = [window EXCEPT ![t] = w], Stays(t),
         \A u \in Tab \ {t} : /\ task'[u] = task[u] /\ sweeps'[u] = sweeps[u]
                              /\ u \in claimed' <=> u \in claimed,
         TaskOK(t)', FilesOK(t)', task'[t].at \in AfterMark => task[t].at \in AfterMark,
         t \in Cleared' \cup Clearing' => t \in Cleared \cup Clearing
  PROVE  FInv'
<1>1. /\ WindowsOK' /\ \A u \in Tab : Stays(u)
      /\ \A u \in Tab \ {t} : window'[u] = window[u]
  BY OneWindowStays DEF FInv, ForwardTypeOK, WindowsOK
<1>2. Unused' = Unused /\ Redirected' = Redirected
  BY <1>1, StayingWindows DEF FInv, ForwardTypeOK, WindowsOK
<1>3. TasksOK'
  <2>1. ASSUME NEW u \in Tab \ {t} PROVE TaskOK(u)'
    BY <1>1, <1>2 DEF FInv, TasksOK, TaskOK
  <2>2. QED
    BY <2>1 DEF TasksOK
<1>4. AllFilesOK'
  <2>1. ASSUME NEW u \in Tab \ Unused, u # t PROVE FilesOK(u)'
    BY <1>1, <2>1 DEF FInv, AllFilesOK, FilesOK, Open, Adding
  <2>2. QED
    BY <1>2, <2>1 DEF AllFilesOK
<1>5. MarksOK'
  <2>1. \A u \in Tab : task'[u].at \in AfterMark => task[u].at \in AfterMark
    OBVIOUS
  <2>2. QED
    BY <1>2, <2>1, MarksKept DEF FInv
<1>6. CountsOK'
  <2>1. Cleared' \cup Clearing' \subseteq Cleared \cup Clearing
    BY <1>1, <1>2 DEF Cleared, Clearing
  <2>2. QED
    BY <1>2, <2>1, CountsKept DEF FInv, ForwardTypeOK, BackgroundTypeOK
<1>7. QED
  BY <1>1, <1>3, <1>4, <1>5, <1>6 DEF FInv, ForwardTypeOK

LEMMA CloseStep ==
  ASSUME FInv, ParentTypeOK', NEW t \in Tab, Close(t)
  PROVE  FInv'
<1> DEFINE w == Window("closed", window[t].type, window[t].of, window[t].redirected, None)
<1>1. t \in Tab \ Unused /\ window[t] \in ComposeWindow
  BY OpenIsUsed, NoWindowIsNone DEF Close, FInv, ForwardTypeOK
<1>2. window' = [window EXCEPT ![t] = w] /\ window'[t] = w
  BY DEF Close, FInv, ForwardTypeOK, WindowsOK
<1>3. /\ w \in ComposeWindow /\ w.at = "closed" /\ w.type = window[t].type
      /\ w.of = window[t].of /\ w.redirected = window[t].redirected
      /\ w.recipients = (w.type = "reply")
      /\ w.files = [m \in Message |-> 0]
  BY <1>1 DEF Window, ComposeWindow
<1> HIDE DEF w
<1>4. Stays(t)
  BY <1>1, <1>2, <1>3 DEF Stays
<1>5. /\ UNCHANGED <<pending, latest, task, sweeps, sleeps, taken, faults>>
      /\ claimed' = claimed \ {t} /\ bg' = Woken
  BY DEF Close
<1>6. BackgroundTypeOK'
  BY <1>5 DEF FInv, ForwardTypeOK, BackgroundTypeOK, Woken
<1>7. t \notin Unused'
  BY <1>2, <1>3 DEF Unused, NoWindow
<1>8. TaskOK(t)'
  <2>1. task[t].at = "add" => task[t].uri \in Message
    BY TaskAtPlace DEF FInv, ForwardTypeOK, BackgroundTypeOK
  <2>2. QED
    BY <1>2, <1>3, <1>5, <1>7, <2>1 DEF FInv, TasksOK, TaskOK
<1>9. FilesOK(t)'
  BY <1>2, <1>3 DEF FilesOK, Open
<1>10. t \in Cleared' \cup Clearing' => t \in Cleared \cup Clearing
  BY <1>2, <1>3, <1>5 DEF Cleared, Clearing
<1>11. QED
  BY <1>1, <1>2, <1>4, <1>5, <1>6, <1>8, <1>9, <1>10, OneTabStep

\* A step of a task that also changes its window.
LEMMA TaskChangesWindow ==
  ASSUME FInv, ParentTypeOK', NEW t \in Tab \ Unused, NEW to \in Task, Goes(t, to), TaskUnchanged,
         UNCHANGED <<pending, taken>>, Fault \/ Works,
         sweeps' \in [Tab -> 0 .. 2], \A u \in Tab \ {t} : sweeps'[u] = sweeps[u],
         NEW w \in ComposeWindow, window' = [window EXCEPT ![t] = w],
         w.type = window[t].type, w.of = window[t].of, w.redirected = window[t].redirected,
         to.at \in {"idle", "cleared", "list"}, to # Idle => w.type = "reply",
         to.at # "idle" => task[t].at \in AfterMark,
         w.type = "reply" /\ ~w.recipients => t \in Cleared \cup Clearing,
         task'[t] = to /\ window'[t] = w => FilesOK(t)'
  PROVE  FInv'
<1>1. /\ task' \in [Tab -> Task] /\ task'[t] = to
      /\ \A u \in Tab \ {t} : task'[u] = task[u]
  BY GoesTyped DEF FInv, ForwardTypeOK
<1>2. UNCHANGED <<latest, bg, claimed, sleeps>>
  BY DEF TaskUnchanged
<1>3. faults' \in Nat
  BY FaultOrNot DEF FInv, ForwardTypeOK
<1>4. BackgroundTypeOK'
  BY <1>1, <1>2, <1>3 DEF FInv, ForwardTypeOK, BackgroundTypeOK
<1>5. window'[t] = w
  BY DEF FInv, ForwardTypeOK, WindowsOK
<1>6. t \notin Unused' /\ Stays(t)
  BY <1>5, NoWindowIsNone DEF Unused, Stays
<1>7. TaskOK(t)'
  <2>1. to = Idle => to.at = "idle"
    BY DEF Idle
  <2>2. to.at = "idle" => to = Idle
    BY TaskAtPlace
  <2>3. QED
    BY <1>1, <1>5, <1>6, <2>1, <2>2 DEF TaskOK, ForReply, ForForward
<1>8. FilesOK(t)'
  BY <1>1, <1>5
<1>9. t \in Cleared' \cup Clearing' => t \in Cleared \cup Clearing
  BY <1>1, <1>5 DEF Cleared, Clearing
<1>10. task'[t].at \in AfterMark => task[t].at \in AfterMark
  BY <1>1 DEF AfterMark
<1>11. QED
  BY <1>1, <1>2, <1>4, <1>6, <1>7, <1>8, <1>9, <1>10, OneTabStep
LEMMA ClearRecipientsStep ==
  ASSUME FInv, ParentTypeOK', NEW t \in Tab, ClearRecipients(t)
  PROVE  FInv'
<1>1. task[t].at = "clear"
  BY DEF ClearRecipients
<1>2. /\ t \in Tab \ Unused /\ task[t] \in Task /\ window[t] \in ComposeWindow
      /\ TaskOK(t) /\ BackgroundTypeOK
  BY <1>1, BusyIsUsed
<1>3. UNCHANGED <<pending, sweeps, taken>> /\ TaskUnchanged /\ (Fault \/ Works)
  BY DEF ClearRecipients
<1>4. CASE Ends(t) /\ UNCHANGED window
  <2>1. WindowsOK' /\ \A u \in Tab : Untouched(u)
    BY <1>4, WindowUnchanged DEF FInv, ForwardTypeOK
  <2>2. QED
    BY <1>2, <1>3, <1>4, <2>1, IdleMoves, PlacesTyped, TaskGoesOn DEF Ends
<1> DEFINE to == [at |-> "cleared"]
<1>5. to \in Task /\ to.at = "cleared"
  BY PlacesTyped
<1>6. CASE Goes(t, to)
  <2>1. PICK w \in ComposeWindow :
          /\ window' = [window EXCEPT ![t] = w]
          /\ w.type = window[t].type /\ w.of = window[t].of
          /\ w.redirected = window[t].redirected /\ w.files = window[t].files
    <3>1. CASE UNCHANGED window
      BY <1>2, <3>1 DEF FInv, ForwardTypeOK, WindowsOK
    <3>2. CASE window' = [window EXCEPT ![t].recipients = FALSE]
      <4> DEFINE w == [window[t] EXCEPT !.recipients = FALSE]
      <4>1. window' = [window EXCEPT ![t] = w]
        BY <3>2 DEF FInv, ForwardTypeOK, WindowsOK
      <4>2. /\ w \in ComposeWindow /\ w.type = window[t].type /\ w.of = window[t].of
            /\ w.redirected = window[t].redirected /\ w.files = window[t].files
        BY <1>2 DEF ComposeWindow
      <4> HIDE DEF w
      <4>3. QED
        BY <4>1, <4>2
    <3>3. QED
      BY <3>1, <3>2 DEF ClearRecipients
  <2>2. w.type = "reply" /\ t \in Clearing /\ task[t].at \in AfterMark
    BY <1>1, <1>2, <2>1 DEF TaskOK, ForReply, Clearing, AfterMark
  <2>3. window'[t] = w => FilesOK(t)'
    BY <1>2, <2>1, <2>2 DEF FInv, AllFilesOK, FilesOK
  <2>4. sweeps' \in [Tab -> 0 .. 2] /\ \A u \in Tab \ {t} : sweeps'[u] = sweeps[u]
    BY <1>2, <1>3 DEF BackgroundTypeOK
  <2> HIDE DEF to
  <2>5. QED
    BY <1>2, <1>3, <1>5, <1>6, <2>1, <2>2, <2>3, <2>4, TaskChangesWindow
<1>7. QED
  BY <1>4, <1>6 DEF ClearRecipients

\* The window t holds one more attachment, or all of one kind are gone.
LEMMA FilesChanged ==
  ASSUME NEW t \in Tab, window[t] \in ComposeWindow, NEW m \in Message, NEW n \in Nat, NEW w,
         w = [window[t] EXCEPT !.files = [@ EXCEPT ![m] = n]]
  PROVE  /\ w \in ComposeWindow /\ w.at = window[t].at /\ w.type = window[t].type
         /\ w.of = window[t].of /\ w.redirected = window[t].redirected
         /\ w.recipients = window[t].recipients
         /\ w.files[m] = n /\ \A f \in Message \ {m} : w.files[f] = window[t].files[f]
BY DEF ComposeWindow

Attempt == [at : {"list", "again", "add"}, uri : Message, attempt : 1 .. 3]

LEMMA NextAttempt ==
  ASSUME NEW x \in Attempt, NEW n \in 1 .. 3
  PROVE  /\ [x EXCEPT !.at = "list", !.attempt = n] \in Task
         /\ [x EXCEPT !.at = "list", !.attempt = n].at = "list"
BY DEF Attempt, Task

LEMMA AddAttachmentStep ==
  ASSUME FInv, ParentTypeOK', NEW t \in Tab, AddAttachment(t)
  PROVE  FInv'
<1>1. task[t].at = "add"
  BY DEF AddAttachment
<1>2. /\ t \in Tab \ Unused /\ task[t] \in Task /\ window[t] \in ComposeWindow
      /\ TaskOK(t) /\ BackgroundTypeOK
  BY <1>1, BusyIsUsed
<1>3. UNCHANGED <<pending, sweeps, taken>> /\ TaskUnchanged /\ (Fault \/ Works)
  BY DEF AddAttachment
<1>4. CASE Ends(t) /\ UNCHANGED window
  <2>1. WindowsOK' /\ \A u \in Tab : Untouched(u)
    BY <1>4, WindowUnchanged DEF FInv, ForwardTypeOK
  <2>2. QED
    BY <1>2, <1>3, <1>4, <2>1, IdleMoves, PlacesTyped, TaskGoesOn DEF Ends
<1>5. CASE window' = [window EXCEPT ![t].files[task[t].uri] = @ + 1]
           /\ IF task[t].attempt = 3 THEN Ends(t)
              ELSE Goes(t, [task[t] EXCEPT !.at = "list", !.attempt = @ + 1])
  <2> DEFINE m == task[t].uri
             w == [window[t] EXCEPT !.files = [@ EXCEPT ![m] = 1]]
  <2>1. /\ m \in Message /\ task[t].attempt \in 1 .. 3
        /\ task[t] = [at |-> task[t].at, uri |-> m, attempt |-> task[t].attempt]
    BY <1>1, <1>2, TaskAtPlace
  <2>2. /\ window[t].files[m] = 0 /\ window[t].type = "reply"
        /\ task[t].at \in AfterMark
    BY <1>1, <1>2 DEF TaskOK, ForReply, AfterMark
  <2>3. window' = [window EXCEPT ![t] = w]
    <3>1. window \in [Tab -> ComposeWindow \cup {NoWindow}]
      BY DEF FInv, ForwardTypeOK, WindowsOK
    <3> HIDE DEF m
    <3>2. window' = [window EXCEPT ![t].files[m] = 1]
      BY <1>5, <2>2 DEF m
    <3>3. QED
      BY <1>2, <3>1, <3>2 DEF ComposeWindow
  <2>4. /\ w \in ComposeWindow /\ w.at = window[t].at /\ w.type = window[t].type
        /\ w.of = window[t].of /\ w.redirected = window[t].redirected
        /\ w.recipients = window[t].recipients
        /\ w.files[m] = 1 /\ \A f \in Message \ {m} : w.files[f] = window[t].files[f]
    <3> HIDE DEF m, w
    <3>1. QED
      BY <1>2, <2>1, FilesChanged DEF w
  <2> HIDE DEF m, w
  <2>5. window'[t] = w => FilesOK(t)'
    BY <1>2, <2>1, <2>2, <2>4 DEF FInv, AllFilesOK, FilesOK
  <2>6. w.type = "reply" /\ ~w.recipients => t \in Cleared \cup Clearing
    BY <1>2, <2>4 DEF Cleared
  <2>7. sweeps' \in [Tab -> 0 .. 2] /\ \A u \in Tab \ {t} : sweeps'[u] = sweeps[u]
    BY <1>2, <1>3 DEF BackgroundTypeOK
  <2>8. PICK to \in Task : Goes(t, to) /\ to.at \in {"idle", "list"}
    <3>1. CASE Ends(t)
      BY <3>1, PlacesTyped DEF Ends, Idle
    <3>2. CASE ~Ends(t)
      <4> DEFINE next == task[t].attempt + 1
                 to == [task[t] EXCEPT !.at = "list", !.attempt = next]
      <4>1. Goes(t, to) /\ task[t].attempt # 3
        BY <1>5, <3>2
      <4>2. next \in 1 .. 3
        BY <2>1, <4>1
      <4> HIDE DEF next
      <4>3. task[t] \in Attempt
        BY <1>1, <1>2, TaskAtPlace DEF Attempt
      <4>4. to \in Task /\ to.at = "list"
        BY <4>2, <4>3, NextAttempt
      <4> HIDE DEF to
      <4>5. QED
        BY <4>1, <4>4
    <3>3. QED
      BY <3>1, <3>2
  <2>9. QED
    BY <1>2, <1>3, <2>2, <2>3, <2>4, <2>5, <2>6, <2>7, <2>8, TaskChangesWindow
<1>6. QED
  BY <1>4, <1>5 DEF AddAttachment
LEMMA AddFilesStep ==
  ASSUME FInv, ParentTypeOK', NEW t \in Tab, AddFiles(t)
  PROVE  FInv'
<1>1. task[t].at = "files"
  BY DEF AddFiles
<1>2. /\ t \in Tab \ Unused /\ task[t] \in Task /\ window[t] \in ComposeWindow
      /\ TaskOK(t) /\ BackgroundTypeOK
  BY <1>1, BusyIsUsed
<1>3. /\ UNCHANGED <<pending, taken>> /\ TaskUnchanged /\ (Fault \/ Works)
      /\ Goes(t, Idle) /\ sweeps' = [sweeps EXCEPT ![t] = 2]
  BY DEF AddFiles, Ends
<1>4. sweeps' \in [Tab -> 0 .. 2] /\ \A u \in Tab \ {t} : sweeps'[u] = sweeps[u]
  BY <1>2, <1>3 DEF BackgroundTypeOK
<1>5. window[t].type = "forward" /\ window[t].of \in Message
  BY <1>1, <1>2 DEF TaskOK, ForForward, ComposeWindow
<1> DEFINE m == window[t].of
           n == IF Open(t) THEN window[t].files[m] + 1 ELSE window[t].files[m]
<1>6. PICK k \in Nat :
        /\ k = window[t].files[m] \/ k = n
        /\ window' = [window EXCEPT ![t] =
               [window[t] EXCEPT !.files = [window[t].files EXCEPT ![m] = k]]]
  <2>1. window[t].files[m] \in Nat /\ n \in Nat
    BY <1>2, <1>5 DEF ComposeWindow
  <2>2. CASE UNCHANGED window
    <3>1. window[t] =
            [window[t] EXCEPT !.files = [window[t].files EXCEPT ![m] = window[t].files[m]]]
      BY <1>2 DEF ComposeWindow
    <3>2. window = [window EXCEPT ![t] = window[t]]
      BY DEF FInv, ForwardTypeOK, WindowsOK
    <3>3. QED
      BY <2>1, <2>2, <3>1, <3>2
  <2>3. CASE window' = [window EXCEPT ![t].files[window[t].of] = IF Open(t) THEN @ + 1 ELSE @]
    BY <2>1, <2>3
  <2>4. QED
    BY <2>2, <2>3 DEF AddFiles
<1> DEFINE w == [window[t] EXCEPT !.files = [window[t].files EXCEPT ![m] = k]]
<1>7. window' = [window EXCEPT ![t] = w]
  BY <1>6
<1>8. /\ w \in ComposeWindow /\ w.at = window[t].at /\ w.type = window[t].type
      /\ w.of = window[t].of /\ w.redirected = window[t].redirected
      /\ w.recipients = window[t].recipients
      /\ w.files[m] = k /\ \A f \in Message \ {m} : w.files[f] = window[t].files[f]
  <2> HIDE DEF m, n, w
  <2>1. m \in Message
    BY <1>5 DEF m
  <2>2. QED
    BY <1>2, <2>1, FilesChanged DEF w
<1>9. ASSUME task'[t] = Idle, window'[t] = w PROVE FilesOK(t)'
  <2> HIDE DEF m, w
  <2>1. Adding(t) /\ ~Adding(t)'
    BY <1>1, <1>9 DEF Adding, Idle
  <2>2. Open(t)' <=> Open(t)
    BY <1>8, <1>9 DEF Open
  <2>3. UNCHANGED <<sleeps, claimed>> /\ sleeps \in Nat
    BY <1>2, <1>3 DEF TaskUnchanged, BackgroundTypeOK
  <2>4. ASSUME NEW f \in Message
        PROVE  IF Open(t) THEN w.files[f] <= sleeps + (IF t \in claimed THEN 1 ELSE 0)
               ELSE w.files[f] = 0
    <3> DEFINE bound == sleeps + (IF t \in claimed THEN 1 ELSE 0)
    <3>1. window[t].files[f] \in Nat /\ bound \in Nat
      BY <1>2, <2>3 DEF ComposeWindow
    <3>2. IF Open(t) THEN window[t].files[f] + 1 <= bound ELSE window[t].files[f] = 0
      BY <1>2, <1>5, <2>1 DEF FInv, AllFilesOK, FilesOK
    <3> HIDE DEF bound
    <3>3. IF Open(t) THEN w.files[f] <= bound ELSE w.files[f] = 0
      <4>1. CASE f # m
        BY <1>8, <3>1, <3>2, <4>1
      <4>2. CASE f = m
        BY <1>6, <1>8, <3>1, <3>2, <4>2
      <4>3. QED
        BY <4>1, <4>2
    <3>4. QED
      BY <3>3 DEF bound
  <2>5. w.files \in [Message -> Nat]
    BY <1>8 DEF ComposeWindow
  <2>6. window'[t].type = "forward"
    BY <1>5, <1>8, <1>9
  <2>7. \A f \in Message : w.files[f] + 0 = w.files[f]
    BY <2>5
  <2>8. QED
    BY <1>9, <2>1, <2>2, <2>3, <2>4, <2>6, <2>7 DEF FilesOK
<1>10. Idle \in Task /\ Idle.at = "idle"
  BY PlacesTyped DEF Idle
<1> HIDE DEF m, n, w
<1>11. QED
  BY <1>2, <1>3, <1>4, <1>5, <1>7, <1>8, <1>9, <1>10, TaskChangesWindow

LEMMA DropAttachmentStep ==
  ASSUME FInv, ParentTypeOK', NEW t \in Tab, DropAttachment(t)
  PROVE  FInv'
<1>1. task[t].at \in {"list", "again"} /\ Open(t)
  BY DEF DropAttachment
<1>2. /\ t \in Tab \ Unused /\ task[t] \in Task /\ window[t] \in ComposeWindow
      /\ TaskOK(t) /\ BackgroundTypeOK
  BY <1>1, BusyIsUsed
<1>3. UNCHANGED <<pending, latest, taken, faults, bg, claimed, task, sweeps, sleeps>>
  BY DEF DropAttachment, parentVars, backgroundVars
<1> DEFINE m == task[t].uri
           w == [window[t] EXCEPT !.files = [@ EXCEPT ![m] = 0]]
<1>4. m \in Message /\ window[t].type = "reply"
  BY <1>1, <1>2, TaskAtPlace DEF TaskOK, ForReply
<1>5. window' = [window EXCEPT ![t] = w]
  BY DEF DropAttachment
<1>6. /\ w \in ComposeWindow /\ w.at = window[t].at /\ w.type = window[t].type
      /\ w.of = window[t].of /\ w.redirected = window[t].redirected
      /\ w.recipients = window[t].recipients
      /\ w.files[m] = 0 /\ \A f \in Message \ {m} : w.files[f] = window[t].files[f]
  <2> HIDE DEF m, w
  <2>1. QED
    BY <1>2, <1>4, FilesChanged DEF w
<1> HIDE DEF m, w
<1>7. window'[t] = w
  BY <1>2, <1>5 DEF FInv, ForwardTypeOK, WindowsOK
<1>8. t \notin Unused' /\ Stays(t)
  BY <1>2, <1>6, <1>7, NoWindowIsNone DEF Unused, Stays
<1>9. BackgroundTypeOK'
  BY <1>2, <1>3 DEF BackgroundTypeOK
<1>10. TaskOK(t)'
  BY <1>1, <1>2, <1>3, <1>6, <1>7, <1>8 DEF TaskOK
<1>11. FilesOK(t)'
  <2>1. \A f \in Message : window[t].files[f] <= 1
    BY <1>2, <1>4 DEF FInv, AllFilesOK, FilesOK
  <2>2. \A f \in Message : w.files[f] <= 1
    BY <1>6, <2>1
  <2>3. QED
    BY <1>4, <1>6, <1>7, <2>2 DEF FilesOK
<1>12. t \in Cleared' \cup Clearing' => t \in Cleared \cup Clearing
  BY <1>2, <1>3, <1>6, <1>7 DEF Cleared, Clearing
<1>13. QED
  BY <1>2, <1>3, <1>5, <1>8, <1>9, <1>10, <1>11, <1>12, OneTabStep
-----------------------------------------------------------------------------
(* The mark is taken. *)

LEMMA MarkCounted ==
  ASSUME CountsOK, pending, ~pending', taken \in Nat, taken' = taken + 1, Redirected' = Redirected,
         NEW t \in Tab, Cleared' \subseteq Cleared,
         Cleared' \cup Clearing' \subseteq Cleared \cup Clearing \cup {t}
  PROVE  CountsOK'
<1> DEFINE S == Cleared \cup Clearing
           T == Cleared' \cup Clearing'
<1>1. IsFiniteSet(S) /\ IsFiniteSet(Cleared)
  <2>1. S \subseteq Tab /\ Cleared \subseteq Tab
    BY DEF Cleared, Clearing
  <2>2. QED
    BY <2>1, TabsFinite, FS_Subset
<1>2. /\ IsFiniteSet(S \cup {t})
      /\ Cardinality(S \cup {t}) = Cardinality(S) \/ Cardinality(S \cup {t}) = Cardinality(S) + 1
  BY <1>1, FS_AddElement
<1>3. Cardinality(T) <= Cardinality(S \cup {t}) /\ IsFiniteSet(T)
  <2>1. T \subseteq S \cup {t}
    OBVIOUS
  <2> HIDE DEF S, T
  <2>2. QED
    BY <1>2, <2>1, FS_Subset
<1>4. Cardinality(Cleared') <= Cardinality(Cleared) /\ IsFiniteSet(Cleared')
  BY <1>1, FS_Subset
<1>5. /\ Cardinality(S) \in Nat /\ Cardinality(T) \in Nat
      /\ Cardinality(S \cup {t}) \in Nat
      /\ Cardinality(Cleared) \in Nat /\ Cardinality(Cleared') \in Nat
  <2> HIDE DEF S, T
  <2>1. QED
    BY <1>1, <1>2, <1>3, <1>4, FS_CardinalityType
<1>6. Cardinality(S) <= taken /\ Cardinality(Cleared) <= taken
  BY DEF CountsOK, OneTabPerRedirect
<1>7. Cardinality(T) <= taken' /\ Cardinality(Cleared') <= taken'
  <2> HIDE DEF S, T
  <2>1. QED
    BY <1>2, <1>3, <1>4, <1>5, <1>6
<1>8. taken' + 0 <= Cardinality(Redirected')
  BY DEF CountsOK, OneTabPerRedirect
<1>9. QED
  BY <1>7, <1>8 DEF CountsOK, OneTabPerRedirect

LEMMA TakeMarkerStep ==
  ASSUME FInv, ParentTypeOK', NEW t \in Tab, TakeMarker(t)
  PROVE  FInv'
<1>1. task[t].at = "marker"
  BY DEF TakeMarker
<1>2. /\ t \in Tab \ Unused /\ task[t] \in Task /\ window[t] \in ComposeWindow
      /\ TaskOK(t) /\ BackgroundTypeOK
  BY <1>1, BusyIsUsed
<1>3. /\ ~pending' /\ UNCHANGED <<window, sweeps>> /\ TaskUnchanged /\ (Fault \/ Works)
      /\ taken' = taken + (IF pending THEN 1 ELSE 0)
  BY DEF TakeMarker
<1>4. WindowsOK' /\ \A u \in Tab : Untouched(u)
  BY <1>3, WindowUnchanged DEF FInv, ForwardTypeOK
<1>5. CASE ~pending
  <2>1. Ends(t) /\ UNCHANGED pending
    BY <1>3, <1>5 DEF TakeMarker, FInv, ForwardTypeOK, ParentTypeOK
  <2>2. UNCHANGED taken
    BY <1>2, <1>3, <1>5 DEF BackgroundTypeOK
  <2>3. QED
    BY <1>2, <1>3, <1>4, <2>1, <2>2, IdleMoves, PlacesTyped, TaskGoesOn DEF Ends
<1>6. CASE pending
  <2>1. PICK to \in Task : Goes(t, to) /\ (to = Idle \/ to = [at |-> "clear"])
    BY PlacesTyped DEF TakeMarker, Ends
  <2>2. /\ task' \in [Tab -> Task] /\ task'[t] = to
        /\ \A u \in Tab \ {t} : task'[u] = task[u]
    BY <1>2, <2>1, GoesTyped
  <2>3. UNCHANGED <<latest, bg, claimed, sleeps>>
    BY <1>3 DEF TaskUnchanged
  <2>4. BackgroundTypeOK'
    <3>1. faults' \in Nat
      BY <1>2, <1>3, FaultOrNot
    <3>2. QED
      BY <1>2, <1>3, <1>6, <2>2, <2>3, <3>1 DEF BackgroundTypeOK
  <2>5. Unused' = Unused /\ Redirected' = Redirected /\ Cleared' = Cleared
    BY <1>3 DEF Unused, Redirected, Cleared
  <2>6. window[t].type = "reply" /\ to.at \in {"idle", "clear"}
    BY <1>1, <1>2, <2>1 DEF TaskOK, ForReply, Idle
  <2>7. TasksOK'
    <3>1. TaskOK(t)'
      BY <1>2, <1>3, <2>2, <2>5, <2>6 DEF TaskOK, ForForward
    <3>2. ASSUME NEW u \in Tab, u # t PROVE TaskOK(u)'
      BY <1>3, <2>2, <2>5, <3>2 DEF FInv, TasksOK, TaskOK
    <3>3. QED
      BY <3>1, <3>2 DEF TasksOK
  <2>8. AllFilesOK'
    <3>1. FilesOK(t)'
      BY <1>2, <1>3, <2>6 DEF FInv, AllFilesOK, FilesOK
    <3>2. ASSUME NEW u \in Tab \ Unused, u # t PROVE FilesOK(u)'
      BY <1>3, <2>2, <2>3, <3>2 DEF FInv, AllFilesOK, FilesOK, Open, Adding
    <3>3. QED
      BY <2>5, <3>1, <3>2 DEF AllFilesOK
  <2>9. MarksOK'
    BY <1>6, <2>3, <2>5 DEF FInv, MarksOK
  <2>10. CountsOK'
    <3>1. Clearing' \subseteq Clearing \cup {t}
      BY <2>2 DEF Clearing
    <3>2. taken \in Nat /\ taken' = taken + 1
      BY <1>2, <1>3, <1>6 DEF BackgroundTypeOK
    <3>3. QED
      BY <1>3, <1>6, <2>5, <3>1, <3>2, MarkCounted DEF FInv
  <2>11. QED
    BY <1>4, <2>4, <2>7, <2>8, <2>9, <2>10 DEF FInv, ForwardTypeOK
<1>7. QED
  BY <1>5, <1>6

\* The script is stopped when it has nothing under way.
LEMMA SleepStep ==
  ASSUME FInv, ParentTypeOK', Sleep
  PROVE  FInv'
<1>1. /\ UNCHANGED <<pending, latest, window, task, sweeps, taken, faults>>
      /\ bg' = "asleep" /\ claimed' = {} /\ sleeps' = sleeps + 1
      /\ \A t \in Tab : task[t] = Idle
  BY DEF Sleep, parentVars
<1>2. BackgroundTypeOK'
  BY <1>1 DEF FInv, ForwardTypeOK, BackgroundTypeOK
<1>3. Unused' = Unused /\ Redirected' = Redirected /\ Cleared' = Cleared /\ Clearing' = Clearing
  BY <1>1 DEF Unused, Redirected, Cleared, Clearing
<1>4. WindowsOK' /\ TasksOK' /\ MarksOK' /\ CountsOK'
  BY <1>1, <1>3 DEF FInv, ForwardTypeOK, WindowsOK, TasksOK, TaskOK, MarksOK, CountsOK,
                    OneTabPerRedirect
<1>5. ASSUME NEW t \in Tab \ Unused PROVE FilesOK(t)'
  <2>1. window[t] \in ComposeWindow /\ FilesOK(t) /\ sleeps \in Nat
    BY NoWindowIsNone DEF FInv, ForwardTypeOK, BackgroundTypeOK, AllFilesOK
  <2>2. \A m \in Message : window[t].files[m] \in Nat
    BY <2>1 DEF ComposeWindow
  <2>3. ~Adding(t) /\ ~Adding(t)'
    BY <1>1 DEF Adding, Idle
  <2>4. Open(t)' = Open(t)
    BY <1>1 DEF Open
  <2>5. \A m \in Message : ~(window[t].type = "reply") /\ Open(t) =>
          window[t].files[m] + 0 <= sleeps' + 0
    BY <1>1, <2>1, <2>2, <2>3 DEF FilesOK
  <2>6. QED
    BY <1>1, <2>1, <2>3, <2>4, <2>5 DEF FilesOK
<1>6. AllFilesOK'
  BY <1>3, <1>5 DEF AllFilesOK
<1>7. QED
  BY <1>2, <1>4, <1>6 DEF FInv, ForwardTypeOK
-----------------------------------------------------------------------------
(* Windows open. *)

LEMMA MarkAdded ==
  ASSUME CountsOK, taken \in Nat, UNCHANGED taken, NEW t \in Tab \ Redirected,
         \/ Redirected' = Redirected \cup {t}
         \/ Redirected' = Redirected /\ UNCHANGED pending,
         Cleared' = Cleared, Clearing' = Clearing
  PROVE  CountsOK'
<1>1. IsFiniteSet(Redirected) /\ Cardinality(Redirected) \in Nat
  <2>1. Redirected \subseteq Tab
    BY DEF Redirected
  <2>2. QED
    BY <2>1, TabsFinite, FS_Subset, FS_CardinalityType
<1>2. Cardinality(Redirected \cup {t}) = Cardinality(Redirected) + 1
  BY <1>1, FS_AddElement
<1>3. taken + (IF pending THEN 1 ELSE 0) <= Cardinality(Redirected)
  BY DEF CountsOK, OneTabPerRedirect
<1>4. CASE Redirected' = Redirected \cup {t}
  <2>1. Cardinality(Redirected') = Cardinality(Redirected) + 1
    BY <1>2, <1>4
  <2>2. taken' + (IF pending' THEN 1 ELSE 0) <= Cardinality(Redirected')
    BY <1>1, <1>3, <2>1
  <2>3. QED
    BY <2>2 DEF CountsOK, OneTabPerRedirect
<1>5. CASE Redirected' = Redirected /\ UNCHANGED pending
  BY <1>5 DEF CountsOK, OneTabPerRedirect
<1>6. QED
  BY <1>4, <1>5

LEMMA OpensStep ==
  ASSUME FInv, ParentTypeOK', NEW t \in Tab, NEW m \in Message, NEW type \in {"reply", "forward"},
         NEW redirected \in BOOLEAN, NEW current \in Tab \cup {None},
         Opens(t, type, m, redirected, current),
         \/ redirected /\ latest' = t
         \/ ~redirected /\ UNCHANGED <<pending, latest>>,
         UNCHANGED <<backgroundVars, taken>>, faults' \in Nat
  PROVE  FInv'
<1> DEFINE listens == IF current # None /\ ready[current] = NoReady THEN current ELSE None
           w == Window("opening", type, m, redirected, listens)
<1>1. t \in Unused /\ window' = [window EXCEPT ![t] = w]
  BY DEF Opens
<1>2. /\ w \in ComposeWindow /\ w.at = "opening" /\ w.type = type
      /\ w.redirected = redirected /\ w.recipients = (type = "reply")
      /\ w.files = [f \in Message |-> 0]
  <2>1. listens \in Tab \cup {None}
    OBVIOUS
  <2> HIDE DEF listens
  <2>2. QED
    BY <2>1 DEF Window, ComposeWindow
<1> HIDE DEF w
<1>3. /\ window' \in [Tab -> ComposeWindow \cup {NoWindow}] /\ window'[t] = w
      /\ \A u \in Tab \ {t} : window'[u] = window[u]
  BY <1>1, <1>2 DEF FInv, ForwardTypeOK, WindowsOK
<1>4. UNCHANGED <<bg, claimed, task, sweeps, sleeps, taken>>
  BY DEF backgroundVars
<1>5. BackgroundTypeOK'
  BY <1>4 DEF FInv, ForwardTypeOK, BackgroundTypeOK
<1>6. Unused' = Unused \ {t} /\ t \notin Unused'
  BY <1>2, <1>3, NoWindowIsNone DEF Unused
<1>7. /\ t \notin Redirected
      /\ Redirected' = IF redirected THEN Redirected \cup {t} ELSE Redirected
  BY <1>1, <1>2, <1>3, <1>6 DEF Redirected
<1>8. Cleared' = Cleared /\ Clearing' = Clearing
  <2>1. t \notin Cleared /\ t \notin Cleared'
    BY <1>1, <1>2, <1>3 DEF Cleared
  <2>2. QED
    BY <1>3, <1>4, <1>6, <2>1 DEF Cleared, Clearing
<1>9. task[t] = Idle /\ ~(sweeps[t] > 0)
  BY <1>1 DEF FInv, TasksOK, TaskOK
<1>10. TasksOK'
  <2>1. TaskOK(t)'
    BY <1>4, <1>6, <1>9 DEF TaskOK, Idle, ForReply, ForForward
  <2>2. ASSUME NEW u \in Tab, u # t PROVE TaskOK(u)'
    BY <1>3, <1>4, <1>6, <2>2 DEF FInv, TasksOK, TaskOK
  <2>3. QED
    BY <2>1, <2>2 DEF TasksOK
<1>11. AllFilesOK'
  <2>1. FilesOK(t)'
    <3>1. ~Adding(t)'
      BY <1>4, <1>9 DEF Adding, Idle
    <3>2. sleeps \in Nat
      BY DEF FInv, ForwardTypeOK, BackgroundTypeOK
    <3>3. \A f \in Message : window'[t].files[f] = 0
      BY <1>2, <1>3
    <3>4. Open(t)'
      BY <1>2, <1>3 DEF Open
    <3>5. 0 <= 1 /\ 0 + 0 <= sleeps + 0 /\ 0 + 0 <= sleeps + 1
      BY <3>2
    <3>6. QED
      BY <1>4, <3>1, <3>3, <3>4, <3>5 DEF FilesOK
  <2>2. ASSUME NEW u \in Tab \ Unused, u # t PROVE FilesOK(u)'
    BY <1>3, <1>4, <2>2 DEF FInv, AllFilesOK, FilesOK, Open, Adding
  <2>3. QED
    BY <1>6, <2>1, <2>2 DEF AllFilesOK
<1>12. MarksOK'
  <2>1. CASE redirected /\ latest' = t
    <3>1. latest' # None
      BY <2>1, ForwardAssumption DEF Tab
    <3>2. QED
      BY <1>7, <2>1, <3>1 DEF MarksOK
  <2>2. CASE ~redirected /\ UNCHANGED <<pending, latest>>
    BY <1>4, <1>7, <2>2 DEF FInv, MarksOK
  <2>3. QED
    BY <2>1, <2>2
<1>13. CountsOK'
  <2>1. taken \in Nat
    BY DEF FInv, ForwardTypeOK, BackgroundTypeOK
  <2>2. QED
    BY <1>4, <1>7, <1>8, <2>1, MarkAdded DEF FInv
<1>14. QED
  BY <1>3, <1>5, <1>10, <1>11, <1>12, <1>13 DEF FInv, ForwardTypeOK, WindowsOK

LEMMA OpeningSteps ==
  ASSUME FInv, ParentTypeOK', NEW m \in Message, NEW t \in Tab,
         Redirect(m, t) \/ PlainForward(m, t) \/ Reply(m, t)
  PROVE  FInv'
<1>1. BackgroundTypeOK /\ latest \in Tab \cup {None}
  BY DEF FInv, ForwardTypeOK, ParentTypeOK
<1>2. CASE Redirect(m, t)
  BY <1>1, <1>2, OpensStep DEF Redirect, BackgroundTypeOK
<1>3. CASE PlainForward(m, t)
  <2>1. faults' \in Nat
    BY <1>1, <1>3, FaultOrNot DEF PlainForward
  <2>2. QED
    BY <1>1, <1>3, <2>1, OpensStep DEF PlainForward, parentVars
<1>4. CASE Reply(m, t)
  BY <1>1, <1>4, OpensStep DEF Reply, BackgroundTypeOK, parentVars
<1>5. QED
  BY <1>2, <1>3, <1>4
-----------------------------------------------------------------------------
(* The invariant, and what it gives. *)

LEMMA InitFInv == ForwardInit => FInv
<1> SUFFICES ASSUME ForwardInit PROVE FInv
  OBVIOUS
<1>1. Unused = Tab /\ Redirected = {} /\ Cleared = {}
  BY DEF ForwardInit, Unused, Redirected, Cleared
<1>2. ForwardTypeOK
  <2>1. ParentTypeOK
    BY DEF ForwardInit, ParentTypeOK, NoReady
  <2>2. WindowsOK
    BY DEF ForwardInit, WindowsOK
  <2>3. BackgroundTypeOK
    <3>1. Idle \in Task
      BY PlacesTyped
    <3>2. task \in [Tab -> Task]
      BY <3>1 DEF ForwardInit
    <3>3. QED
      BY <3>2 DEF ForwardInit, BackgroundTypeOK
  <2>4. QED
    BY <2>1, <2>2, <2>3 DEF ForwardTypeOK
<1>3. \A t \in Tab : task[t] = Idle /\ sweeps[t] = 0
  BY DEF ForwardInit
<1>4. TasksOK
  BY <1>3 DEF TasksOK, TaskOK, Idle, ForReply, ForForward
<1>5. MarksOK
  BY <1>3 DEF MarksOK, ForwardInit, Idle, AfterMark
<1>6. CountsOK
  <2>1. Clearing = {}
    BY <1>3 DEF Clearing, Idle
  <2>2. taken = 0 /\ ~pending
    BY DEF ForwardInit
  <2>3. Cardinality({}) = 0
    BY FS_EmptySet
  <2>4. Cardinality(Redirected) = 0 /\ Cardinality(Cleared) = 0
        /\ Cardinality(Cleared \cup Clearing) = 0
    BY <1>1, <2>1, <2>3
  <2>5. QED
    BY <2>2, <2>4 DEF CountsOK, OneTabPerRedirect
<1>7. AllFilesOK
  BY <1>1 DEF AllFilesOK
<1>8. QED
  BY <1>2, <1>4, <1>5, <1>6, <1>7 DEF FInv

LEMMA StepFInv == FInv /\ [ForwardNext]_forwardVars => FInv'
<1> SUFFICES ASSUME FInv, [ForwardNext]_forwardVars PROVE FInv'
  OBVIOUS
<1>1. ParentTypeOK'
  BY ParentTyped DEF forwardVars, parentVars, FInv, ForwardTypeOK, ParentTypeOK
<1>2. CASE UNCHANGED forwardVars
  BY <1>1, <1>2, BackgroundSteps
<1>3. CASE \E m \in Message, t \in Tab : Redirect(m, t) \/ PlainForward(m, t) \/ Reply(m, t)
  BY <1>1, <1>3, OpeningSteps
<1>4. CASE Wake \/ SetEnabled
  BY <1>1, <1>4, BackgroundSteps
<1>5. CASE Sleep
  BY <1>1, <1>5, SleepStep
<1>6. ASSUME NEW t \in Tab,
             BodyReady(t) \/ EnvelopeArrives(t) \/ InitWindow(t) \/ RemoveAdded(t)
      PROVE  FInv'
  BY <1>1, <1>6, LifeSteps
<1>7. CASE \E t \in Tab : Close(t)
  BY <1>1, <1>7, CloseStep
<1>8. CASE \E t \in Tab : DropAttachment(t)
  BY <1>1, <1>8, DropAttachmentStep
<1>9. CASE ScanTabs \/ \E t \in Tab : TabCreated(t)
  BY <1>1, <1>9, ClaimSteps
<1>10. CASE \E t \in Tab : Sweep(t)
  BY <1>1, <1>10, SweepStep
<1>11. ASSUME NEW t \in Tab, TaskStep(t) PROVE FInv'
  BY <1>1, <1>11, LookingSteps, TakeMarkerStep, ClearRecipientsStep, AddAttachmentStep, RebuildStep,
     AddFilesStep DEF TaskStep
<1>12. QED
  BY <1>2, <1>3, <1>4, <1>5, <1>6, <1>7, <1>8, <1>9, <1>10, <1>11
     DEF ForwardNext, SystemStep, Background

\* Everything the following theorems rest on holds in every state the add-on can be in
\* (implementation.js and background.js, all their handlers and the stops of the script).
THEOREM ForwardInvariant == ForwardSpec => []FInv
<1>1. QED
  BY InitFInv, StepFInv, PTL DEF ForwardSpec

\* Each redirect is good for one reply tab: the marks that were taken and the one that waits are
\* at most as many as there were redirects, and no more replies lost their recipients than marks
\* were taken (getAndClearRedirectPending, handleExperimentReplyTab), however many windows there
\* are, whoever asks first, and however often the script is stopped and started.
THEOREM MarksGoOnce == ForwardSpec => []OneTabPerRedirect
<1>1. FInv => OneTabPerRedirect
  BY DEF FInv, CountsOK
<1>2. QED
  BY <1>1, ForwardInvariant, PTL

\* No window gets an attachment of a message twice (processedTabIds; ensureAttachmentPersists),
\* a forward at most once more for each time the script was stopped and forgot its tabs.
THEOREM NothingTwice == ForwardSpec => []AttachedOnce
<1>1. ASSUME FInv, NEW t \in Tab \ Unused, NEW m \in Message
      PROVE  window[t].files[m] <= IF window[t].type = "forward" THEN 1 + sleeps ELSE 1
  <2>1. window[t] \in ComposeWindow /\ FilesOK(t) /\ sleeps \in Nat
    BY <1>1, NoWindowIsNone DEF FInv, ForwardTypeOK, BackgroundTypeOK, AllFilesOK
  <2>2. window[t].files[m] \in Nat /\ window[t].type \in {"reply", "forward"}
    BY <2>1 DEF ComposeWindow
  <2>3. CASE window[t].type = "reply"
    BY <2>1, <2>3 DEF FilesOK
  <2>4. CASE window[t].type = "forward" /\ ~Open(t)
    BY <2>1, <2>2, <2>4 DEF FilesOK
  <2>5. CASE window[t].type = "forward" /\ Open(t)
    <3>1. window[t].files[m] + (IF Adding(t) THEN 1 ELSE 0)
            <= sleeps + (IF t \in claimed THEN 1 ELSE 0)
      BY <2>1, <2>5 DEF FilesOK
    <3>2. QED
      BY <2>1, <2>2, <2>5, <3>1
  <2>6. QED
    BY <2>2, <2>3, <2>4, <2>5
<1>2. FInv => AttachedOnce
  BY <1>1 DEF AttachedOnce
<1>3. QED
  BY <1>2, ForwardInvariant, PTL
-----------------------------------------------------------------------------
(* Tasks come to an end. *)

\* The steps a task has left at most, from the place it is at.
RoundsOf(x) ==
  IF x.at = "list" THEN 3 * (3 - x.attempt) + 3
  ELSE IF x.at = "again" THEN 3 * (3 - x.attempt) + 2
  ELSE IF x.at = "add" THEN 3 * (3 - x.attempt) + 1
  ELSE IF x.at = "details" THEN 15
  ELSE IF x.at = "marker" THEN 14
  ELSE IF x.at = "clear" THEN 13
  ELSE IF x.at = "cleared" THEN 12
  ELSE IF x.at = "waiting" THEN 11
  ELSE IF x.at = "uri" THEN 10
  ELSE IF x.at = "checks" THEN 2
  ELSE IF x.at = "files" THEN 1 ELSE 0

\* A tab is processed once at a time: it stays claimed until its window is closed.
ClaimedWhileBusy == \A t \in Tab : Open(t) /\ task[t] # Idle => t \in claimed

\* A task that is under way finds what its next step reads: its window, the readiness it waits
\* for, the URI of a redirect, and the attachment it looks for.
TaskCanStep(t) ==
  /\ t \notin Unused
  /\ task[t].at = "waiting" => task[t].waits \in Tab
  /\ task[t].at \in {"cleared", "uri"} => latest \in Redirected
  /\ task[t].at \in {"list", "again", "add"} => task[t].uri \in Message /\ task[t].attempt \in 1 .. 3

TasksOnTrack ==
  \A t \in Tab :
    task[t] # Idle => RoundsOf(task[t]) > 0 /\ RoundsOf(task[t]) <= 15 /\ TaskCanStep(t)

\* Each step of a task brings its end nearer; no other step changes it, nor starts it again.
TaskAdvances ==
  \A t \in Tab :
    task[t] # Idle =>
      /\ TaskStep(t) => RoundsOf(task'[t]) < RoundsOf(task[t])
      /\ task'[t] = task[t] \/ TaskStep(t)

LEMMA RoundsTyped ==
  ASSUME NEW x \in Task
  PROVE  RoundsOf(x) \in 0 .. 15 /\ (x # Idle => RoundsOf(x) > 0)
<1>1. x = Idle => RoundsOf(x) = 0
  BY DEF Idle, RoundsOf
<1>2. CASE x.at \in {"list", "again", "add"}
  <2>1. x.attempt \in 1 .. 3
    BY <1>2, TaskAtPlace
  <2>2. QED
    BY <1>2, <2>1 DEF RoundsOf
<1>3. CASE x.at \notin {"list", "again", "add"} /\ x # Idle
  <2>1. x.at \in {"details", "marker", "checks", "clear", "cleared", "uri", "files", "waiting"}
    BY <1>3 DEF Task
  <2>2. QED
    BY <2>1 DEF RoundsOf
<1>4. QED
  BY <1>1, <1>2, <1>3 DEF Idle

LEMMA IdleRounds == RoundsOf(Idle) = 0
BY DEF Idle, RoundsOf

LEMMA TaskStepIs ==
  ASSUME FInv, NEW t \in Tab, TaskStep(t)
  PROVE  /\ task[t] # Idle
         /\ RoundsOf(task'[t]) < RoundsOf(task[t])
         /\ \A u \in Tab \ {t} : task'[u] = task[u]
         /\ UNCHANGED claimed
<1>1. UNCHANGED claimed /\ task[t].at # "idle"
  <2>1. TaskUnchanged
    BY Zenon DEF TaskStep, ReadDetails, TakeMarker, ClearRecipients, AwaitReady, ReadyOrTimeout, Extract,
       ListAttachments, AddAttachment, Rebuild, AddFiles
  <2>2. task[t].at \in {"details", "marker", "clear", "cleared", "waiting", "uri", "list", "again", "add",
                       "checks", "files"}
    BY SMT DEF TaskStep, ReadDetails, TakeMarker, ClearRecipients, AwaitReady, ReadyOrTimeout, Extract,
       ListAttachments, AddAttachment, Rebuild, AddFiles
  <2>3. QED
    BY <2>1, <2>2 DEF TaskUnchanged
<1>2. task[t] \in Task /\ task[t] # Idle /\ BackgroundTypeOK
  BY <1>1, BusyIsUsed DEF Idle
<1>3. RoundsOf(task[t]) > 0 /\ RoundsOf(task[t]) \in Nat
  BY <1>2, RoundsTyped
<1>4. ASSUME NEW to, Goes(t, to)
      PROVE  task'[t] = to /\ \A u \in Tab \ {t} : task'[u] = task[u]
  BY <1>2, <1>4 DEF Goes, BackgroundTypeOK
<1>5. CASE Ends(t)
  BY <1>1, <1>2, <1>3, <1>4, <1>5, IdleRounds DEF Ends
<1>6. ASSUME NEW to, Goes(t, to), RoundsOf(to) < RoundsOf(task[t])
      PROVE  /\ RoundsOf(task'[t]) < RoundsOf(task[t])
             /\ \A u \in Tab \ {t} : task'[u] = task[u]
  BY <1>4, <1>6
<1>7. CASE ReadDetails(t) /\ ~Ends(t)
  <2> DEFINE to == [at |-> IF window[t].type = "reply" THEN "marker" ELSE "checks"]
  <2>1. Goes(t, to) /\ task[t].at = "details"
    BY <1>7 DEF ReadDetails
  <2>2. RoundsOf(to) < RoundsOf(task[t])
    BY <2>1 DEF RoundsOf
  <2> HIDE DEF to
  <2>3. QED
    BY <1>1, <1>2, <1>6, <2>1, <2>2
<1>8. CASE TakeMarker(t) /\ ~Ends(t)
  <2>1. Goes(t, [at |-> "clear"]) /\ task[t].at = "marker"
    BY <1>8 DEF TakeMarker
  <2>2. RoundsOf([at |-> "clear"]) < RoundsOf(task[t])
    BY <2>1 DEF RoundsOf
  <2>3. QED
    BY <1>1, <1>2, <1>6, <2>1, <2>2
<1>9. CASE ClearRecipients(t) /\ ~Ends(t)
  <2>1. Goes(t, [at |-> "cleared"]) /\ task[t].at = "clear"
    BY <1>9 DEF ClearRecipients
  <2>2. RoundsOf([at |-> "cleared"]) < RoundsOf(task[t])
    BY <2>1 DEF RoundsOf
  <2>3. QED
    BY <1>1, <1>2, <1>6, <2>1, <2>2
<1>10. CASE ReadyOrTimeout(t) /\ ~Ends(t)
  <2>1. Goes(t, [at |-> "uri"]) /\ task[t].at = "waiting"
    BY <1>10 DEF ReadyOrTimeout
  <2>2. RoundsOf([at |-> "uri"]) < RoundsOf(task[t])
    BY <2>1 DEF RoundsOf
  <2>3. QED
    BY <1>1, <1>2, <1>6, <2>1, <2>2
<1>11. CASE Extract(t) /\ ~Ends(t)
  <2> DEFINE to == [at |-> "list", uri |-> window[latest].of, attempt |-> 1]
  <2>1. Goes(t, to) /\ task[t].at = "uri"
    BY <1>11 DEF Extract
  <2>2. RoundsOf(to) < RoundsOf(task[t])
    BY <2>1 DEF RoundsOf
  <2> HIDE DEF to
  <2>3. QED
    BY <1>1, <1>2, <1>6, <2>1, <2>2
<1>12. CASE ListAttachments(t) /\ ~Ends(t)
  <2> DEFINE place == IF Attached(t) THEN "again" ELSE "add"
             to == [task[t] EXCEPT !.at = place]
  <2>1. /\ Goes(t, to) /\ task[t].at \in {"list", "again"}
        /\ task[t].at = "again" => place = "add"
    BY <1>12 DEF ListAttachments
  <2>2. /\ task[t].attempt \in 1 .. 3
        /\ task[t] = [at |-> task[t].at, uri |-> task[t].uri, attempt |-> task[t].attempt]
    BY <1>2, <2>1, TaskAtPlace
  <2>3. place \in {"again", "add"}
    OBVIOUS
  <2>4. to.at = place /\ to.attempt = task[t].attempt
    <3> HIDE DEF place
    <3>1. QED
      BY <2>2
  <2> HIDE DEF place, to
  <2>5. RoundsOf(to) < RoundsOf(task[t])
    BY <2>1, <2>2, <2>3, <2>4 DEF RoundsOf
  <2>6. QED
    BY <1>1, <1>2, <1>6, <2>1, <2>5
<1>13. CASE AddAttachment(t) /\ ~Ends(t)
  <2> DEFINE next == task[t].attempt + 1
             to == [task[t] EXCEPT !.at = "list", !.attempt = next]
  <2>1. Goes(t, to) /\ task[t].at = "add" /\ task[t].attempt # 3
    BY <1>13 DEF AddAttachment
  <2>2. /\ task[t].attempt \in 1 .. 3
        /\ task[t] = [at |-> task[t].at, uri |-> task[t].uri, attempt |-> task[t].attempt]
    BY <1>2, <2>1, TaskAtPlace
  <2>3. to.at = "list" /\ to.attempt = task[t].attempt + 1
    BY <2>2
  <2> HIDE DEF next, to
  <2>4. RoundsOf(to) < RoundsOf(task[t])
    BY <2>1, <2>2, <2>3 DEF RoundsOf
  <2>5. QED
    BY <1>1, <1>2, <1>6, <2>1, <2>4
<1>14. CASE Rebuild(t) /\ ~Ends(t)
  <2>1. Goes(t, [at |-> "files"]) /\ task[t].at = "checks"
    BY <1>14 DEF Rebuild
  <2>2. RoundsOf([at |-> "files"]) < RoundsOf(task[t])
    BY <2>1 DEF RoundsOf
  <2>3. QED
    BY <1>1, <1>2, <1>6, <2>1, <2>2
<1>15. AddFiles(t) => Ends(t)
  BY DEF AddFiles
<1>16. CASE AwaitReady(t)
  <2>1. Goes(t, [at |-> "waiting", waits |-> latest]) /\ task[t].at = "cleared"
    BY <1>16 DEF AwaitReady
  <2>2. RoundsOf([at |-> "waiting", waits |-> latest]) < RoundsOf(task[t])
    BY <2>1 DEF RoundsOf
  <2>3. QED
    BY <1>1, <1>2, <1>6, <2>1, <2>2
<1>17. QED
  BY <1>5, <1>7, <1>8, <1>9, <1>10, <1>11, <1>12, <1>13, <1>14, <1>15, <1>16 DEF TaskStep
\* A window that is closed stays so.
LEMMA ClosedStays ==
  ASSUME FInv, [ForwardNext]_forwardVars, NEW t \in Tab, window[t].at = "closed"
  PROVE  window'[t].at = "closed"
<1>1. WindowsOK /\ t \notin Unused /\ window[t] \in ComposeWindow
  <2>1. t \notin Unused
    BY DEF Unused, NoWindow
  <2>2. QED
    BY <2>1, NoWindowIsNone DEF FInv, ForwardTypeOK
<1>2. CASE UNCHANGED window
  BY <1>2
<1>3. ASSUME NEW u \in Tab, u # t, \E w : window' = [window EXCEPT ![u] = w]
      PROVE  window'[t].at = "closed"
  BY <1>1, <1>3 DEF WindowsOK
<1>4. ASSUME NEW u \in Tab, NEW e, window' = [window EXCEPT ![u].envelope = e]
      PROVE  window'[t].at = "closed"
  BY <1>1, <1>4 DEF WindowsOK, ComposeWindow
<1>5. ASSUME NEW m \in Message, NEW v \in Tab, Redirect(m, v) \/ PlainForward(m, v) \/ Reply(m, v)
      PROVE  window'[t].at = "closed"
  <2>1. v # t /\ \E w : window' = [window EXCEPT ![v] = w]
    BY <1>1, <1>5 DEF Redirect, PlainForward, Reply, Opens
  <2>2. QED
    BY <1>3, <2>1
<1>6. ASSUME NEW u \in Tab,
             InitWindow(u) \/ BodyReady(u) \/ TabCreated(u) \/ Close(u) \/ EnvelopeArrives(u)
               \/ DropAttachment(u)
      PROVE  window'[t].at = "closed"
  <2>1. u # t
    BY <1>6 DEF InitWindow, BodyReady, TabCreated, Close, EnvelopeArrives, DropAttachment, Open
  <2>2. \E w : window' = [window EXCEPT ![u] = w]
    BY <1>6 DEF InitWindow, BodyReady, TabCreated, Close, EnvelopeArrives, DropAttachment
  <2>3. QED
    BY <1>3, <2>1, <2>2
<1>7. ASSUME NEW u \in Tab, RemoveAdded(u) \/ RemoveEnvelope(u)
      PROVE  window'[t].at = "closed"
  BY <1>2, <1>4, <1>7 DEF RemoveAdded, RemoveEnvelope
<1>8. ASSUME NEW u \in Tab, ClearRecipients(u) \/ AddAttachment(u)
      PROVE  window'[t].at = "closed"
  <2>1. UNCHANGED window \/ u # t
    BY <1>8 DEF ClearRecipients, AddAttachment, Open
  <2>2. UNCHANGED window \/ \E w : window' = [window EXCEPT ![u] = w]
    BY <1>8 DEF ClearRecipients, AddAttachment
  <2>3. QED
    BY <1>2, <1>3, <2>1, <2>2
<1>9. ASSUME NEW u \in Tab, AddFiles(u) PROVE window'[t].at = "closed"
  <2>1. CASE UNCHANGED window
    BY <1>2, <2>1
  <2>2. CASE ~ UNCHANGED window
    <3>1. PICK f : window' = [window EXCEPT ![u].files = f]
      BY <1>9, <2>2 DEF AddFiles
    <3>2. QED
      BY <1>1, <3>1 DEF WindowsOK, ComposeWindow
  <2>3. QED
    BY <2>1, <2>2
<1>10. ASSUME NEW u \in Tab, TaskStep(u) PROVE window'[t].at = "closed"
  <2>1. \/ UNCHANGED window
        \/ RemoveEnvelope(u) \/ ClearRecipients(u) \/ AddAttachment(u) \/ AddFiles(u)
    BY <1>10, Zenon DEF TaskStep, ReadDetails, TakeMarker, AwaitReady, ReadyOrTimeout, Extract,
       ListAttachments, Rebuild, EnvelopeRemoved
  <2>2. QED
    BY <1>2, <1>7, <1>8, <1>9, <2>1
<1>11. CASE Wake \/ Sleep \/ Background \/ UNCHANGED forwardVars
  BY <1>2, <1>11 DEF Wake, Sleep, Background, SetEnabled, ScanTabs, forwardVars
<1>12. ASSUME NEW u \in Tab, Sweep(u) PROVE window'[t].at = "closed"
  BY <1>2, <1>7, <1>12 DEF Sweep, EnvelopeRemoved
<1>13. QED
  BY <1>5, <1>6, <1>7, <1>10, <1>11, <1>12 DEF ForwardNext, SystemStep
\* What a step does to the tasks and to the tabs that are claimed.
LEMMA StepOfTasks ==
  ASSUME FInv, ClaimedWhileBusy, [ForwardNext]_forwardVars, NEW t \in Tab
  PROVE  /\ \/ task'[t] = task[t]
            \/ TaskStep(t)
            \/ task[t] = Idle /\ t \in claimed'
         /\ t \in claimed /\ task[t] # Idle => t \in claimed' \/ window'[t].at = "closed"
<1>1. BackgroundTypeOK /\ WindowsOK
  BY DEF FInv, ForwardTypeOK
<1>2. CASE UNCHANGED <<claimed, task>>
  BY <1>2
<1>3. ASSUME NEW tabs \in SUBSET Tab, Claim(tabs), \A u \in tabs : Open(u)
      PROVE  /\ task'[t] = task[t] \/ (task[t] = Idle /\ t \in claimed')
             /\ t \in claimed => t \in claimed'
  BY <1>1, <1>3, ClaimTyped DEF ClaimedWhileBusy
<1>4. CASE ScanTabs
  BY <1>2, <1>3, <1>4 DEF ScanTabs
<1>5. ASSUME NEW u \in Tab, TabCreated(u)
      PROVE  /\ task'[t] = task[t] \/ (task[t] = Idle /\ t \in claimed')
             /\ t \in claimed => t \in claimed'
  <2>1. Claim({u}) /\ {u} \in SUBSET Tab /\ \A v \in {u} : Open(v)
    BY <1>5 DEF TabCreated
  <2>2. QED
    BY <1>3, <2>1
<1>6. CASE Sleep
  BY <1>6 DEF Sleep
<1>7. ASSUME NEW u \in Tab, Close(u)
      PROVE  /\ task'[t] = task[t]
             /\ t \in claimed => t \in claimed' \/ window'[t].at = "closed"
  <2>1. task' = task /\ claimed' = claimed \ {u}
    BY <1>7 DEF Close
  <2>2. window'[u].at = "closed"
    BY <1>1, <1>7 DEF Close, WindowsOK, Window
  <2>3. QED
    BY <2>1, <2>2
<1>8. ASSUME NEW u \in Tab, TaskStep(u)
      PROVE  (task'[t] = task[t] \/ TaskStep(t)) /\ UNCHANGED claimed
  BY <1>8, TaskStepIs
<1>9. ASSUME NEW m \in Message, NEW u \in Tab, Redirect(m, u) \/ PlainForward(m, u) \/ Reply(m, u)
      PROVE  UNCHANGED <<claimed, task>>
  BY <1>9 DEF Redirect, PlainForward, Reply, backgroundVars
<1>10. ASSUME NEW u \in Tab,
              BodyReady(u) \/ EnvelopeArrives(u) \/ DropAttachment(u) \/ InitWindow(u)
                \/ RemoveAdded(u) \/ Sweep(u)
       PROVE  UNCHANGED <<claimed, task>>
  BY <1>10 DEF BodyReady, EnvelopeArrives, DropAttachment, InitWindow, RemoveAdded, Sweep,
     backgroundVars
<1>11. CASE Wake \/ SetEnabled \/ UNCHANGED forwardVars
  BY <1>2, <1>11 DEF Wake, SetEnabled, forwardVars, backgroundVars
<1>12. QED
  BY <1>2, <1>4, <1>5, <1>6, <1>7, <1>8, <1>9, <1>10, <1>11
     DEF ForwardNext, SystemStep, Background

\* A window that is not open, and has a task, is closed.
LEMMA BusyNotOpen ==
  ASSUME FInv, NEW t \in Tab, task[t] # Idle, ~Open(t)
  PROVE  window[t].at = "closed"
<1>1. window[t] \in ComposeWindow
  BY NoWindowIsNone DEF FInv, ForwardTypeOK, TasksOK, TaskOK
<1>2. QED
  BY <1>1 DEF ComposeWindow, Open

LEMMA TasksAdvance ==
  ASSUME FInv, ClaimedWhileBusy, [ForwardNext]_forwardVars
  PROVE  ClaimedWhileBusy' /\ TaskAdvances
<1>1. ASSUME NEW t \in Tab, Open(t)', task'[t] # Idle PROVE t \in claimed'
  <2>1. window'[t].at # "closed"
    BY <1>1 DEF Open
  <2>2. CASE task[t] = Idle
    BY <1>1, <2>2, StepOfTasks, TaskStepIs
  <2>3. CASE task[t] # Idle
    <3>1. Open(t)
      BY <2>1, <2>3, BusyNotOpen, ClosedStays
    <3>2. t \in claimed
      BY <2>3, <3>1 DEF ClaimedWhileBusy
    <3>3. QED
      BY <2>1, <2>3, <3>2, StepOfTasks
  <2>4. QED
    BY <2>2, <2>3
<1>2. TaskAdvances
  BY StepOfTasks, TaskStepIs DEF TaskAdvances
<1>3. QED
  BY <1>1, <1>2 DEF ClaimedWhileBusy

LEMMA TasksCanStep ==
  ASSUME FInv, NEW t \in Tab, task[t] # Idle
  PROVE  RoundsOf(task[t]) > 0 /\ RoundsOf(task[t]) <= 15 /\ TaskCanStep(t)
<1>1. task[t] \in Task /\ t \notin Unused
  BY DEF FInv, ForwardTypeOK, BackgroundTypeOK, TasksOK, TaskOK
<1>2. RoundsOf(task[t]) > 0 /\ RoundsOf(task[t]) <= 15
  BY <1>1, RoundsTyped
<1>3. task[t].at \in {"cleared", "uri"} => latest \in Redirected
  BY DEF FInv, MarksOK, AfterMark
<1>4. TaskCanStep(t)
  BY <1>1, <1>3, TaskAtPlace DEF TaskCanStep
<1>5. QED
  BY <1>2, <1>4

\* The work on a tab (processComposeTab) is not begun again while it goes on, is only changed by its
\* own steps, always finds what its next step reads, and is over after at most 15 of them, whatever
\* the user, Thunderbird and the work on other tabs do meanwhile.  With the fairness of the script's
\* steps this is why a forward that was redirected gets finished.
THEOREM TasksEnd ==
  ForwardSpec => []TasksOnTrack /\ []ClaimedWhileBusy /\ [][TaskAdvances]_forwardVars
<1>1. FInv => TasksOnTrack
  BY TasksCanStep DEF TasksOnTrack
<1>2. ForwardInit => ClaimedWhileBusy
  BY DEF ForwardInit, ClaimedWhileBusy
<1>3. FInv /\ ClaimedWhileBusy /\ [ForwardNext]_forwardVars => ClaimedWhileBusy' /\ TaskAdvances
  BY TasksAdvance
<1>4. QED
  BY <1>1, <1>2, <1>3, ForwardInvariant, PTL DEF ForwardSpec
=============================================================================
