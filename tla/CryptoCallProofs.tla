--------------------------- MODULE CryptoCallProofs ---------------------------
(***************************************************************************)
(* The functions of lib.rs do nothing to the Manager that its own calls    *)
(* could not, so what ManagerProofs shows holds under them too; and what   *)
(* they promise about buffers and parts, for any number of threads.        *)
(***************************************************************************)
EXTENDS CryptoCall, ManagerProofs

\* The threads do not share sessions.
OwnSessionsOnly == \A c, d \in Client : c # d => Uses[c] \cap Uses[d] = {}

CallState ==
  [at : {"idle"}]
  \cup [at : {"checked"}, kind : OpKind, session : SessionHandle, input : {Single, Final}, room : Nat]
Promise == [size : {0}] \cup [kind : OpKind, session : SessionHandle, size : Nat]

\* What the clients have been told to expect is what the manager has.
PartsOK ==
  /\ DOMAIN parts = OpKind
  /\ \A k \in OpKind :
       /\ parts[k] \in [DOMAIN ops[k] -> Seq(Byte)]
       /\ \A s \in DOMAIN ops[k] : parts[k][s] = ops[k][s].buffer

\* No assumption about who uses which session is needed for these.
CallTypes ==
  /\ call \in [Client -> CallState]
  /\ \A c \in Client : call[c] # Idle => call[c].session \in Uses[c]
SharedInv == IInv /\ CallTypes /\ PartsOK

\* The buffer that was checked is large enough for the operation that is still there, and so is
\* one of the length that was promised.
CheckedOK(c) ==
  call[c] # Idle =>
    /\ call[c].session \in DOMAIN ops[call[c].kind]
    /\ Needed(call[c].kind, call[c].session) <= call[c].room
PromiseOK(c) ==
  promised[c] # NoPromise =>
    LET p == promised[c]
    IN  /\ p.session \in Uses[c] /\ p.session \in DOMAIN ops[p.kind]
        /\ Needed(p.kind, p.session) = p.size

OInv ==
  /\ promised \in [Client -> Promise]
  /\ \A c \in Client : CheckedOK(c) /\ PromiseOK(c)
  /\ OutputFits

-----------------------------------------------------------------------------
(* The functions and the Manager. *)

\* Every step of a thread is one of a few, whatever function and kind of operation it belongs to.
StepOf(c) ==
  \/ C_OpenSession(c)
  \/ \E s \in Uses[c] : C_CloseSession(c, s)
  \/ \E k \in OpKind, s \in Uses[c] :
       \/ \E h \in DOMAIN objects : BeginOperation(c, k, s, h)
       \/ \E data \in Message : AddPart(c, k, s, data)
       \/ AskLength(c, k, s)
       \/ \E input \in {Single, Final}, room \in Room : CheckRoom(c, k, s, input, room)
  \/ WriteOutput(c)

LEMMA StepOfClient ==
  ASSUME NEW c \in Client, Function(c)
  PROVE  StepOf(c)
<1>1. CASE C_OpenSession(c) \/ (\E s \in Uses[c] : C_CloseSession(c, s)) \/ WriteOutput(c)
  BY <1>1 DEF StepOf
<1>2. CASE InitCall(c)
  BY <1>2 DEF InitCall, C_SignInit, C_DecryptInit, C_EncryptInit, OpKind, StepOf
<1>3. CASE UpdateCall(c)
  BY <1>3 DEF UpdateCall, C_SignUpdate, C_DecryptUpdate, C_EncryptUpdate, OpKind, StepOf
<1>4. CASE OutputCall(c)
  <2>1. PICK s \in Uses[c], k \in OpKind, input \in {Single, Final} : Output(c, k, s, input)
    BY <1>4 DEF OutputCall, C_Sign, C_Decrypt, C_Encrypt, C_SignFinal, C_DecryptFinal, C_EncryptFinal, OpKind
  <2>2. QED
    BY <2>1 DEF Output, StepOf
<1>5. QED
  BY <1>1, <1>2, <1>3, <1>4 DEF Function

\* The Manager's part of a function's step.
LEMMA CallsOfManager ==
  ASSUME NEW k \in OpKind, NEW s \in SessionHandle,
         \/ \E h \in 1 .. nextHandle, m \in Mechanism : StartOperation(k, s, h, m)
         \/ \E data \in Message : UpdateOperation(k, s, data)
         \/ MeasureOperation(k, s) \/ FinishOperation(k, s)
  PROVE  Next
<1>1. CASE k = "sign"
  BY <1>1 DEF Next, SignCall, StartSign, SignUpdate, GetSignatureLength, Sign
<1>2. CASE k = "decrypt"
  BY <1>2 DEF Next, DecryptCall, StartDecrypt, DecryptUpdate, GetDecryptedLength, Decrypt
<1>3. CASE k = "encrypt"
  BY <1>3 DEF Next, EncryptCall, StartEncrypt, EncryptUpdate, GetEncryptedLength, Encrypt
<1>4. QED
  BY <1>1, <1>2, <1>3 DEF OpKind

\* A step of the threads is a call of the Manager, or leaves the Manager alone.
LEMMA StepOfManager ==
  ASSUME IInv, CallTypes, [CryptoNext]_cryptoVars
  PROVE  [Next]_vars
<1>1. CASE UNCHANGED cryptoVars
  BY <1>1 DEF cryptoVars
<1>2. CASE Surroundings
  BY <1>2 DEF Surroundings, Next
<1>3. ASSUME NEW c \in Client, Function(c) PROVE Next
  <2>1. StepOf(c)
    BY <1>3, StepOfClient
  <2>2. Uses[c] \subseteq SessionHandle
    BY CryptoAssumption
  <2>3. CASE C_OpenSession(c) \/ \E s \in Uses[c] : C_CloseSession(c, s)
    BY <2>2, <2>3 DEF C_OpenSession, C_CloseSession, SessionCall, Next
  <2>4. ASSUME NEW k \in OpKind, NEW s \in Uses[c],
               \/ \E h \in DOMAIN objects : BeginOperation(c, k, s, h)
               \/ \E data \in Message : AddPart(c, k, s, data)
               \/ AskLength(c, k, s)
               \/ \E input \in {Single, Final}, room \in Room : CheckRoom(c, k, s, input, room)
        PROVE  Next
    <3>1. DOMAIN objects \subseteq 1 .. nextHandle
      BY DEF IInv, TableOK, IsMap
    <3>2. \/ \E h \in 1 .. nextHandle, m \in Mechanism : StartOperation(k, s, h, m)
          \/ \E data \in Message : UpdateOperation(k, s, data)
          \/ MeasureOperation(k, s)
      BY <2>4, <3>1 DEF BeginOperation, AddPart, AskLength, CheckRoom
    <3>3. QED
      BY <2>2, <3>2, CallsOfManager
  <2>5. CASE WriteOutput(c)
    <3>1. call[c] # Idle /\ FinishOperation(call[c].kind, call[c].session)
      BY <2>5 DEF WriteOutput
    <3>2. call[c].kind \in OpKind /\ call[c].session \in SessionHandle
      BY <3>1 DEF CallTypes, CallState, Idle
    <3>3. QED
      BY <3>1, <3>2, CallsOfManager
  <2>6. QED
    BY <2>1, <2>3, <2>4, <2>5 DEF StepOf
<1>4. QED
  BY <1>1, <1>2, <1>3 DEF CryptoNext

-----------------------------------------------------------------------------
(* What holds whoever uses which session. *)

\* Nothing is pending and nothing has been accepted at first.
LEMMA InitShared == CryptoInit => SharedInv
<1> SUFFICES ASSUME CryptoInit PROVE SharedInv
  OBVIOUS
<1>1. IInv
  BY InitEstablishesIInv DEF CryptoInit
<1>2. CallTypes
  BY DEF CryptoInit, CallTypes, CallState, Idle
<1>3. PartsOK
  BY DEF CryptoInit, PartsOK, Init, NoEntries
<1>4. QED
  BY <1>1, <1>2, <1>3 DEF SharedInv

\* A call is between its halves under one of its thread's sessions.
LEMMA StepKeepsCalls ==
  ASSUME CallTypes, NEW c \in Client, StepOf(c)
  PROVE  CallTypes'
<1>2. CASE UNCHANGED call
  BY <1>2 DEF CallTypes
<1>3. CASE call' = [call EXCEPT ![c] = Idle]
  BY <1>3 DEF CallTypes, CallState, Idle
<1>4. CASE \E k \in OpKind, s \in Uses[c], input \in {Single, Final}, room \in Room :
             call' = [call EXCEPT ![c] = [at |-> "checked", kind |-> k, session |-> s,
                                          input |-> input, room |-> room]]
  <2>1. PICK k \in OpKind, s \in Uses[c], input \in {Single, Final}, room \in Room :
          call' = [call EXCEPT ![c] = [at |-> "checked", kind |-> k, session |-> s,
                                       input |-> input, room |-> room]]
    BY <1>4
  <2>2. s \in SessionHandle /\ room \in Nat
    BY CryptoAssumption
  <2> DEFINE new == [at |-> "checked", kind |-> k, session |-> s, input |-> input, room |-> room]
  <2>3. new \in CallState /\ new.session = s
    BY <2>2 DEF CallState
  <2> HIDE DEF new
  <2>4. QED
    BY <2>1, <2>3 DEF CallTypes, new
<1>5. QED
  BY <1>2, <1>3, <1>4
     DEF StepOf, C_OpenSession, C_CloseSession, BeginOperation, AddPart, AskLength, CheckRoom, WriteOutput
\* Every function keeps the accepted parts of an operation equal to its buffer.
LEMMA StepKeepsParts ==
  ASSUME SharedInv, NEW c \in Client, StepOf(c)
  PROVE  PartsOK'
<1> USE DEF SharedInv
<1>0. /\ DOMAIN parts = OpKind /\ DOMAIN ops = OpKind
      /\ \A k \in OpKind : DOMAIN parts[k] = DOMAIN ops[k]
      /\ \A k \in OpKind : \A s \in DOMAIN ops[k] :
           parts[k][s] = ops[k][s].buffer /\ ops[k][s] \in Op
  BY DEF PartsOK, IInv, OpsOK, OpOK
<1>2. CASE UNCHANGED <<ops, parts>>
  BY <1>2 DEF PartsOK
<1>3. ASSUME NEW s, ops' = [k \in OpKind |-> Drop(ops[k], s)],
             parts' = [k \in OpKind |-> Drop(parts[k], s)]
      PROVE  PartsOK'
  BY <1>0, <1>3 DEF PartsOK, Drop, Op
<1>4. ASSUME NEW k \in OpKind, NEW s, NEW op \in Op,
             ops' = [ops EXCEPT ![k] = Put(ops[k], s, op)],
             parts' = [parts EXCEPT ![k] = Put(@, s, op.buffer)]
      PROVE  PartsOK'
  <2>1. DOMAIN parts' = OpKind
    BY <1>0, <1>4
  <2>2. op.buffer \in Seq(Byte)
    BY DEF Op
  <2>3. ASSUME NEW j \in OpKind
        PROVE  /\ parts'[j] \in [DOMAIN ops'[j] -> Seq(Byte)]
               /\ \A x \in DOMAIN ops'[j] : parts'[j][x] = ops'[j][x].buffer
    <3>1. CASE j = k
      <4>1. ops'[j] = Put(ops[j], s, op) /\ parts'[j] = Put(parts[j], s, op.buffer)
        BY <1>0, <1>4, <3>1
      <4>2. QED
        BY <4>1, <1>0, <2>2 DEF Put, Op
    <3>2. CASE j # k
      <4>1. ops'[j] = ops[j] /\ parts'[j] = parts[j]
        BY <1>0, <1>4, <3>2
      <4>2. QED
        BY <4>1 DEF PartsOK
    <3>3. QED
      BY <3>1, <3>2
  <2>4. QED
    BY <2>1, <2>3 DEF PartsOK
<1>5. ASSUME NEW k \in OpKind, NEW s, FinishOperation(k, s),
             parts' = [parts EXCEPT ![k] = Drop(@, s)]
      PROVE  PartsOK'
  <2>1. DOMAIN parts' = OpKind
    BY <1>0, <1>5
  <2>2. ASSUME NEW j \in OpKind
        PROVE  /\ parts'[j] \in [DOMAIN ops'[j] -> Seq(Byte)]
               /\ \A x \in DOMAIN ops'[j] : parts'[j][x] = ops'[j][x].buffer
    <3>1. CASE j = k /\ ops' = [ops EXCEPT ![k] = Drop(ops[k], s)]
      <4>1. ops'[j] = Drop(ops[j], s) /\ parts'[j] = Drop(parts[j], s)
        BY <1>0, <1>5, <3>1
      <4>2. QED
        BY <4>1, <1>0 DEF Drop, Op
    <3>2. CASE j = k /\ s \notin DOMAIN ops[k] /\ ops' = ops
      <4>1. ops'[j] = ops[j] /\ parts'[j] = Drop(parts[j], s) /\ DOMAIN parts[j] = DOMAIN ops[j]
        BY <1>0, <1>5, <3>2
      <4>2. QED
        BY <4>1, <3>2, <1>0 DEF Drop, Op
    <3>3. CASE j # k
      <4>1. ops'[j] = ops[j] /\ parts'[j] = parts[j]
        BY <1>0, <1>5, <3>3 DEF FinishOperation, Refuse, work
      <4>2. QED
        BY <4>1 DEF PartsOK
    <3>4. QED
      BY <1>5, <3>1, <3>2, <3>3 DEF FinishOperation, Refuse, work
  <2>3. QED
    BY <2>1, <2>2 DEF PartsOK
<1>6. CASE C_OpenSession(c)
  BY <1>2, <1>6 DEF C_OpenSession, OpenSession
<1>7. ASSUME NEW s \in Uses[c], C_CloseSession(c, s) PROVE PartsOK'
  BY <1>2, <1>3, <1>7 DEF C_CloseSession, CloseSession, work
<1>8. ASSUME NEW k \in OpKind, NEW s \in Uses[c], NEW h \in DOMAIN objects, BeginOperation(c, k, s, h)
      PROVE  PartsOK'
  <2>1. PICK m \in Mechanism : StartOperation(k, s, h, m)
    BY <1>8 DEF BeginOperation
  <2>2. CASE Refuse("OperationFailed") \/ Refuse("InvalidKey")
    BY <1>2, <1>8, <2>2 DEF BeginOperation, Refuse, work
  <2>3. CASE SetOp(k, s, [key |-> h, mech |-> m, buffer |-> <<>>]) /\ result' = "ok"
    <3> DEFINE op == [key |-> h, mech |-> m, buffer |-> <<>>]
    <3>1. op \in Op
      <4>1. h \in Nat
        BY DEF IInv, TableOK, IsMap
      <4>2. <<>> \in Seq(Byte)
        OBVIOUS
      <4>3. QED
        BY <4>1, <4>2 DEF Op
    <3>2. parts' = [parts EXCEPT ![k] = Put(@, s, op.buffer)]
      BY <1>8, <2>3 DEF BeginOperation
    <3>3. ops' = [ops EXCEPT ![k] = Put(ops[k], s, op)]
      BY <2>3 DEF SetOp
    <3> HIDE DEF op
    <3>4. QED
      BY <1>4, <3>1, <3>2, <3>3
  <2>4. QED
    BY <2>1, <2>2, <2>3 DEF StartOperation
<1>9. ASSUME NEW k \in OpKind, NEW s \in Uses[c], NEW data \in Message, AddPart(c, k, s, data)
      PROVE  PartsOK'
  <2>1. CASE Refuse("OperationFailed") \/ Refuse("DataTooLarge")
    BY <1>2, <1>9, <2>1 DEF AddPart, Refuse, work
  <2>2. CASE s \in DOMAIN ops[k] /\ SetOp(k, s, [ops[k][s] EXCEPT !.buffer = @ \o data]) /\ result' = "ok"
    <3> DEFINE op == [ops[k][s] EXCEPT !.buffer = @ \o data]
    <3>1. op \in Op /\ op.buffer = parts[k][s] \o data
      <4>1. ops[k][s] \in Op /\ parts[k][s] = ops[k][s].buffer
        BY <1>0, <2>2
      <4>2. data \in Seq(Byte)
        BY ManagerAssumption
      <4>3. ops[k][s].buffer \o data \in Seq(Byte)
        BY <4>1, <4>2 DEF Op
      <4>4. op \in Op /\ op.buffer = ops[k][s].buffer \o data
        BY <4>1, <4>3 DEF Op
      <4> HIDE DEF op
      <4>5. QED
        BY <4>1, <4>4
    <3>2. parts' = [parts EXCEPT ![k] = Put(@, s, op.buffer)]
      <4>1. parts' = [parts EXCEPT ![k] = [parts[k] EXCEPT ![s] = @ \o data]]
        BY <1>9, <2>2 DEF AddPart
      <4>2. s \in DOMAIN parts[k] /\ parts[k] \in [DOMAIN ops[k] -> Seq(Byte)]
        BY <1>0, <2>2 DEF PartsOK
      <4>3. [parts[k] EXCEPT ![s] = @ \o data] = Put(parts[k], s, op.buffer)
        <5> HIDE DEF op
        <5>1. DOMAIN parts[k] \cup {s} = DOMAIN parts[k]
          BY <4>2
        <5>2. QED
          BY <3>1, <4>2, <5>1 DEF Put
      <4>4. QED
        BY <4>1, <4>3, <1>0
    <3>3. ops' = [ops EXCEPT ![k] = Put(ops[k], s, op)]
      BY <2>2 DEF SetOp
    <3> HIDE DEF op
    <3>4. QED
      BY <1>4, <3>1, <3>2, <3>3
  <2>3. QED
    BY <1>9, <2>1, <2>2 DEF AddPart, UpdateOperation
<1>10. ASSUME NEW k \in OpKind, NEW s \in Uses[c],
              AskLength(c, k, s) \/ \E input \in {Single, Final}, room \in Room : CheckRoom(c, k, s, input, room)
       PROVE  PartsOK'
  BY <1>2, <1>10 DEF AskLength, CheckRoom, MeasureOperation, Refuse, work
<1>11. CASE WriteOutput(c)
  <2>1. call[c].kind \in OpKind
    BY <1>11 DEF WriteOutput, CallTypes, CallState, Idle
  <2>2. QED
    BY <1>5, <1>11, <2>1 DEF WriteOutput
<1>12. QED
  BY <1>6, <1>7, <1>8, <1>9, <1>10, <1>11 DEF StepOf

\* Together: one step, with the handles it keeps.
LEMMA StepKeepsShared == SharedInv /\ [CryptoNext]_cryptoVars => SharedInv' /\ Extended
<1> SUFFICES ASSUME SharedInv, [CryptoNext]_cryptoVars PROVE SharedInv' /\ Extended
  OBVIOUS
<1>1. IInv' /\ Extended
  BY StepOfManager, StepKeepsIInv DEF SharedInv
<1>2. ASSUME NEW c \in Client, Function(c) PROVE SharedInv'
  BY <1>1, <1>2, StepOfClient, StepKeepsCalls, StepKeepsParts DEF SharedInv
<1>3. CASE Surroundings
  BY <1>1, <1>3 DEF Surroundings, Environment, Tick, ChangeStore, work, SharedInv, CallTypes, PartsOK
<1>4. CASE UNCHANGED cryptoVars
  BY <1>1, <1>4 DEF cryptoVars, vars, SharedInv, CallTypes, PartsOK
<1>5. QED
  BY <1>1, <1>2, <1>3, <1>4 DEF CryptoNext

\* The invariant of the threads and the Manager together.
LEMMA SharedHolds == CryptoSpec => []SharedInv
<1>1. CryptoInit => SharedInv
  BY InitShared
<1>2. SharedInv /\ [CryptoNext]_cryptoVars => SharedInv'
  BY StepKeepsShared
<1>3. QED
  BY <1>1, <1>2, PTL DEF CryptoSpec

\* The functions of lib.rs, in whatever order the threads call them, are calls of the Manager:
\* every property proved of its own specification holds of the threads' as well.
THEOREM CryptoImplementsManager == CryptoSpec => Spec
<1>1. CryptoInit => Init
  BY DEF CryptoInit
<1>2. SharedInv /\ [CryptoNext]_cryptoVars => [Next]_vars
  BY StepOfManager DEF SharedInv
<1>3. QED
  BY <1>1, <1>2, SharedHolds, PTL DEF CryptoSpec, Spec

\* A call that was between its halves is over because its own thread made the second one.
LEMMA OnlyWriteOutputEnds ==
  ASSUME CallTypes, CryptoNext, NEW c \in Client, call[c] # Idle, call'[c] = Idle
  PROVE  WriteOutput(c)
<1>1. call \in [Client -> CallState]
  BY DEF CallTypes
<1>2. ~Surroundings
  BY DEF Surroundings
<1>3. PICK d \in Client : StepOf(d)
  BY <1>2, StepOfClient DEF CryptoNext
<1>4. ASSUME NEW k \in OpKind, NEW s \in Uses[d], NEW input \in {Single, Final}, NEW room \in Room,
             CheckRoom(d, k, s, input, room)
      PROVE  FALSE
  <2>1. CASE UNCHANGED call
    BY <2>1
  <2>2. CASE call' = [call EXCEPT ![d] = [at |-> "checked", kind |-> k, session |-> s,
                                          input |-> input, room |-> room]] /\ call[d] = Idle
    BY <1>1, <2>2
  <2>3. QED
    BY <1>4, <2>1, <2>2 DEF CheckRoom
<1>5. WriteOutput(d)
  BY <1>3, <1>4 DEF StepOf, C_OpenSession, C_CloseSession, BeginOperation, AddPart, AskLength
<1>6. QED
  BY <1>1, <1>5 DEF WriteOutput

\* What a refused or failed call of the Manager becomes is never CKR_OK.
LEMMA FailureIsNotOK ==
  ASSUME NEW size,
         result' \in {"OperationFailed", "InvalidKey", "BackendError"},
         \E code \in Codes[result'] : Fails(code, size)
  PROVE  last'.code # "OK"
<1>1. PICK code \in Codes[result'] : Fails(code, size)
  OBVIOUS
<1>2. Codes[result'] \subseteq {OtherCode, "BUFFER_TOO_SMALL"}
  BY DEF Codes
<1>3. code # "OK"
  BY <1>2 DEF OtherCode
<1>4. last'.code = code
  BY <1>1 DEF Fails
<1>5. QED
  BY <1>3, <1>4

LEMMA OutcomeOfMeasure ==
  ASSUME NEW k, NEW s, MeasureOperation(k, s)
  PROVE  result' \in {"ok", "OperationFailed", "InvalidKey", "BackendError"}
BY DEF MeasureOperation, Refuse

LEMMA OutcomeOfFinish ==
  ASSUME NEW k, NEW s, FinishOperation(k, s)
  PROVE  result' \in {"ok", "OperationFailed", "InvalidKey", "BackendError"}
<1>1. CASE s \notin DOMAIN ops[k] /\ Refuse("OperationFailed")
  BY <1>1 DEF Refuse
<1>2. CASE IF Resolves(k, ops[k][s].key) THEN result' \in {"ok", "BackendError"}
                                        ELSE result' = "InvalidKey"
  BY <1>2
<1>3. QED
  BY <1>1, <1>2 DEF FinishOperation

\* The output of a multipart operation is made from the parts accepted since its Init call, in
\* order, even when several threads work on the same session.
THEOREM FinalsCoverParts == CryptoSpec => FinalCoversParts
<1> DEFINE Covers == \A c \in Client :
                        (call[c] # Idle /\ call'[c] = Idle /\ last'.code = "OK" /\ last'.input.form = "final")
                        => last'.input.data = parts[call[c].kind][call[c].session]
<1>1. SharedInv /\ [CryptoNext]_cryptoVars => [Covers]_cryptoVars
  <2> SUFFICES ASSUME SharedInv, CryptoNext, NEW c \in Client,
                      call[c] # Idle, call'[c] = Idle, last'.code = "OK", last'.input.form = "final"
               PROVE  last'.input.data = parts[call[c].kind][call[c].session]
    OBVIOUS
  <2>2. WriteOutput(c)
    BY OnlyWriteOutputEnds DEF SharedInv
  <2> DEFINE k == call[c].kind  s == call[c].session
  <2>3. k \in OpKind
    BY <2>2 DEF WriteOutput, SharedInv, CallTypes, CallState, Idle
  <2>4. /\ result' = "ok"
        /\ last'.input = Input(k, s, call[c].input)
    <3>1. FinishOperation(k, s)
      BY <2>2 DEF WriteOutput
    <3>2. CASE result' # "ok" /\ \E code \in Codes[result'] : Fails(code, NotWritten)
      BY <3>1, <3>2, OutcomeOfFinish, FailureIsNotOK
    <3>3. CASE /\ result' = "ok"
               /\ \E size \in Produced(k, s) : Writes(size, call[c].room, Input(k, s, call[c].input))
      BY <3>3 DEF Writes
    <3>4. QED
      BY <2>2, <3>2, <3>3 DEF WriteOutput
  <2>5. s \in DOMAIN ops[k]
    BY <2>2, <2>4 DEF WriteOutput, FinishOperation, Refuse
  <2>6. last'.input.data = ops[k][s].buffer
    BY <2>4 DEF Input, Single
  <2>7. QED
    BY <2>3, <2>4, <2>5, <2>6 DEF SharedInv, PartsOK
<1>2. QED
  BY <1>1, SharedHolds, PTL DEF CryptoSpec, FinalCoversParts
-----------------------------------------------------------------------------
(* What holds when the threads keep to sessions of their own. *)

\* Under every session but s, the pending operations are what they were.
OnlyUnder(s) ==
  \A k \in OpKind : \A x \in SessionHandle \ {s} :
    /\ x \in DOMAIN ops'[k] <=> x \in DOMAIN ops[k]
    /\ x \in DOMAIN ops[k] => ops'[k][x] = ops[k][x]

\* The shapes in which a call changes the pending operations touch one session each.
LEMMA ChangedUnderOne ==
  ASSUME IInv, NEW k \in OpKind, NEW s \in SessionHandle,
         \/ UNCHANGED ops
         \/ \E op : ops' = [ops EXCEPT ![k] = Put(ops[k], s, op)]
         \/ ops' = [ops EXCEPT ![k] = Drop(ops[k], s)]
         \/ ops' = [j \in OpKind |-> Drop(ops[j], s)]
  PROVE  OnlyUnder(s)
<1>1. DOMAIN ops = OpKind
  BY DEF IInv, OpsOK
<1>2. CASE UNCHANGED ops
  BY <1>2 DEF OnlyUnder
<1>3. ASSUME NEW op, ops' = [ops EXCEPT ![k] = Put(ops[k], s, op)] PROVE OnlyUnder(s)
  BY <1>1, <1>3 DEF OnlyUnder, Put
<1>4. CASE ops' = [ops EXCEPT ![k] = Drop(ops[k], s)]
  BY <1>1, <1>4 DEF OnlyUnder, Drop
<1>5. CASE ops' = [j \in OpKind |-> Drop(ops[j], s)]
  BY <1>5 DEF OnlyUnder, Drop
<1>6. QED
  BY <1>2, <1>3, <1>4, <1>5

\* What a step of thread c leaves alone.
Leaves(c) ==
  \A d \in Client \ {c} :
    /\ call'[d] = call[d] /\ promised'[d] = promised[d]
    /\ \A k \in OpKind, s \in Uses[d] :
         /\ s \in DOMAIN ops'[k] <=> s \in DOMAIN ops[k]
         /\ s \in DOMAIN ops[k] => ops'[k][s] = ops[k][s]

\* No call of a thread touches what another thread holds, sessions being separate.
LEMMA StepLeavesOthers ==
  ASSUME OwnSessionsOnly, SharedInv, promised \in [Client -> Promise], NEW c \in Client, StepOf(c)
  PROVE  Leaves(c)
<1>1. \A d \in Client \ {c} : call'[d] = call[d]
  <2>1. call \in [Client -> CallState]
    BY DEF SharedInv, CallTypes
  <2>2. \/ UNCHANGED call
        \/ \E new : call' = [call EXCEPT ![c] = new]
    BY DEF StepOf, C_OpenSession, C_CloseSession, BeginOperation, AddPart, AskLength, CheckRoom,
           WriteOutput
  <2>3. QED
    BY <2>1, <2>2
<1>2. \A d \in Client \ {c} : promised'[d] = promised[d]
  <2>1. \/ UNCHANGED promised
        \/ \E new : promised' = [promised EXCEPT ![c] = new]
    BY DEF StepOf, C_OpenSession, C_CloseSession, BeginOperation, AddPart, AskLength, CheckRoom,
           WriteOutput, Forget
  <2>2. QED
    BY <2>1
<1>4. UNCHANGED ops \/ \E s \in Uses[c] : OnlyUnder(s)
  <2>0. IInv /\ Uses[c] \subseteq SessionHandle
    BY CryptoAssumption DEF SharedInv
  <2>1. CASE C_OpenSession(c)
    BY <2>1 DEF C_OpenSession, OpenSession
  <2>2. ASSUME NEW s \in Uses[c], C_CloseSession(c, s) PROVE UNCHANGED ops \/ OnlyUnder(s)
    <3>1. UNCHANGED ops \/ ops' = [j \in OpKind |-> Drop(ops[j], s)]
      BY <2>2 DEF C_CloseSession, CloseSession, work
    <3>2. "sign" \in OpKind
      BY DEF OpKind
    <3>3. QED
      BY <2>0, <3>1, <3>2, ChangedUnderOne
  <2>3. ASSUME NEW k \in OpKind, NEW s \in Uses[c],
               \/ \E h \in DOMAIN objects : BeginOperation(c, k, s, h)
               \/ \E data \in Message : AddPart(c, k, s, data)
               \/ AskLength(c, k, s)
               \/ \E input \in {Single, Final}, room \in Room : CheckRoom(c, k, s, input, room)
        PROVE  OnlyUnder(s)
    <3>1. UNCHANGED ops \/ \E op : ops' = [ops EXCEPT ![k] = Put(ops[k], s, op)]
      BY <2>3 DEF BeginOperation, AddPart, AskLength, CheckRoom, StartOperation, UpdateOperation,
                  MeasureOperation, SetOp, Refuse, work
    <3>2. QED
      BY <2>0, <3>1, ChangedUnderOne
  <2>4. CASE WriteOutput(c)
    <3>1. call[c].kind \in OpKind /\ call[c].session \in Uses[c]
      BY <2>4 DEF WriteOutput, SharedInv, CallTypes, CallState, Idle
    <3>2. UNCHANGED ops \/ ops' = [ops EXCEPT ![call[c].kind] = Drop(ops[call[c].kind], call[c].session)]
      BY <2>4 DEF WriteOutput, FinishOperation, Refuse, work
    <3>3. OnlyUnder(call[c].session)
      BY <2>0, <3>1, <3>2, ChangedUnderOne
    <3>4. QED
      BY <3>1, <3>3
  <2>5. QED
    BY <2>1, <2>2, <2>3, <2>4 DEF StepOf
<1>5. ASSUME NEW d \in Client \ {c}, NEW k \in OpKind, NEW s \in Uses[d]
      PROVE  /\ s \in DOMAIN ops'[k] <=> s \in DOMAIN ops[k]
             /\ s \in DOMAIN ops[k] => ops'[k][s] = ops[k][s]
  <2>1. s \in SessionHandle /\ s \notin Uses[c]
    BY CryptoAssumption DEF OwnSessionsOnly
  <2>2. QED
    BY <1>4, <2>1 DEF OnlyUnder
<1>6. QED
  BY <1>1, <1>2, <1>5 DEF Leaves

\* A handle keeps its object, so the length of an operation that goes on stays what it was.
LEMMA NeededKept ==
  ASSUME IInv, Extended, NEW k \in OpKind, NEW s \in DOMAIN ops[k], ops'[k][s] = ops[k][s]
  PROVE  Needed(k, s)' = Needed(k, s)
<1>1. ops[k][s].key \in DOMAIN objects
  BY DEF IInv, OpsOK, OpOK, Resolves
<1>2. QED
  BY <1>1 DEF Needed, Extended

\* The length of a pending operation is that of a key in the table.
LEMMA NeededIsPositive ==
  ASSUME IInv, NEW k \in OpKind, NEW s \in DOMAIN ops[k]
  PROVE  Needed(k, s) \in Nat \ {0}
<1>1. ops[k][s].key \in DOMAIN objects
  BY DEF IInv, OpsOK, OpOK, Resolves
<1>2. objects[ops[k][s].key] \in Object
  BY <1>1 DEF IInv, TableOK, IsMap
<1>3. QED
  BY <1>2, CryptoAssumption DEF Needed, Object

\* What a thread has checked or been promised survives a step that leaves its part alone.
LEMMA OpsKeptKeepOwn ==
  ASSUME SharedInv, Extended, NEW d \in Client,
         promised \in [Client -> Promise], CheckedOK(d), PromiseOK(d),
         call'[d] = call[d], promised'[d] = promised[d],
         \A k \in OpKind, s \in Uses[d] :
           s \in DOMAIN ops[k] => s \in DOMAIN ops'[k] /\ ops'[k][s] = ops[k][s]
  PROVE  CheckedOK(d)' /\ PromiseOK(d)'
<1>1. ASSUME NEW k \in OpKind, NEW s \in Uses[d], s \in DOMAIN ops[k]
      PROVE  s \in DOMAIN ops'[k] /\ Needed(k, s)' = Needed(k, s)
  BY <1>1, NeededKept DEF SharedInv
<1>2. CheckedOK(d)'
  <2>1. CASE call[d] = Idle
    BY <2>1 DEF CheckedOK, Idle
  <2>2. CASE call[d] # Idle
    <3>1. PICK k \in OpKind, s \in Uses[d] : k = call[d].kind /\ s = call[d].session
      BY <2>2 DEF SharedInv, CallTypes, CallState, Idle
    <3>2. s \in DOMAIN ops[k] /\ Needed(k, s) <= call[d].room
      BY <2>2, <3>1 DEF CheckedOK
    <3>3. s \in DOMAIN ops'[k] /\ Needed(k, s)' <= call[d].room
      BY <1>1, <3>2
    <3>4. QED
      BY <3>1, <3>3 DEF CheckedOK, Needed
  <2>3. QED
    BY <2>1, <2>2
<1>3. PromiseOK(d)'
  <2>1. CASE promised[d] = NoPromise
    BY <2>1 DEF PromiseOK, NoPromise
  <2>2. CASE promised[d] # NoPromise
    <3>1. PICK k \in OpKind, s \in Uses[d] : k = promised[d].kind /\ s = promised[d].session
      BY <2>2 DEF PromiseOK, Promise, NoPromise
    <3>2. s \in DOMAIN ops[k] /\ Needed(k, s) = promised[d].size
      BY <2>2, <3>1 DEF PromiseOK
    <3>3. s \in DOMAIN ops'[k] /\ Needed(k, s)' = promised[d].size
      BY <1>1, <3>2
    <3>4. QED
      BY <3>1, <3>3 DEF PromiseOK, Needed
  <2>3. QED
    BY <2>1, <2>2
<1>4. QED
  BY <1>2, <1>3

LEMMA OthersKeepTheirs ==
  ASSUME SharedInv, Extended, NEW c \in Client, Leaves(c), NEW d \in Client \ {c},
         promised \in [Client -> Promise], CheckedOK(d), PromiseOK(d)
  PROVE  CheckedOK(d)' /\ PromiseOK(d)'
BY OpsKeptKeepOwn DEF Leaves

\* The first half of a call with output: what it checked or promised holds now.
LEMMA CheckRoomKeepsOwn ==
  ASSUME SharedInv, Extended, NEW c \in Client, promised \in [Client -> Promise], PromiseOK(c),
         NEW k \in OpKind, NEW s \in Uses[c], NEW input \in {Single, Final}, NEW room \in Room,
         CheckRoom(c, k, s, input, room), OutputFits
  PROVE  promised' \in [Client -> Promise] /\ CheckedOK(c)' /\ PromiseOK(c)' /\ OutputFits'
<1>0. call \in [Client -> CallState] /\ call[c] = Idle /\ room \in Nat /\ s \in SessionHandle
  BY CryptoAssumption DEF SharedInv, CallTypes, CheckRoom
<1>1. UNCHANGED ops
  BY DEF CheckRoom, MeasureOperation, Refuse, work
<1>2. ASSUME s \in DOMAIN ops[k]
      PROVE  Needed(k, s) \in Nat \ {0} /\ Needed(k, s)' = Needed(k, s)
  BY <1>1, <1>2, NeededKept, NeededIsPositive DEF SharedInv
<1>3. CASE /\ \E code \in Codes[result'] : Fails(code, NotWritten)
           /\ result' # "ok" /\ Forget(c) /\ UNCHANGED call
  <2>1. promised' \in [Client -> Promise] /\ promised'[c] = NoPromise
    BY <1>3 DEF Forget, Promise, NoPromise
  <2>2. last'.code # "OK"
    BY <1>3, OutcomeOfMeasure, FailureIsNotOK DEF CheckRoom
  <2>3. QED
    BY <1>0, <1>3, <2>1, <2>2 DEF CheckedOK, PromiseOK, OutputFits, Idle, NoPromise
<1>4. CASE /\ result' = "ok" /\ Needed(k, s) > room
           /\ Fails("BUFFER_TOO_SMALL", Needed(k, s))
           /\ promised' = [promised EXCEPT ![c] = [kind |-> k, session |-> s, size |-> Needed(k, s)]]
           /\ UNCHANGED call
  <2>1. s \in DOMAIN ops[k]
    BY <1>4 DEF CheckRoom, MeasureOperation, Refuse
  <2> DEFINE size == Needed(k, s)
             p == [kind |-> k, session |-> s, size |-> size]
  <2>2. size \in Nat /\ Needed(k, s)' = size
    BY <1>2, <2>1
  <2>3. p \in Promise /\ p.kind = k /\ p.session = s /\ p.size = size
    BY <1>0, <2>2 DEF Promise
  <2>4. last'.code = "BUFFER_TOO_SMALL"
    BY <1>4 DEF Fails
  <2>5. promised'[c] = p /\ promised' \in [Client -> Promise]
    BY <1>4, <2>3
  <2>6. OutputFits' /\ CheckedOK(c)'
    BY <1>0, <1>4, <2>4 DEF OutputFits, CheckedOK, Idle
  <2> HIDE DEF p, size
  <2>8. PromiseOK(c)'
    BY <1>1, <2>1, <2>2, <2>3, <2>5 DEF PromiseOK, Needed
  <2>9. QED
    BY <2>5, <2>6, <2>8
<1>5. CASE /\ result' = "ok" /\ Needed(k, s) <= room
           /\ call' = [call EXCEPT ![c] = [at |-> "checked", kind |-> k, session |-> s,
                                           input |-> input, room |-> room]]
           /\ UNCHANGED <<last, promised>>
  <2>1. s \in DOMAIN ops[k]
    BY <1>5 DEF CheckRoom, MeasureOperation, Refuse
  <2>2. call'[c].kind = k /\ call'[c].session = s /\ call'[c].room = room
    BY <1>0, <1>5
  <2>3. CheckedOK(c)'
    BY <1>1, <1>2, <1>5, <2>1, <2>2 DEF CheckedOK, Needed
  <2>4. PromiseOK(c)'
    <3>1. CASE promised[c] = NoPromise
      BY <1>5, <3>1 DEF PromiseOK, NoPromise
    <3>2. CASE promised[c] # NoPromise
      <4>1. PICK j \in OpKind, x \in Uses[c] : j = promised[c].kind /\ x = promised[c].session
        BY <3>2 DEF PromiseOK, Promise, NoPromise
      <4>2. x \in DOMAIN ops[j] /\ Needed(j, x) = promised[c].size
        BY <3>2, <4>1 DEF PromiseOK
      <4>3. Needed(j, x)' = promised[c].size
        BY <1>1, <4>2, NeededKept DEF SharedInv
      <4>4. QED
        BY <1>1, <1>5, <3>2, <4>1, <4>2, <4>3 DEF PromiseOK, Needed
    <3>3. QED
      BY <3>1, <3>2
  <2>5. QED
    BY <1>5, <2>3, <2>4 DEF OutputFits
<1>6. QED
  BY <1>3, <1>4, <1>5 DEF CheckRoom

\* The second half: the operation that was checked is the one that makes the output.
LEMMA WriteOutputFits ==
  ASSUME SharedInv, NEW c \in Client, CheckedOK(c), WriteOutput(c)
  PROVE  OutputFits'
<1>1. PICK k \in OpKind, s \in SessionHandle : k = call[c].kind /\ s = call[c].session
  BY DEF WriteOutput, SharedInv, CallTypes, CallState, Idle
<1>2. s \in DOMAIN ops[k] /\ Needed(k, s) <= call[c].room /\ call[c].room \in Nat
  BY <1>1 DEF WriteOutput, CheckedOK, SharedInv, CallTypes, CallState, Idle
<1>3. Needed(k, s) \in Nat
  BY <1>2, NeededIsPositive DEF SharedInv
<1>4. CASE \E size \in Produced(k, s) :
             Writes(size, call[c].room, Input(k, s, call[c].input))
  <2>1. \A size \in Produced(k, s) : size <= call[c].room
    BY <1>2, <1>3 DEF Produced
  <2>2. QED
    BY <1>4, <2>1 DEF Writes, OutputFits
<1>5. CASE result' # "ok" /\ \E code \in Codes[result'] : Fails(code, NotWritten)
  BY <1>1, <1>5, OutcomeOfFinish, FailureIsNotOK DEF WriteOutput, OutputFits
<1>6. QED
  BY <1>1, <1>4, <1>5 DEF WriteOutput

\* Nobody has been told anything at first.
LEMMA InitOwn == CryptoInit => OInv
<1> SUFFICES ASSUME CryptoInit PROVE OInv
  OBVIOUS
<1>1. promised \in [Client -> Promise]
  BY DEF CryptoInit, Promise, NoPromise
<1>2. QED
  BY <1>1 DEF CryptoInit, OInv, CheckedOK, PromiseOK, OutputFits, NoReturn

\* A step by its thread: the others keep theirs, its own is fresh or forgotten.
LEMMA StepKeepsOwn ==
  ASSUME OwnSessionsOnly, SharedInv, OInv, [CryptoNext]_cryptoVars
  PROVE  OInv'
<1>1. SharedInv' /\ Extended
  BY StepKeepsShared
<1>2. CASE UNCHANGED cryptoVars
  BY <1>2 DEF cryptoVars, vars, OInv, CheckedOK, PromiseOK, OutputFits, Needed
<1>3. CASE Surroundings
  <2>1. UNCHANGED <<ops, call, promised, last>>
    BY <1>3 DEF Surroundings, Environment, Tick, ChangeStore, work
  <2>2. ASSUME NEW c \in Client PROVE CheckedOK(c)' /\ PromiseOK(c)'
    BY <1>1, <2>1, OpsKeptKeepOwn DEF OInv
  <2>3. QED
    BY <2>1, <2>2 DEF OInv, OutputFits
<1>4. ASSUME NEW c \in Client, Function(c) PROVE OInv'
  <2>1. StepOf(c)
    BY <1>4, StepOfClient
  <2>2. promised \in [Client -> Promise] /\ \A d \in Client : CheckedOK(d) /\ PromiseOK(d)
    BY DEF OInv
  <2>3. Leaves(c)
    BY <2>1, <2>2, StepLeavesOthers
  <2>4. \A d \in Client \ {c} : CheckedOK(d)' /\ PromiseOK(d)'
    BY <1>1, <2>2, <2>3, OthersKeepTheirs
  <2>5. promised' \in [Client -> Promise] /\ CheckedOK(c)' /\ PromiseOK(c)' /\ OutputFits'
    <3>1. ASSUME NEW k \in OpKind, NEW s \in Uses[c], NEW input \in {Single, Final}, NEW room \in Room,
                 CheckRoom(c, k, s, input, room)
          PROVE  promised' \in [Client -> Promise] /\ CheckedOK(c)' /\ PromiseOK(c)' /\ OutputFits'
      BY <1>1, <2>2, <3>1, CheckRoomKeepsOwn DEF OInv
    <3>2. CASE Forget(c) /\ call'[c] = Idle /\ OutputFits'
      <4>1. promised' \in [Client -> Promise] /\ promised'[c] = NoPromise
        BY <2>2, <3>2 DEF Forget, Promise, NoPromise
      <4>2. QED
        BY <3>2, <4>1 DEF CheckedOK, PromiseOK, Idle, NoPromise
    <3>3. CASE WriteOutput(c)
      BY <2>2, <3>2, <3>3, WriteOutputFits DEF WriteOutput, SharedInv, CallTypes
    <3>4. CASE Forget(c) /\ UNCHANGED call /\ call[c] = Idle /\ Returns
      BY <3>2, <3>4 DEF Returns, NoReturn, OutputFits
    <3>5. QED
      BY <2>1, <3>1, <3>3, <3>4
      DEF StepOf, C_OpenSession, C_CloseSession, BeginOperation, AddPart, AskLength
  <2>6. QED
    BY <2>4, <2>5 DEF OInv
<1>5. QED
  BY <1>2, <1>3, <1>4 DEF CryptoNext

\* The invariant of threads that keep to their own sessions.
LEMMA OwnHolds == ASSUME OwnSessionsOnly PROVE CryptoSpec => []OInv
<1>1. CryptoInit => OInv
  BY InitOwn
<1>2. SharedInv /\ OInv /\ [CryptoNext]_cryptoVars => OInv'
  BY StepKeepsOwn
<1>3. QED
  BY <1>1, <1>2, SharedHolds, PTL DEF CryptoSpec

\* The output that is copied into a caller's buffer is never longer than the buffer, although
\* the length was checked in an earlier call of the Manager, as long as no two threads work
\* under one session.
THEOREM OutputAlwaysFits == ASSUME OwnSessionsOnly PROVE CryptoSpec => []OutputFits
<1>1. OInv => OutputFits
  BY DEF OInv
<1>2. QED
  BY <1>1, OwnHolds, PTL

\* What a retry comes to, in either of its halves.
RetryFits ==
  \A c \in Client :
    Retries(c) => /\ result' \in {"ok", "BackendError"}
                  /\ (call'[c] = Idle /\ last'.code = "BUFFER_TOO_SMALL")
                       => last'.size = NotWritten

\* A caller that was refused for its buffer finds its operation with its key again, and a buffer
\* of the length it was told is enough, whatever the other threads do under their own sessions
\* and the store does: nothing but the backend can fail it.
THEOREM RetriesSucceed == ASSUME OwnSessionsOnly PROVE CryptoSpec => RetrySucceeds
<1>1. SharedInv /\ OInv /\ [CryptoNext]_cryptoVars => [RetryFits]_cryptoVars
  <2> SUFFICES ASSUME SharedInv, OInv, CryptoNext, NEW c \in Client, Retries(c)
               PROVE  /\ result' \in {"ok", "BackendError"}
                      /\ (call'[c] = Idle /\ last'.code = "BUFFER_TOO_SMALL")
                           => last'.size = NotWritten
    BY DEF RetryFits
  <2>1. PICK k \in OpKind, s \in Uses[c] : k = promised[c].kind /\ s = promised[c].session
    BY DEF OInv, PromiseOK, Promise, NoPromise, Retries
  <2>2. s \in DOMAIN ops[k] /\ Needed(k, s) = promised[c].size
    BY <2>1 DEF OInv, PromiseOK, Retries
  <2>3. Needed(k, s) \in Nat /\ Resolves(k, ops[k][s].key)
    BY <2>2, NeededIsPositive DEF SharedInv, IInv, OpsOK, OpOK
  <2>4. ASSUME NEW input \in {Single, Final}, NEW room \in Room,
               room >= promised[c].size, CheckRoom(c, k, s, input, room)
        PROVE  /\ result' \in {"ok", "BackendError"}
               /\ (call'[c] = Idle /\ last'.code = "BUFFER_TOO_SMALL") => last'.size = NotWritten
    <3>1. result' \in {"ok", "BackendError"}
      BY <2>2, <2>3, <2>4 DEF CheckRoom, MeasureOperation, Refuse
    <3>2. CASE result' = "ok"
      <4>1. ~(Needed(k, s) > room)
        BY <2>2, <2>3, <2>4, CryptoAssumption
      <4>2. call' = [call EXCEPT ![c] = [at |-> "checked", kind |-> k, session |-> s,
                                         input |-> input, room |-> room]]
        BY <2>4, <3>2, <4>1 DEF CheckRoom
      <4>3. call'[c] # Idle
        BY <4>2 DEF SharedInv, CallTypes, Idle
      <4>4. QED
        BY <3>1, <4>3
    <3>3. CASE result' # "ok"
      BY <2>4, <3>1, <3>3 DEF CheckRoom, Fails
    <3>4. QED
      BY <3>2, <3>3
  <2>5. ASSUME call[c] # Idle, call'[c] = Idle, call[c].kind = k, call[c].session = s
        PROVE  /\ result' \in {"ok", "BackendError"}
               /\ last'.code = "BUFFER_TOO_SMALL" => last'.size = NotWritten
    <3>1. WriteOutput(c)
      BY <2>5, OnlyWriteOutputEnds DEF SharedInv
    <3>2. result' \in {"ok", "BackendError"}
      BY <2>2, <2>3, <2>5, <3>1 DEF WriteOutput, FinishOperation
    <3>3. QED
      BY <3>1, <3>2 DEF WriteOutput, Writes, Fails
  <2>6. QED
    BY <2>1, <2>4, <2>5 DEF Retries
<1>2. QED
  BY <1>1, SharedHolds, OwnHolds, PTL DEF CryptoSpec, RetrySucceeds, RetryFits
=============================================================================
