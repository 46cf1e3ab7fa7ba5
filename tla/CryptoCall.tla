----------------------------- MODULE CryptoCall -----------------------------
(***************************************************************************)
(* The sign, encrypt and decrypt functions of lib.rs on top of the         *)
(* Manager, called by several threads.  A function that writes output asks *)
(* the Manager twice, and lets go of the manager guard in between: first   *)
(* for the length, to refuse a small buffer without ending the operation,  *)
(* then for the output.                                                    *)
(*                                                                         *)
(* Each call of the Manager is one step here: ManagerProxy shows that it   *)
(* looks like one.  A call with malformed arguments or an unknown          *)
(* mechanism returns before it reaches the Manager and is not modelled.    *)
(***************************************************************************)
EXTENDS Manager, Integers

CONSTANTS
  Client,   \* the application's threads
  Uses,     \* thread -> the sessions it works with
  Modulus,  \* object identifier -> output length of its key, in units
  Room      \* the output buffer lengths a client offers

ASSUME CryptoAssumption ==
  /\ Uses \in [Client -> SUBSET SessionHandle]
  /\ Modulus \in [Id -> Nat \ {0}]
  /\ Room \subseteq Nat

VARIABLES
  call,     \* thread -> the output call between its two halves
  last,     \* the last return: code, length slot, and of an output its buffer and input
  parts,    \* history: kind -> session -> the parts accepted since the Init call
  promised  \* history: thread -> what its last CKR_BUFFER_TOO_SMALL promised

cryptoVars == <<vars, call, last, parts, promised>>

Idle == [at |-> "idle"]
NotWritten == -1  \* the client's length slot still holds what it passed in
NoReturn == [code |-> "none"]
NoPromise == [size |-> 0]

\* crypto_error_to_rv, as far as it matters here.  A backend fails with BufferTooSmall (the
\* stub's, or NTE_BUFFER_TOO_SMALL of CNG) or with anything else that CryptoError has, so
\* its other codes include those of the Manager's refusals, CKR_FUNCTION_FAILED and
\* CKR_KEY_HANDLE_INVALID: a client can not tell from the code who failed.
OtherCode == "another code"
Codes ==
  [OperationFailed |-> {OtherCode}, InvalidKey |-> {OtherCode},
   BackendError |-> {OtherCode, "BUFFER_TOO_SMALL"}]

\* A function with output returns, with it or without.  Of the others, only that they returned.
Writes(size, room, input) ==
  last' = [code |-> "OK", size |-> size, room |-> room, input |-> input]
Fails(code, size) == last' = [code |-> code, size |-> size]
Returns == last' = NoReturn

Forget(c) == promised' = [promised EXCEPT ![c] = NoPromise]

CryptoInit ==
  /\ Init
  /\ call = [c \in Client |-> Idle]
  /\ last = NoReturn
  /\ parts = [k \in OpKind |-> NoEntries]
  /\ promised = [c \in Client |-> NoPromise]

-----------------------------------------------------------------------------
(* Sessions. *)

\* Bound: a thread opens the next session only if it is one of its own.
C_OpenSession(c) ==
  /\ call[c] = Idle
  /\ nextSession \in Uses[c]
  /\ \E flags \in Flags : OpenSession(flags)
  /\ Returns
  /\ Forget(c)
  /\ UNCHANGED <<call, parts>>

C_CloseSession(c, s) ==
  /\ call[c] = Idle
  /\ CloseSession(s)
  /\ Returns
  /\ parts' = IF result' = "ok" THEN [k \in OpKind |-> Drop(parts[k], s)] ELSE parts
  /\ Forget(c)
  /\ UNCHANGED call

-----------------------------------------------------------------------------
(* The steps the functions are made of. *)

BeginOperation(c, k, s, h) ==
  /\ call[c] = Idle
  /\ \E m \in Mechanism : StartOperation(k, s, h, m)
  /\ Returns
  /\ parts' = IF result' = "ok" THEN [parts EXCEPT ![k] = Put(@, s, <<>>)] ELSE parts
  /\ Forget(c)
  /\ UNCHANGED call

\* Never any output: C_EncryptUpdate and C_DecryptUpdate report a length of zero.
AddPart(c, k, s, data) ==
  /\ call[c] = Idle
  /\ UpdateOperation(k, s, data)
  /\ Returns
  /\ parts' = IF result' = "ok" THEN [parts EXCEPT ![k][s] = @ \o data] ELSE parts
  /\ Forget(c)
  /\ UNCHANGED call

\* A single-part call brings its own data, which nothing here depends on.
Single == [form |-> "single"]
Final == [form |-> "final"]

\* The length of the output, as the length queries give it.
Needed(k, s) == Modulus[objects[ops[k][s].key].id]

\* A decryption may turn out shorter than its length query said.
Produced(k, s) == IF k = "decrypt" THEN 0 .. Needed(k, s) ELSE {Needed(k, s)}

AskLength(c, k, s) ==
  /\ call[c] = Idle
  /\ MeasureOperation(k, s)
  /\ Returns
  /\ Forget(c)
  /\ UNCHANGED <<call, parts>>

CheckRoom_Ends(c, k, s, input, room) ==
  /\ call[c] = Idle
  /\ FinishOperation(k, s)
  /\ result' = "ok" => Needed(k, s) > room
  /\ IF result' = "ok"
     THEN /\ Fails("BUFFER_TOO_SMALL", Needed(k, s))
          /\ promised' = [promised EXCEPT ![c] = [kind |-> k, session |-> s, size |-> Needed(k, s)]]
     ELSE (\E code \in Codes[result'] : Fails(code, NotWritten)) /\ Forget(c)
  /\ UNCHANGED <<call, parts>>

\* First half: the length query, under the guard, and the check of the buffer.
CheckRoom(c, k, s, input, room) ==
  /\ call[c] = Idle
  /\ MeasureOperation(k, s)
  /\ \/ /\ result' # "ok"
        /\ \E code \in Codes[result'] : Fails(code, NotWritten)
        /\ Forget(c)
        /\ UNCHANGED call
     \/ /\ result' = "ok" /\ Needed(k, s) > room
        /\ Fails("BUFFER_TOO_SMALL", Needed(k, s))
        /\ promised' = [promised EXCEPT ![c] = [kind |-> k, session |-> s, size |-> Needed(k, s)]]
        /\ UNCHANGED call
     \/ /\ result' = "ok" /\ Needed(k, s) <= room
        /\ call' = [call EXCEPT ![c] = [at |-> "checked", kind |-> k, session |-> s,
                                        input |-> input, room |-> room]]
        /\ UNCHANGED <<last, promised>>
  /\ UNCHANGED parts

\* What the backend gets: from a single-part call its own data, from a final call the buffer.
Input(k, s, input) ==
  IF input = Final THEN [form |-> "final", data |-> ops[k][s].buffer] ELSE Single

\* Second half: the output is made and copied, its length is not compared again.
WriteOutput(c) ==
  LET k == call[c].kind
      s == call[c].session
  IN  /\ call[c] # Idle
      /\ FinishOperation(k, s)
      /\ \/ /\ result' = "ok"
            /\ \E size \in Produced(k, s) :
                 Writes(size, call[c].room, Input(k, s, call[c].input))
         \/ /\ result' # "ok"
            /\ \E code \in Codes[result'] : Fails(code, NotWritten)
      /\ parts' = [parts EXCEPT ![k] = Drop(@, s)]
      /\ call' = [call EXCEPT ![c] = Idle]
      /\ Forget(c)

\* A function with output: a length query without a buffer, or the first half of a call.
Output(c, k, s, input) == AskLength(c, k, s) \/ \E room \in Room : CheckRoom(c, k, s, input, room)

-----------------------------------------------------------------------------
(* The functions. *)

C_SignInit(c, s, h) == BeginOperation(c, "sign", s, h)
C_Sign(c, s) == Output(c, "sign", s, Single)
C_SignUpdate(c, s, data) == AddPart(c, "sign", s, data)
C_SignFinal(c, s) == Output(c, "sign", s, Final)

C_DecryptInit(c, s, h) == BeginOperation(c, "decrypt", s, h)
C_Decrypt(c, s) == Output(c, "decrypt", s, Single)
C_DecryptUpdate(c, s, data) == AddPart(c, "decrypt", s, data)
C_DecryptFinal(c, s) == Output(c, "decrypt", s, Final)

C_EncryptInit(c, s, h) == BeginOperation(c, "encrypt", s, h)
C_Encrypt(c, s) == Output(c, "encrypt", s, Single)
C_EncryptUpdate(c, s, data) == AddPart(c, "encrypt", s, data)
C_EncryptFinal(c, s) == Output(c, "encrypt", s, Final)

\* A thread starts operations only on sessions it has opened and not closed yet.
InitCall(c) ==
  \E s \in Uses[c] \cap DOMAIN sessions, h \in DOMAIN objects :
    C_SignInit(c, s, h) \/ C_DecryptInit(c, s, h) \/ C_EncryptInit(c, s, h)

UpdateCall(c) ==
  \E s \in Uses[c], data \in Message :
    C_SignUpdate(c, s, data) \/ C_DecryptUpdate(c, s, data) \/ C_EncryptUpdate(c, s, data)

OutputCall(c) ==
  \E s \in Uses[c] :
    \/ C_Sign(c, s) \/ C_Decrypt(c, s) \/ C_Encrypt(c, s)
    \/ C_SignFinal(c, s) \/ C_DecryptFinal(c, s) \/ C_EncryptFinal(c, s)

\* Time passes and the store changes beside the functions, also between the halves of one.
Surroundings == Environment /\ UNCHANGED <<call, last, parts, promised>>

Function(c) ==
  \/ C_OpenSession(c)
  \/ \E s \in Uses[c] : C_CloseSession(c, s)
  \/ InitCall(c) \/ UpdateCall(c) \/ OutputCall(c) \/ WriteOutput(c)

CryptoNext == Surroundings \/ \E c \in Client : Function(c)

CryptoSpec == CryptoInit /\ [][CryptoNext]_cryptoVars

-----------------------------------------------------------------------------
(* Properties. *)

\* Nothing longer than the client's buffer is copied into it, although the length is not
\* compared again when the output is there: between the two halves of a call other threads
\* run theirs, and the scan that C_OpenSession makes of a changed store must not put another
\* key behind the handle that the operation was started with.
OutputFits == last.code = "OK" => last.size <= last.room

\* A multipart operation is the single-part one over all of its parts: the output of a final
\* call is made from exactly the parts that were accepted since the Init call, in order.
FinalCoversParts ==
  [][\A c \in Client :
        (call[c] # Idle /\ call'[c] = Idle /\ last'.code = "OK" /\ last'.input.form = "final")
        => last'.input.data = parts[call[c].kind][call[c].session]]_cryptoVars

\* Thread c repeats a call that was refused for its buffer, with one that should be enough:
\* one half of the new call.
Retries(c) ==
  LET p == promised[c]
  IN  /\ p # NoPromise
      /\ \/ \E input \in {Single, Final}, room \in Room :
              room >= p.size /\ CheckRoom(c, p.kind, p.session, input, room)
         \/ /\ call[c] # Idle /\ call'[c] = Idle
            /\ call[c].kind = p.kind /\ call[c].session = p.session /\ call[c].room >= p.size

\* After CKR_BUFFER_TOO_SMALL the operation is still there with its key, so a retry with a
\* buffer of the reported length is not refused by the Manager and not for its buffer,
\* whatever other threads do on their own sessions and the store does meanwhile.  Only the
\* backend can still fail, and then the length slot is not written.
RetrySucceeds ==
  [][\A c \in Client :
        Retries(c) => /\ result' \in {"ok", "BackendError"}
                      /\ (call'[c] = Idle /\ last'.code = "BUFFER_TOO_SMALL")
                           => last'.size = NotWritten]_cryptoVars
=============================================================================
