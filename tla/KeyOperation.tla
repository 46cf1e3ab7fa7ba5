---------------------------- MODULE KeyOperation ----------------------------
(***************************************************************************)
(* One signing, decryption or encryption in the Windows backend: from the  *)
(* mechanism the application passes to C_SignInit, C_DecryptInit or        *)
(* C_EncryptInit (lib.rs, mechanism.rs) to the calls of Windows that       *)
(* measure and make the output (backend_windows.rs), with the contexts and *)
(* key handles that each call takes and gives back.  The Manager calls the *)
(* backend from one thread, so there is one call at a time.                *)
(***************************************************************************)
EXTENDS Integers, FiniteSets

CONSTANTS
  Key,        \* keys and the certificates they belong to
  KeyType,    \* key -> "RSA" or "EC"
  Size,       \* key -> the length of a signature or a ciphertext, in units
  Request,    \* mechanisms as the application passes them
  Supported,  \* the hash algorithms CNG has a name for
  MaxLabel,   \* MAX_OAEP_LABEL_LEN
  Handed      \* what CryptAcquireCertificatePrivateKey hands out: which kind, whose

ASSUME KeyAssumption ==
  /\ KeyType \in [Key -> {"RSA", "EC"}]
  /\ Size \in [Key -> Nat \ {0}]
  /\ MaxLabel \in Nat
  /\ Handed \subseteq [spec : {"ncrypt", "legacy"}, mustFree : BOOLEAN]
  \* CRYPT_ACQUIRE_ONLY_NCRYPT_KEY_FLAG: no legacy handle to be freed is handed out.
  /\ [spec |-> "legacy", mustFree |-> TRUE] \notin Handed

VARIABLES
  op,        \* the operation: its kind, object, request and what was parsed from it
  call,      \* how far the call of the backend has come
  held,      \* the contexts and handles that the call's values own
  open,      \* what Windows has handed out for the module to free, and it has not
  last,      \* the last return, of the module or of the backend
  reported   \* history: the smallest length a query of this operation has reported

keyVars == <<op, call, held, open, last, reported>>

Resource == {"context", "privateKey", "publicKey"}
NoOp == [kind |-> "none"]
NoCall == [at |-> "idle"]
NoReturn == [code |-> "none"]
NoReport == -1

-----------------------------------------------------------------------------
(* Mechanisms. *)

ParseCipher_AnyMGF(m) ==
  IF m.type = "PKCS" THEN
    IF m.params = "none" THEN [padding |-> "PKCS1"] ELSE [error |-> "ARGUMENTS_BAD"]
  ELSE IF m.type # "OAEP" THEN [error |-> "MECHANISM_INVALID"]
  ELSE IF m.params # "wellFormed" \/ m.source # "specified" THEN [error |-> "ARGUMENTS_BAD"]
  ELSE IF m.hash \notin Supported THEN [error |-> "MECHANISM_INVALID"]
  ELSE IF (m.label = "null" /\ m.length # 0) \/ m.length > MaxLabel THEN [error |-> "ARGUMENTS_BAD"]
  ELSE [padding |-> "OAEP", hash |-> m.hash, label |-> IF m.length = 0 THEN "empty" ELSE m.label]

ParseCipher_AnyHash(m) ==
  IF m.type = "PKCS" THEN
    IF m.params = "none" THEN [padding |-> "PKCS1"] ELSE [error |-> "ARGUMENTS_BAD"]
  ELSE IF m.type # "OAEP" THEN [error |-> "MECHANISM_INVALID"]
  ELSE IF m.params # "wellFormed" \/ m.source # "specified" THEN [error |-> "ARGUMENTS_BAD"]
  ELSE IF m.mgf # m.hash THEN [error |-> "MECHANISM_INVALID"]
  ELSE IF (m.label = "null" /\ m.length # 0) \/ m.length > MaxLabel THEN [error |-> "ARGUMENTS_BAD"]
  ELSE [padding |-> "OAEP", hash |-> m.hash, label |-> IF m.length = 0 THEN "empty" ELSE m.label]

\* parse_rsa_cipher_mechanism.  An MGF is named by the hash it uses.
ParseCipher(m) ==
  IF m.type = "PKCS" THEN
    IF m.params = "none" THEN [padding |-> "PKCS1"] ELSE [error |-> "ARGUMENTS_BAD"]
  ELSE IF m.type # "OAEP" THEN [error |-> "MECHANISM_INVALID"]
  ELSE IF m.params # "wellFormed" \/ m.source # "specified" THEN [error |-> "ARGUMENTS_BAD"]
  ELSE IF m.hash \notin Supported \/ m.mgf # m.hash THEN [error |-> "MECHANISM_INVALID"]
  ELSE IF (m.label = "null" /\ m.length # 0) \/ m.length > MaxLabel THEN [error |-> "ARGUMENTS_BAD"]
  ELSE [padding |-> "OAEP", hash |-> m.hash, label |-> IF m.length = 0 THEN "empty" ELSE m.label]

\* C_SignInit looks at the parameters of RSA-PSS alone, and at no more than their length; every
\* other mechanism signs without parameters.
ParseSign(m) ==
  IF m.type # "PSS" THEN [padding |-> "plain"]
  ELSE IF m.params # "wellFormed" THEN [error |-> "ARGUMENTS_BAD"]
  ELSE [padding |-> "PSS", hash |-> m.hash]

Parse(kind, m) == IF kind = "sign" THEN ParseSign(m) ELSE ParseCipher(m)

\* SignParams::new and CipherPaddingInfo::new: a hash needs a CNG name, unless the key is an
\* elliptic curve key, for which signing takes no parameters at all.
PaddingFits(kind, key, parsed) ==
  \/ kind = "sign" /\ KeyType[key] = "EC"
  \/ parsed.padding \in {"plain", "PKCS1"}
  \/ parsed.hash \in Supported

\* crypto_error_to_rv over the status codes of Windows.
Status == {"NTE_BAD_KEY", "NTE_BAD_DATA", "NTE_INVALID_PARAMETER", "NTE_BUFFER_TOO_SMALL",
           "NTE_NOT_SUPPORTED", "SCARD_W_CANCELLED_BY_USER"}
StatusCode(status) ==
  CASE status = "NTE_BAD_KEY"           -> "KEY_HANDLE_INVALID"
    [] status = "NTE_BAD_DATA"          -> "ENCRYPTED_DATA_INVALID"
    [] status = "NTE_INVALID_PARAMETER" -> "ARGUMENTS_BAD"
    [] status = "NTE_BUFFER_TOO_SMALL"  -> "BUFFER_TOO_SMALL"
    [] status = "NTE_NOT_SUPPORTED"     -> "FUNCTION_NOT_SUPPORTED"
    [] OTHER                            -> "DEVICE_ERROR"
InvalidKey == "KEY_HANDLE_INVALID"
OperationFailed == "FUNCTION_FAILED"

-----------------------------------------------------------------------------
(* The operation. *)

KeyInit ==
  /\ op = NoOp
  /\ call = NoCall
  /\ held = {}
  /\ open = [r \in Resource |-> 0]
  /\ last = NoReturn
  /\ reported = NoReport

\* C_SignInit, C_DecryptInit, C_EncryptInit.  Only an encryption may name the certificate; a
\* decryption comes with a ciphertext that some plaintext of at most the key's length is in.
BeginOperation(kind, key, object, m, plain) ==
  /\ op = NoOp
  /\ object = "cert" => kind = "encrypt"
  /\ LET parsed == Parse(kind, m) IN
       IF "error" \in DOMAIN parsed
       THEN /\ last' = [code |-> parsed.error, cause |-> "request"]
            /\ UNCHANGED op
       ELSE /\ op' = [kind |-> kind, key |-> key, object |-> object, request |-> m,
                      parsed |-> parsed, plain |-> plain]
            /\ last' = [code |-> "OK"]
  /\ reported' = NoReport
  /\ UNCHANGED <<call, held, open>>

\* The Manager calls the backend, for the length or for the output.
CallBackend(output) ==
  /\ op # NoOp
  /\ call = NoCall
  /\ call' = [at |-> "entered", output |-> output]
  /\ UNCHANGED <<op, held, open, last, reported>>

\* The call returns: its values are dropped, which frees what they own.  The Manager has taken
\* an operation out of its table before it asked for the output.
Returns(ret) ==
  /\ last' = ret
  /\ call' = NoCall
  /\ held' = {}
  /\ open' = [r \in Resource |-> open[r] - (IF r \in held THEN 1 ELSE 0)]
  /\ op' = IF call.output THEN NoOp ELSE op

Fails(code, cause) ==
  /\ Returns([code |-> code, cause |-> cause])
  /\ UNCHANGED reported

Goes(at) == call' = [call EXCEPT !.at = at]

Own(r) ==
  /\ held' = held \cup {r}
  /\ open' = [open EXCEPT ![r] = @ + 1]

-----------------------------------------------------------------------------
(* Its steps. *)

\* decrypt_internal refuses any other key before all else.
CheckKeyType ==
  /\ op.kind = "decrypt" /\ call.at = "entered"
  /\ IF KeyType[op.key] = "RSA"
     THEN /\ Goes("typed")
          /\ UNCHANGED <<op, held, open, last, reported>>
     ELSE Fails(InvalidKey, "key")

\* Cert::context, which only the encryption with a certificate object needs.
MakeContext ==
  /\ op.kind = "encrypt" /\ op.object = "cert" /\ call.at = "entered"
  /\ \/ /\ Own("context")
        /\ Goes("typed")
        /\ UNCHANGED <<op, last, reported>>
     \/ \E status \in Status : Fails(StatusCode(status), "windows")

AboutToAcquire ==
  \/ op.kind = "sign" /\ call.at = "entered"
  \/ op.kind = "decrypt" /\ call.at = "padded"

AcquireKey_KeepsShared ==
  /\ AboutToAcquire
  /\ \/ \E status \in Status : Fails(StatusCode(status), "windows")
     \/ \E handle \in Handed :
          /\ held' = held \cup {"privateKey"}
          /\ open' = [open EXCEPT !["privateKey"] = @ + (IF handle.mustFree THEN 1 ELSE 0)]
          /\ Goes("acquired")
          /\ UNCHANGED <<op, last, reported>>

\* NCryptKeyHandle::from_cert.  A handle that is not the module's own is refused, and not freed.
AcquireKey ==
  /\ AboutToAcquire
  /\ \/ \E status \in Status : Fails(StatusCode(status), "windows")
     \/ \E handle \in Handed :
          IF handle.spec = "ncrypt" /\ handle.mustFree
          THEN /\ Own("privateKey")
               /\ Goes("acquired")
               /\ UNCHANGED <<op, last, reported>>
          ELSE Fails(OperationFailed, "windows")

\* BCryptPublicKeyHandle::from_cert
ImportPublicKey ==
  /\ op.kind = "encrypt"
  /\ call.at = IF op.object = "cert" THEN "typed" ELSE "entered"
  /\ \/ /\ Own("publicKey")
        /\ Goes("acquired")
        /\ UNCHANGED <<op, last, reported>>
     \/ \E status \in Status : Fails(StatusCode(status), "windows")

\* A decryption builds its padding before it acquires the key, the others after.
BuildPadding ==
  /\ call.at = IF op.kind = "decrypt" THEN "typed" ELSE "acquired"
  /\ IF PaddingFits(op.kind, op.key, op.parsed)
     THEN /\ Goes("padded")
          /\ UNCHANGED <<op, held, open, last, reported>>
     ELSE Fails(IF op.kind = "sign" THEN OperationFailed ELSE InvalidKey, "request")

\* CNG has all it needs: the key and the padding.
Ready == call.at = IF op.kind = "decrypt" THEN "acquired" ELSE "padded"

\* The length CNG may answer with: for a decryption the plaintext's or more, else the key's.
Lengths == IF op.kind = "decrypt" THEN op.plain .. Size[op.key] ELSE {Size[op.key]}

\* The first call of NCryptSignHash, NCryptDecrypt or BCryptEncrypt: without a buffer.
Measure ==
  /\ Ready
  /\ \/ \E n \in Lengths :
          IF call.output
          THEN /\ call' = [at |-> "measured", output |-> TRUE, size |-> n]
               /\ UNCHANGED <<op, held, open, last, reported>>
          ELSE /\ Returns([code |-> "OK", length |-> n])
               /\ reported' = IF reported = NoReport \/ n < reported THEN n ELSE reported
     \/ \E status \in Status : Fails(StatusCode(status), "windows")

Produce_KeepsBuffer ==
  /\ call.at = "measured"
  /\ \/ \E written \in (IF op.kind = "decrypt" THEN {op.plain} ELSE 1 .. call.size) :
          IF op.kind = "decrypt" \/ written = call.size
          THEN /\ Returns([code |-> "OK", length |-> call.size, written |-> written])
               /\ UNCHANGED reported
          ELSE Fails(OperationFailed, "windows")
     \/ \E status \in Status : Fails(StatusCode(status), "windows")

\* The second call.  A decryption cuts its buffer down to what was written; the others fail when
\* it is not all of it.
Produce ==
  /\ call.at = "measured"
  /\ \/ \E written \in (IF op.kind = "decrypt" THEN {op.plain} ELSE 1 .. call.size) :
          IF op.kind = "decrypt" \/ written = call.size
          THEN /\ Returns([code |-> "OK", length |-> written, written |-> written])
               /\ UNCHANGED reported
          ELSE Fails(OperationFailed, "windows")
     \/ \E status \in Status : Fails(StatusCode(status), "windows")

\* A call enters and goes on only while there is one.
BackendStep ==
  /\ call # NoCall
  /\ \/ CheckKeyType
     \/ MakeContext
     \/ AcquireKey
     \/ ImportPublicKey
     \/ BuildPadding
     \/ Measure
     \/ Produce

KeyNext ==
  \/ \E kind \in {"sign", "decrypt", "encrypt"}, key \in Key, object \in {"key", "cert"},
        m \in Request :
       \E plain \in (IF kind = "decrypt" THEN 0 .. Size[key] ELSE {0}) :
         BeginOperation(kind, key, object, m, plain)
  \/ \E output \in BOOLEAN : CallBackend(output)
  \/ BackendStep

KeySpec == KeyInit /\ [][KeyNext]_keyVars

-----------------------------------------------------------------------------
(* What the module promises. *)

\* Whatever path a call takes out, it frees each context and handle it was given, once, and frees
\* none that belongs to someone else (the Drop impls; the refusal of a shared handle).
HandlesReturned ==
  /\ \A r \in Resource : open[r] = IF r \in held THEN 1 ELSE 0
  /\ call = NoCall => held = {}

\* CNG encrypts and decrypts with what the application asked for, the MGF that it derives from
\* the hash and the label included, for no field of the request is lost on the way.
CngDoesAsAsked ==
  call # NoCall /\ op.kind # "sign" /\ Ready =>
    \/ op.request.type = "PKCS" /\ op.parsed.padding = "PKCS1"
    \/ /\ op.request.type = "OAEP"
       /\ op.parsed.padding = "OAEP"
       /\ op.parsed.hash = op.request.hash
       /\ op.request.mgf = op.parsed.hash
       /\ op.parsed.label = (IF op.request.length = 0 THEN "empty" ELSE op.request.label)

\* An encryption or decryption that was begun is not refused for its mechanism any more: what
\* parse_rsa_cipher_mechanism lets through, CipherPaddingInfo::new has a CNG name for.
AcceptedIsUsable ==
  call # NoCall /\ op.kind # "sign" => PaddingFits(op.kind, op.key, op.parsed)

\* The output is as long as Windows wrote it, and not longer than any length the operation's
\* queries have reported, although each call asks Windows anew: a buffer of that length will do.
LengthKept ==
  "written" \in DOMAIN last =>
    /\ last.length = last.written
    /\ reported # NoReport => last.length <= reported
=============================================================================
