-------------------------- MODULE ManagerProxyProofs --------------------------
(***************************************************************************)
(* For any number of threads, any Manager and any number of incarnations:  *)
(* what is in the channels belongs to the client that waits, no more than  *)
(* one manager thread is alive, and the whole implements SerialManager.    *)
(***************************************************************************)
EXTENDS ManagerProxy, FiniteSetTheorems, TLAPS

ClientState ==
  [at : {"idle"}] \cup [at : {"wants", "locked"}, call : Call]
  \cup [at : {"awaiting"}, call : Request \cup {"C_Finalize"}, i : Incarnation]
  \cup [at : {"joining"}, call : {"C_Finalize"}, i : Incarnation]
  \cup [at : {"done"}, reply : Reply]

ThreadState ==
  [at : {"none", "starting", "ready", "exiting", "stopped", "panicked"}]
  \cup [at : {"serving"}, message : Message]

ProxyTypeOK ==
  /\ lock \in Client \cup {NoClient}
  /\ made \in 0 .. MaxIncarnation /\ slot \in 0 .. made
  /\ client \in [Client -> ClientState]
  /\ thread \in [Incarnation -> ThreadState]
  /\ manager \in [Incarnation -> State]
  /\ requests \in [Incarnation -> Seq(Message)] /\ replies \in [Incarnation -> Seq(Reply)]

\* The mutex holder is the only client past Acquire and before its return.
Holds(c) == client[c].at \in {"locked", "awaiting", "joining"}
HoldersLocked == \A c \in Client : Holds(c) <=> lock = c

\* Incarnations not made yet are as they were at the start, and enough are left for the calls that
\* are under way.
UnmadeOK ==
  /\ \A i \in Incarnation : IF i > made THEN thread[i] = Doing("none") /\ manager[i] = Start
                                        ELSE thread[i] # Doing("none")
  /\ Attempts <= MaxIncarnation

\* The proxy in the slot has a thread that was not told to stop; any other live thread is being
\* stopped, by a client that has emptied the slot.
Calling(c) == client[c].at = "awaiting" /\ client[c].call # "C_Finalize"
SlotOK ==
  /\ slot # 0 => thread[slot].at \in {"starting", "ready", "serving", "panicked"}
  /\ \A c \in Client : Calling(c) => client[c].i = slot
  /\ Stopping # {} => slot = 0
  /\ \A i \in Incarnation : ~Gone(i) => i = slot \/ \E c \in Stopping : client[c].i = i

\* What a client that waits has sent is in the channel, in the hands of the thread, or answered.
MessageOf(call) == IF call = "C_Finalize" THEN "Stop" ELSE call
Answered(i, call) ==
  IF call = "C_Finalize"
  THEN replies[i] = <<[code |-> "OK"]>> /\ thread[i].at \in {"exiting", "stopped"}
  ELSE (\E v \in Value : replies[i] = <<[value |-> v]>>) /\ thread[i].at = "ready"
UnderWay(i, call) ==
  \/ /\ requests[i] = <<MessageOf(call)>> /\ replies[i] = <<>>
     /\ thread[i].at \in {"starting", "ready"}
  \/ requests[i] = <<>> /\ replies[i] = <<>> /\ thread[i] = Serving(MessageOf(call))
  \/ requests[i] = <<>> /\ Answered(i, call)

Awaited(i) == \E c \in Client : client[c].at = "awaiting" /\ client[c].i = i
Quiet(i) == requests[i] = <<>> /\ replies[i] = <<>> /\ thread[i].at # "serving"
ChannelsOK ==
  /\ \A c \in Client :
       /\ client[c].at = "awaiting" /\ thread[client[c].i].at # "panicked" =>
            UnderWay(client[c].i, client[c].call)
       /\ client[c].at = "joining" => thread[client[c].i].at \in {"exiting", "stopped"}
  /\ \A i \in Incarnation :
       IF thread[i].at = "panicked" THEN replies[i] = <<>> ELSE Awaited(i) \/ Quiet(i)

PInv == ProxyTypeOK /\ HoldersLocked /\ UnmadeOK /\ SlotOK /\ ChannelsOK

Trying == {c \in Client : client[c].at \in {"wants", "locked"} /\ client[c].call = "C_Initialize"}

\* Two clients that hold the mutex are one.
LEMMA OneHolder ==
  ASSUME HoldersLocked, NEW c \in Client, NEW d \in Client, Holds(c), Holds(d)
  PROVE  c = d
BY DEF HoldersLocked

LEMMA PInvGivesProperties == PInv => NoStrayMessages /\ FinalizedMeansGone
<1> SUFFICES ASSUME PInv PROVE NoStrayMessages /\ FinalizedMeansGone
  OBVIOUS
<1>1. NoStrayMessages
  <2> SUFFICES ASSUME NEW i \in Incarnation, thread[i].at # "panicked"
               PROVE  InFlight(i) = IF Awaited(i) THEN 1 ELSE 0
    BY DEF NoStrayMessages, Awaited
  <2>1. (\A m : Len(<<m>>) = 1) /\ Len(<<>>) = 0
    OBVIOUS
  <2>2. CASE Awaited(i)
    <3>1. PICK c \in Client : UnderWay(i, client[c].call)
      BY <2>2 DEF Awaited, PInv, ChannelsOK
    <3>2. Len(requests[i]) + Len(replies[i]) + (IF thread[i].at = "serving" THEN 1 ELSE 0) = 1
      <4>1. CASE requests[i] = <<MessageOf(client[c].call)>> /\ replies[i] = <<>>
                 /\ thread[i].at \in {"starting", "ready"}
        BY <2>1, <4>1
      <4>2. CASE requests[i] = <<>> /\ replies[i] = <<>> /\ thread[i] = Serving(MessageOf(client[c].call))
        BY <2>1, <4>2 DEF Serving
      <4>3. CASE requests[i] = <<>> /\ Answered(i, client[c].call)
        <5>1. PICK r : replies[i] = <<r>>
          BY <4>3 DEF Answered
        <5>2. Len(replies[i]) = 1 /\ Len(requests[i]) = 0
          BY <2>1, <4>3, <5>1
        <5>3. thread[i].at # "serving"
          BY <4>3 DEF Answered
        <5>4. QED
          BY <5>2, <5>3
      <4>4. QED
        BY <3>1, <4>1, <4>2, <4>3 DEF UnderWay
    <3>3. QED
      BY <2>2, <3>2 DEF InFlight
  <2>3. CASE ~Awaited(i)
    <3>1. Quiet(i)
      BY <2>3 DEF PInv, ChannelsOK
    <3>2. Len(replies[i]) = 0 /\ Len(requests[i]) = 0 /\ thread[i].at # "serving"
      BY <2>1, <3>1 DEF Quiet
    <3>3. QED
      BY <2>3, <3>2 DEF InFlight
  <2>4. QED
    BY <2>2, <2>3
<1>2. ASSUME NEW i \in Incarnation, NEW j \in Incarnation, ~Gone(i), ~Gone(j)
      PROVE  i = j
  <2>1. \A k \in Incarnation : k # 0
    BY DEF Incarnation
  <2>2. \A c, d \in Stopping : c = d
    BY OneHolder DEF Stopping, Holds, PInv
  <2>3. QED
    BY <1>2, <2>1, <2>2 DEF PInv, SlotOK
<1>3. lock = NoClient => Stopping = {}
  BY ProxyAssumption DEF PInv, HoldersLocked, Holds, Stopping
<1>4. QED
  BY <1>1, <1>2, <1>3 DEF FinalizedMeansGone, PInv, SlotOK

LEMMA PInvInit == Init => PInv
<1> SUFFICES ASSUME Init PROVE PInv
  OBVIOUS
<1>1. ProxyTypeOK
  BY ProxyAssumption DEF Init, ProxyTypeOK, ClientState, ThreadState, Idle, Doing
<1>2. HoldersLocked /\ SlotOK /\ ChannelsOK
  BY ProxyAssumption
     DEF Init, HoldersLocked, Holds, SlotOK, Calling, Stopping, Gone, ChannelsOK, Quiet, Idle, Doing
<1>3. UnmadeOK
  <2>1. Trying = {}
    BY DEF Init, Idle, Trying
  <2>2. Attempts = 0
    <3>1. Cardinality(Trying) = 0
      BY <2>1, FS_EmptySet
    <3>2. Attempts = made + Cardinality(Trying)
      BY DEF Attempts, Trying
    <3>3. QED
      BY <3>1, <3>2 DEF Init
  <2>3. QED
    BY <2>2, ProxyAssumption DEF Init, UnmadeOK, Incarnation, Doing
<1>4. QED
  BY <1>1, <1>2, <1>3 DEF PInv

-----------------------------------------------------------------------------
(* Steps of one client. *)

\* No new C_Initialize: there are still incarnations for all.
LEMMA TryingKept ==
  ASSUME PInv, made' = made, Trying' \subseteq Trying
  PROVE  Attempts' <= MaxIncarnation
<1>1. IsFiniteSet(Trying) /\ IsFiniteSet(Trying')
  BY FS_Subset, ProxyAssumption DEF Trying
<1>2. Cardinality(Trying') <= Cardinality(Trying) /\ Cardinality(Trying) \in Nat /\ Cardinality(Trying') \in Nat
  BY <1>1, FS_Subset, FS_CardinalityType
<1>3. Attempts = made + Cardinality(Trying) /\ Attempts' = made' + Cardinality(Trying')
  BY DEF Attempts, Trying
<1>4. QED
  BY <1>2, <1>3, ProxyAssumption DEF PInv, ProxyTypeOK, UnmadeOK

\* A client that is not waiting and does not begin to leaves the channels as they should be.
LEMMA MovesOutside ==
  ASSUME PInv, NEW c \in Client, NEW w \in ClientState, client' = [client EXCEPT ![c] = w],
         client[c].at \notin {"awaiting", "joining"}, w.at \notin {"awaiting", "joining"},
         UNCHANGED <<slot, made, threads, channels>>
  PROVE  SlotOK' /\ ChannelsOK' /\ Stopping' = Stopping
<1>1. /\ client'[c] = w
      /\ \A d \in Client : d # c => client'[d] = client[d]
  BY DEF PInv, ProxyTypeOK
<1>2. \A d \in Client : client'[d].at \in {"awaiting", "joining"} \/ client[d].at \in {"awaiting", "joining"} =>
                        client'[d] = client[d]
  BY <1>1
<1>3. Stopping' = Stopping
  BY <1>2 DEF Stopping
<1>4. SlotOK'
  BY <1>2, <1>3 DEF PInv, SlotOK, Calling, threads, Gone, Stopping
<1>5. \A i \in Incarnation : Awaited(i) => Awaited(i)'
  BY <1>2 DEF Awaited
<1>6. \A i \in Incarnation : IF thread'[i].at = "panicked" THEN replies'[i] = <<>>
                                                         ELSE Awaited(i)' \/ Quiet(i)'
  BY <1>5 DEF PInv, ChannelsOK, threads, channels, Quiet
<1>7. \A i, call : UnderWay(i, call)' <=> UnderWay(i, call)
  BY DEF UnderWay, Answered, threads, channels
<1>8. ChannelsOK'
  BY <1>2, <1>6, <1>7 DEF PInv, ChannelsOK, threads
<1>9. QED
  BY <1>3, <1>4, <1>8

\* While a client has the mutex and has not sent anything, nobody waits and nothing is in flight.
LEMMA LockedAlone ==
  ASSUME PInv, NEW c \in Client, client[c].at = "locked"
  PROVE  /\ lock = c /\ Stopping = {}
         /\ \A d \in Client : client[d].at \notin {"awaiting", "joining"}
         /\ \A i \in Incarnation : ~Awaited(i)
         /\ \A i \in Incarnation : ~Gone(i) => i = slot
<1>1. lock = c
  BY DEF PInv, HoldersLocked, Holds
<1>2. \A d \in Client : client[d].at \notin {"awaiting", "joining"}
  <2> SUFFICES ASSUME NEW d \in Client, client[d].at \in {"awaiting", "joining"} PROVE FALSE
    OBVIOUS
  <2>1. lock = d
    BY DEF PInv, HoldersLocked, Holds
  <2>2. QED
    BY <1>1, <2>1
<1>3. Stopping = {}
  BY <1>2 DEF Stopping
<1>4. \A i \in Incarnation : ~Awaited(i)
  BY <1>2 DEF Awaited
<1>5. \A i \in Incarnation : ~Gone(i) => i = slot
  BY <1>3 DEF PInv, SlotOK
<1>6. QED
  BY <1>1, <1>2, <1>3, <1>4, <1>5

LEMMA InvokeKeepsPInv ==
  ASSUME PInv, NEW c \in Client, NEW call \in Call, Invoke(c, call)
  PROVE  PInv'
<1>1. Wants(call) \in ClientState /\ Wants(call).at = "wants"
  BY DEF Wants, ClientState
<1>2. /\ client' = [client EXCEPT ![c] = Wants(call)] /\ client[c].at = "idle"
      /\ UNCHANGED <<lock, slot, made, threads, channels>>
  BY DEF Invoke, Goto, Idle
<1>3. client'[c] = Wants(call) /\ \A d \in Client : d # c => client'[d] = client[d]
  BY <1>2 DEF PInv, ProxyTypeOK
<1>4. SlotOK' /\ ChannelsOK'
  BY <1>1, <1>2, MovesOutside
<1>5. ProxyTypeOK'
  BY <1>1, <1>2 DEF PInv, ProxyTypeOK, threads, channels
<1>6. HoldersLocked'
  BY <1>1, <1>2, <1>3 DEF PInv, HoldersLocked, Holds
<1>7. Attempts' <= MaxIncarnation
  <2>1. CASE call # "C_Initialize"
    <3>1. Trying' \subseteq Trying
      BY <1>3, <2>1 DEF Trying, Wants
    <3>2. QED
      BY <1>2, <3>1, TryingKept
  <2>2. CASE call = "C_Initialize"
    <3>1. Trying' = Trying \cup {c}
      BY <1>3, <2>2 DEF Trying, Wants
    <3>2. IsFiniteSet(Trying)
      BY FS_Subset, ProxyAssumption DEF Trying
    <3>3. /\ Cardinality(Trying') <= Cardinality(Trying) + 1
          /\ Cardinality(Trying') \in Nat /\ Cardinality(Trying) \in Nat
      <4>1. Cardinality(Trying) \in Nat
        BY <3>2, FS_CardinalityType
      <4>2. Cardinality(Trying \cup {c}) \in {Cardinality(Trying), Cardinality(Trying) + 1}
        BY <3>2, <4>1, FS_AddElement
      <4>3. QED
        BY <3>1, <4>1, <4>2
    <3>4. Attempts = made + Cardinality(Trying) /\ Attempts' = made' + Cardinality(Trying')
      BY DEF Attempts, Trying
    <3>5. Attempts < MaxIncarnation
      BY <2>2 DEF Invoke
    <3>6. QED
      BY <1>2, <3>3, <3>4, <3>5, ProxyAssumption DEF PInv, ProxyTypeOK
  <2>3. QED
    BY <2>1, <2>2
<1>8. UnmadeOK'
  BY <1>2, <1>7 DEF PInv, UnmadeOK, threads
<1>9. QED
  BY <1>4, <1>5, <1>6, <1>8 DEF PInv

LEMMA AcquireKeepsPInv ==
  ASSUME PInv, NEW c \in Client, Acquire(c)
  PROVE  PInv'
<1> DEFINE call == client[c].call
<1>1. call \in Call
  BY DEF Acquire, PInv, ProxyTypeOK, ClientState
<1>2. Locked(call) \in ClientState /\ Locked(call).at = "locked"
  BY <1>1 DEF Locked, ClientState
<1>3. /\ client' = [client EXCEPT ![c] = Locked(call)] /\ client[c].at = "wants"
      /\ lock = NoClient /\ lock' = c
      /\ UNCHANGED <<slot, made, threads, channels>>
  BY DEF Acquire, Goto
<1>4. client'[c] = Locked(call) /\ \A d \in Client : d # c => client'[d] = client[d]
  BY <1>3 DEF PInv, ProxyTypeOK
<1>5. SlotOK' /\ ChannelsOK'
  BY <1>2, <1>3, MovesOutside
<1>6. ProxyTypeOK'
  BY <1>2, <1>3 DEF PInv, ProxyTypeOK, threads, channels
<1>7. HoldersLocked'
  BY <1>2, <1>3, <1>4, ProxyAssumption DEF PInv, HoldersLocked, Holds
<1>8. Trying' \subseteq Trying
  BY <1>3, <1>4 DEF Trying, Locked
<1>9. UnmadeOK'
  BY <1>3, <1>8, TryingKept DEF PInv, UnmadeOK, threads
<1>10. QED
  BY <1>5, <1>6, <1>7, <1>9 DEF PInv

LEMMA ReturnKeepsPInv ==
  ASSUME PInv, NEW c \in Client, Return(c)
  PROVE  PInv'
<1>1. Idle \in ClientState /\ Idle.at = "idle"
  BY DEF Idle, ClientState
<1>2. /\ client' = [client EXCEPT ![c] = Idle] /\ client[c].at = "done"
      /\ UNCHANGED <<lock, slot, made, threads, channels>>
  BY DEF Return, Goto
<1>3. client'[c] = Idle /\ \A d \in Client : d # c => client'[d] = client[d]
  BY <1>2 DEF PInv, ProxyTypeOK
<1>4. SlotOK' /\ ChannelsOK'
  BY <1>1, <1>2, MovesOutside
<1>5. ProxyTypeOK'
  BY <1>1, <1>2 DEF PInv, ProxyTypeOK, threads, channels
<1>6. HoldersLocked'
  BY <1>1, <1>2, <1>3 DEF PInv, HoldersLocked, Holds
<1>7. Trying' \subseteq Trying
  BY <1>1, <1>3 DEF Trying
<1>8. UnmadeOK'
  BY <1>2, <1>7, TryingKept DEF PInv, UnmadeOK, threads
<1>9. QED
  BY <1>4, <1>5, <1>6, <1>8 DEF PInv

\* A call that ends while its client holds the mutex but waits for nothing, with the slot as it is.
LEMMA ReturnWithKeepsPInv ==
  ASSUME PInv, NEW c \in Client, client[c].at = "locked", NEW reply \in Reply, ReturnWith(c, reply),
         UNCHANGED <<slot, made, threads, channels>>
  PROVE  PInv'
<1>1. Done(reply) \in ClientState /\ Done(reply).at = "done"
  BY DEF Done, ClientState
<1>2. client' = [client EXCEPT ![c] = Done(reply)] /\ lock' = NoClient
  BY DEF ReturnWith, Goto
<1>3. client'[c] = Done(reply) /\ \A d \in Client : d # c => client'[d] = client[d]
  BY <1>2 DEF PInv, ProxyTypeOK
<1>4. SlotOK' /\ ChannelsOK'
  BY <1>1, <1>2, MovesOutside
<1>5. ProxyTypeOK'
  BY <1>1, <1>2 DEF PInv, ProxyTypeOK, threads, channels
<1>6. HoldersLocked'
  BY <1>1, <1>2, <1>3, LockedAlone, ProxyAssumption DEF PInv, HoldersLocked, Holds
<1>7. Trying' \subseteq Trying
  BY <1>1, <1>3 DEF Trying
<1>8. UnmadeOK'
  BY <1>7, TryingKept DEF PInv, UnmadeOK, threads
<1>9. QED
  BY <1>4, <1>5, <1>6, <1>8 DEF PInv

LEMMA InitializeKeepsPInv ==
  ASSUME PInv, NEW c \in Client, C_Initialize(c)
  PROVE  PInv'
<1>1. client[c].at = "locked" /\ client[c].call = "C_Initialize"
  BY DEF C_Initialize, Locked
<1>2. CASE slot # 0
  <2>1. [code |-> "ALREADY_INITIALIZED"] \in Reply
    BY DEF Reply, Code
  <2>2. ReturnWith(c, [code |-> "ALREADY_INITIALIZED"]) /\ UNCHANGED <<slot, made, threads, channels>>
    BY <1>2 DEF C_Initialize, threads
  <2>3. QED
    BY <1>1, <2>1, <2>2, ReturnWithKeepsPInv
<1>3. CASE slot = 0
  <2>1. /\ made' = made + 1 /\ slot' = made + 1 /\ lock' = NoClient
        /\ thread' = [thread EXCEPT ![made + 1] = Doing("starting")]
        /\ client' = [client EXCEPT ![c] = Done([code |-> "OK"])]
        /\ UNCHANGED <<manager, channels>>
    BY <1>3 DEF C_Initialize, ReturnWith, Goto
  <2>2. Trying' = Trying \ {c} /\ c \in Trying
    BY <1>1, <2>1 DEF PInv, ProxyTypeOK, Trying, Done
  <2>3. /\ Cardinality(Trying') = Cardinality(Trying) - 1
        /\ Cardinality(Trying') \in Nat /\ Cardinality(Trying) \in Nat
    <3>1. IsFiniteSet(Trying) /\ IsFiniteSet(Trying \ {c})
      BY FS_Subset, ProxyAssumption DEF Trying
    <3>2. Cardinality(Trying) \in Nat /\ Cardinality(Trying \ {c}) \in Nat
      BY <3>1, FS_CardinalityType
    <3>3. Cardinality(Trying \ {c}) = Cardinality(Trying) - 1
      BY <2>2, <3>1, FS_RemoveElement
    <3>4. QED
      BY <2>2, <3>2, <3>3
  <2>4. Attempts' <= MaxIncarnation /\ made + 1 \in Incarnation
    <3>1. Attempts = made + Cardinality(Trying) /\ Attempts' = made' + Cardinality(Trying')
      BY DEF Attempts, Trying
    <3>2. QED
      BY <2>1, <2>3, <3>1, ProxyAssumption DEF PInv, ProxyTypeOK, UnmadeOK, Incarnation
  <2>5. Done([code |-> "OK"]) \in ClientState /\ Done([code |-> "OK"]).at = "done"
    BY DEF Done, ClientState, Reply, Code
  <2>6. client'[c] = Done([code |-> "OK"]) /\ \A d \in Client : d # c => client'[d] = client[d]
    BY <2>1 DEF PInv, ProxyTypeOK
  <2>7. /\ thread'[made + 1] = Doing("starting")
        /\ \A i \in Incarnation : i # made + 1 => thread'[i] = thread[i]
    BY <2>1, <2>4 DEF PInv, ProxyTypeOK
  <2>8. Doing("starting") \in ThreadState /\ Doing("starting").at = "starting" /\ Doing("starting") # Doing("none")
    BY DEF Doing, ThreadState
  <2>9. \A d \in Client : client'[d].at \notin {"awaiting", "joining"}
    BY <1>1, <2>5, <2>6, LockedAlone
  <2>10. Stopping' = {}
    BY <2>9 DEF Stopping
  <2>11. ProxyTypeOK'
    BY <2>1, <2>4, <2>5, <2>8 DEF PInv, ProxyTypeOK, channels, Incarnation
  <2>12. HoldersLocked'
    BY <1>1, <2>1, <2>5, <2>6, LockedAlone, ProxyAssumption DEF PInv, HoldersLocked, Holds
  <2>13. UnmadeOK'
    <3>1. ASSUME NEW i \in Incarnation
          PROVE  IF i > made' THEN thread'[i] = Doing("none") /\ manager'[i] = Start
                              ELSE thread'[i] # Doing("none")
      <4>1. i \in Nat /\ made \in Nat
        BY DEF PInv, ProxyTypeOK, Incarnation
      <4>2. QED
        BY <2>1, <2>7, <2>8, <4>1 DEF PInv, UnmadeOK
    <3>2. QED
      BY <2>4, <3>1 DEF UnmadeOK
  <2>14. SlotOK'
    <3>1. slot' # 0 => thread'[slot'].at \in {"starting", "ready", "serving", "panicked"}
      BY <2>1, <2>7, <2>8
    <3>2. \A i \in Incarnation : ~Gone(i)' => i = slot'
      <4> SUFFICES ASSUME NEW i \in Incarnation, ~Gone(i)', i # made + 1 PROVE FALSE
        BY <2>1
      <4>1. ~Gone(i)
        BY <2>7 DEF Gone
      <4>2. i = slot
        BY <1>1, <4>1, LockedAlone
      <4>3. QED
        BY <1>3, <4>2 DEF Incarnation
    <3>3. QED
      BY <2>9, <2>10, <3>1, <3>2 DEF SlotOK, Calling
  <2>15. ChannelsOK'
    <3>1. ASSUME NEW i \in Incarnation
          PROVE  IF thread'[i].at = "panicked" THEN replies'[i] = <<>> ELSE Quiet(i)'
      <4>1. ~Awaited(i)
        BY <1>1, LockedAlone
      <4>2. CASE i = made + 1
        <5>1. thread[i] = Doing("none")
          BY <4>2 DEF PInv, ProxyTypeOK, UnmadeOK
        <5>2. Quiet(i)
          BY <4>1, <5>1 DEF PInv, ChannelsOK, Doing
        <5>3. QED
          BY <2>1, <2>7, <2>8, <4>2, <5>2 DEF channels, Quiet
      <4>3. CASE i # made + 1
        BY <2>1, <2>7, <4>1, <4>3 DEF PInv, ChannelsOK, channels, Quiet
      <4>4. QED
        BY <4>2, <4>3
    <3>2. QED
      BY <2>9, <3>1 DEF ChannelsOK
  <2>16. QED
    BY <2>11, <2>12, <2>13, <2>14, <2>15 DEF PInv
<1>4. QED
  BY <1>2, <1>3

\* The first half of proxy_call, for C_Finalize and for all other calls.
LEMMA SendKeepsPInv ==
  ASSUME PInv, NEW c \in Client, client[c].at = "locked",
         NEW call \in Request \cup {"C_Finalize"}, client[c].call = call,
         slot # 0, Send(c, slot, MessageOf(call)),
         slot' = IF call = "C_Finalize" THEN 0 ELSE slot, UNCHANGED <<made, threads, replies>>
  PROVE  PInv'
<1>1. slot \in Incarnation
  BY ProxyAssumption DEF PInv, ProxyTypeOK, Incarnation
<1>2. \A d \in Client : client[d].at \notin {"awaiting", "joining"}
  BY LockedAlone
<1>3. lock = c /\ \A i \in Incarnation : ~Gone(i) => i = slot
  BY LockedAlone
<1>4. \A i \in Incarnation : (thread[i].at = "panicked" /\ replies[i] = <<>>) \/ Quiet(i)
  BY LockedAlone DEF PInv, ChannelsOK
<1>5. CASE ~Gone(slot)
  <2>1. /\ requests' = [requests EXCEPT ![slot] = Append(@, MessageOf(call))]
        /\ client' = [client EXCEPT ![c] = Awaiting(call, slot)]
        /\ UNCHANGED lock
    BY <1>5 DEF Send, Goto
  <2>2. client'[c] = Awaiting(call, slot) /\ \A d \in Client : d # c => client'[d] = client[d]
    BY <2>1 DEF PInv, ProxyTypeOK
  <2>3. /\ Awaiting(call, slot) \in ClientState /\ Awaiting(call, slot).at = "awaiting"
        /\ Awaiting(call, slot).i = slot /\ Awaiting(call, slot).call = call
    BY <1>1 DEF Awaiting, ClientState
  <2>4. MessageOf(call) \in Message
    BY DEF MessageOf, Message
  <2>5. requests[slot] = <<>> /\ replies[slot] = <<>> /\ thread[slot].at \in {"starting", "ready"}
    BY <1>1, <1>4, <1>5 DEF Gone, Quiet, PInv, SlotOK
  <2>6. /\ requests'[slot] = <<MessageOf(call)>>
        /\ \A i \in Incarnation : i # slot => requests'[i] = requests[i]
    BY <1>1, <2>1, <2>5 DEF PInv, ProxyTypeOK
  <2>7. ProxyTypeOK'
    BY <1>1, <2>1, <2>3, <2>4 DEF PInv, ProxyTypeOK, threads
  <2>8. HoldersLocked'
    BY <2>1, <2>2, <2>3 DEF PInv, HoldersLocked, Holds
  <2>9. UnmadeOK'
    <3>1. Trying' \subseteq Trying
      BY <2>2, <2>3 DEF Trying
    <3>2. QED
      BY <3>1, TryingKept DEF PInv, UnmadeOK, threads
  <2>10. SlotOK'
    <3>1. Stopping' = IF call = "C_Finalize" THEN {c} ELSE {}
      BY <1>2, <2>2, <2>3 DEF Stopping
    <3>2. \A i \in Incarnation : Gone(i)' <=> Gone(i)
      BY DEF Gone, threads
    <3>3. \A i \in Incarnation : ~Gone(i)' => i = slot' \/ \E d \in Stopping' : client'[d].i = i
      BY <1>3, <2>2, <2>3, <3>1, <3>2
    <3>4. \A d \in Client : Calling(d)' => client'[d].i = slot'
      BY <1>2, <2>2, <2>3 DEF Calling
    <3>5. slot' # 0 => thread'[slot'].at \in {"starting", "ready", "serving", "panicked"}
      BY DEF threads, PInv, SlotOK
    <3>6. QED
      BY <3>1, <3>3, <3>4, <3>5 DEF SlotOK
  <2>11. ChannelsOK'
    <3> PICK j \in Incarnation : j = slot
      BY <1>1
    <3>1. UnderWay(j, call)'
      BY <2>5, <2>6 DEF UnderWay, threads
    <3>2. \A d \in Client : client'[d].at \in {"awaiting", "joining"} => d = c
      BY <1>2, <2>2
    <3>3. Awaited(j)'
      BY <2>2, <2>3 DEF Awaited
    <3>4. \A i \in Incarnation : i # j => (thread'[i].at = "panicked" /\ replies'[i] = <<>>) \/ Quiet(i)'
      BY <1>4, <2>6 DEF threads, Quiet
    <3>5. thread'[j].at # "panicked"
      BY <2>5 DEF threads
    <3>6. \A i \in Incarnation : IF thread'[i].at = "panicked" THEN replies'[i] = <<>>
                                                             ELSE Awaited(i)' \/ Quiet(i)'
      BY <3>3, <3>4, <3>5 DEF Quiet
    <3>7. QED
      BY <2>2, <2>3, <3>1, <3>2, <3>6 DEF ChannelsOK
  <2>12. QED
    BY <2>7, <2>8, <2>9, <2>10, <2>11 DEF PInv
<1>6. CASE Gone(slot)
  <2>1. /\ client' = [client EXCEPT ![c] = Done([code |-> "ERR"])] /\ lock' = NoClient
        /\ UNCHANGED channels
    BY <1>6 DEF Send, ReturnWith, Goto, channels
  <2>2. client'[c] = Done([code |-> "ERR"]) /\ \A d \in Client : d # c => client'[d] = client[d]
    BY <2>1 DEF PInv, ProxyTypeOK
  <2>3. Done([code |-> "ERR"]) \in ClientState /\ Done([code |-> "ERR"]).at = "done"
    BY DEF Done, ClientState, Reply, Code
  <2>4. ProxyTypeOK'
    BY <2>1, <2>3 DEF PInv, ProxyTypeOK, threads, channels
  <2>5. HoldersLocked'
    BY <1>3, <2>1, <2>2, <2>3, ProxyAssumption DEF PInv, HoldersLocked, Holds
  <2>6. UnmadeOK'
    <3>1. Trying' \subseteq Trying
      BY <2>2, <2>3 DEF Trying
    <3>2. QED
      BY <3>1, TryingKept DEF PInv, UnmadeOK, threads
  <2>7. \A d \in Client : client'[d].at \notin {"awaiting", "joining"}
    BY <1>2, <2>2, <2>3
  <2>8. SlotOK'
    <3>1. Stopping' = {}
      BY <2>7 DEF Stopping
    <3>2. \A i \in Incarnation : Gone(i)'
      BY <1>3, <1>6 DEF Gone, threads
    <3>3. slot' # 0 => thread'[slot'].at \in {"starting", "ready", "serving", "panicked"}
      BY DEF threads, PInv, SlotOK
    <3>4. QED
      BY <2>7, <3>1, <3>2, <3>3 DEF SlotOK, Calling
  <2>9. ChannelsOK'
    BY <1>4, <2>1, <2>7 DEF ChannelsOK, Quiet, threads, channels
  <2>10. QED
    BY <2>4, <2>5, <2>6, <2>8, <2>9 DEF PInv
<1>7. QED
  BY <1>5, <1>6

LEMMA FinalizeKeepsPInv ==
  ASSUME PInv, NEW c \in Client, C_Finalize(c)
  PROVE  PInv'
<1>1. client[c].at = "locked" /\ client[c].call = "C_Finalize"
  BY DEF C_Finalize, Locked
<1>2. CASE slot # 0
  <2>1. Send(c, slot, MessageOf("C_Finalize"))
    BY <1>2 DEF C_Finalize, MessageOf
  <2>2. slot' = 0 /\ UNCHANGED <<made, threads, replies>>
    BY DEF C_Finalize
  <2>3. QED
    BY <1>1, <1>2, <2>1, <2>2, SendKeepsPInv
<1>3. CASE slot = 0
  <2>1. [code |-> "NOT_INITIALIZED"] \in Reply
    BY DEF Reply, Code
  <2>2. ReturnWith(c, [code |-> "NOT_INITIALIZED"]) /\ UNCHANGED <<slot, made, threads, channels>>
    BY <1>3 DEF C_Finalize, channels
  <2>3. QED
    BY <1>1, <2>1, <2>2, ReturnWithKeepsPInv
<1>4. QED
  BY <1>2, <1>3

LEMMA SendCallKeepsPInv ==
  ASSUME PInv, NEW c \in Client, SendCall(c)
  PROVE  PInv'
<1>1. client[c].at = "locked" /\ client[c].call \in Request /\ client[c].call # "C_Finalize"
  BY ProxyAssumption DEF SendCall
<1>2. CASE slot # 0
  <2>1. Send(c, slot, MessageOf(client[c].call))
    BY <1>1, <1>2 DEF SendCall, MessageOf
  <2>2. slot' = slot /\ UNCHANGED <<made, threads, replies>>
    BY DEF SendCall
  <2>3. QED
    BY <1>1, <1>2, <2>1, <2>2, SendKeepsPInv
<1>3. CASE slot = 0
  <2>1. [code |-> "NO_MANAGER"] \in Reply
    BY DEF Reply, Code
  <2>2. ReturnWith(c, [code |-> "NO_MANAGER"]) /\ UNCHANGED <<slot, made, threads, channels>>
    BY <1>3 DEF SendCall, channels
  <2>3. QED
    BY <1>1, <2>1, <2>2, ReturnWithKeepsPInv
<1>4. QED
  BY <1>2, <1>3

\* While a client waits or joins, the others do neither.
LEMMA WaitingAlone ==
  ASSUME PInv, NEW c \in Client, client[c].at \in {"awaiting", "joining"}
  PROVE  /\ lock = c /\ client[c].i \in Incarnation
         /\ client[c].call \in Request \cup {"C_Finalize"}
         /\ \A d \in Client : client[d].at \in {"awaiting", "joining"} => d = c
<1>1. lock = c
  BY DEF PInv, HoldersLocked, Holds
<1>2. \A d \in Client : client[d].at \in {"awaiting", "joining"} => d = c
  BY <1>1 DEF PInv, HoldersLocked, Holds
<1>3. client[c] \in ClientState
  BY DEF PInv, ProxyTypeOK
<1>4. client[c].i \in Incarnation /\ client[c].call \in Request \cup {"C_Finalize"}
  BY <1>3 DEF ClientState
<1>5. QED
  BY <1>1, <1>2, <1>4

\* A client that waited returns, and the thread it waited for is not needed any more.
LEMMA WaitEnds ==
  ASSUME PInv, NEW c \in Client, client[c].at \in {"awaiting", "joining"},
         NEW reply \in Reply, ReturnWith(c, reply), NEW i \in Incarnation, i = client[c].i,
         client[c].call = "C_Finalize" => Gone(i),
         UNCHANGED <<slot, made, threads, requests>>,
         replies' \in [Incarnation -> Seq(Reply)],
         \A j \in Incarnation : j # i => replies'[j] = replies[j],
         IF thread[i].at = "panicked" THEN replies'[i] = <<>> ELSE Quiet(i)'
  PROVE  PInv'
<1>1. /\ lock = c /\ client[c].call \in Request \cup {"C_Finalize"}
      /\ \A d \in Client : client[d].at \in {"awaiting", "joining"} => d = c
  BY WaitingAlone
<1>2. client' = [client EXCEPT ![c] = Done(reply)] /\ lock' = NoClient
  BY DEF ReturnWith, Goto
<1>3. client'[c] = Done(reply) /\ \A d \in Client : d # c => client'[d] = client[d]
  BY <1>2 DEF PInv, ProxyTypeOK
<1>4. Done(reply) \in ClientState /\ Done(reply).at = "done"
  BY DEF Done, ClientState
<1>5. \A d \in Client : client'[d].at \notin {"awaiting", "joining"}
  BY <1>1, <1>3, <1>4
<1>6. ProxyTypeOK'
  BY <1>2, <1>4 DEF PInv, ProxyTypeOK, threads
<1>7. HoldersLocked'
  BY <1>1, <1>2, <1>3, <1>4, ProxyAssumption DEF PInv, HoldersLocked, Holds
<1>8. UnmadeOK'
  <2>1. Trying' \subseteq Trying
    BY <1>3, <1>4 DEF Trying
  <2>2. QED
    BY <2>1, TryingKept DEF PInv, UnmadeOK, threads
<1>9. SlotOK'
  <2>1. Stopping' = {}
    BY <1>5 DEF Stopping
  <2>2. \A j \in Incarnation : Gone(j)' <=> Gone(j)
    BY DEF Gone, threads
  <2>3. \A j \in Incarnation : ~Gone(j)' => j = slot'
    <3> SUFFICES ASSUME NEW j \in Incarnation, ~Gone(j), j # slot PROVE FALSE
      BY <2>2
    <3>1. PICK d \in Stopping : client[d].i = j
      BY DEF PInv, SlotOK
    <3>2. d = c /\ client[c].call = "C_Finalize"
      BY <1>1, <3>1 DEF Stopping
    <3>3. QED
      BY <3>1, <3>2
  <2>4. slot' # 0 => thread'[slot'].at \in {"starting", "ready", "serving", "panicked"}
    BY DEF threads, PInv, SlotOK
  <2>5. QED
    BY <1>5, <2>1, <2>3, <2>4 DEF SlotOK, Calling
<1>10. ChannelsOK'
  <2>1. \A j \in Incarnation : j # i => IF thread[j].at = "panicked" THEN replies[j] = <<>> ELSE Quiet(j)
    BY <1>1 DEF PInv, ChannelsOK, Awaited
  <2>2. \A j \in Incarnation : j # i => (Quiet(j)' <=> Quiet(j))
    BY DEF Quiet, threads
  <2>3. \A j \in Incarnation : IF thread'[j].at = "panicked" THEN replies'[j] = <<>> ELSE Quiet(j)'
    BY <2>1, <2>2 DEF threads
  <2>4. QED
    BY <1>5, <2>3 DEF ChannelsOK
<1>11. QED
  BY <1>6, <1>7, <1>8, <1>9, <1>10 DEF PInv

LEMMA ReceiveKeepsPInv ==
  ASSUME PInv, NEW c \in Client, Receive(c)
  PROVE  PInv'
<1>1. client[c].at = "awaiting"
  BY DEF Receive
<1>2. PICK i \in Incarnation : i = client[c].i
  BY <1>1, WaitingAlone
<1>3. UNCHANGED <<slot, made, threads, requests>>
  BY DEF Receive
<1>4. CASE replies[i] # <<>>
  <2>1. /\ replies' = [replies EXCEPT ![i] = Tail(@)]
        /\ IF client[c].call = "C_Finalize" THEN Goto(c, Joining(i)) /\ UNCHANGED lock
                                           ELSE ReturnWith(c, Head(replies[i]))
    BY <1>2, <1>4 DEF Receive
  <2>2. thread[i].at # "panicked"
    BY <1>4 DEF PInv, ChannelsOK
  <2>3. requests[i] = <<>> /\ Answered(i, client[c].call)
    BY <1>1, <1>2, <1>4, <2>2 DEF PInv, ChannelsOK, UnderWay
  <2>4. PICK r : replies[i] = <<r>>
    BY <2>3 DEF Answered
  <2>5. replies[i] \in Seq(Reply)
    BY DEF PInv, ProxyTypeOK
  <2>6. Head(replies[i]) = r /\ Tail(replies[i]) = <<>> /\ r \in Reply
    BY <2>4, <2>5
  <2>7. /\ replies' \in [Incarnation -> Seq(Reply)] /\ replies'[i] = <<>>
        /\ \A j \in Incarnation : j # i => replies'[j] = replies[j]
    <3>1. replies' = [replies EXCEPT ![i] = <<>>]
      BY <2>1, <2>6
    <3>2. <<>> \in Seq(Reply)
      OBVIOUS
    <3>3. QED
      BY <3>1, <3>2 DEF PInv, ProxyTypeOK
  <2>8. thread[i].at # "serving"
    BY <2>3 DEF Answered
  <2>9. Quiet(i)'
    BY <1>3, <2>3, <2>7, <2>8 DEF Quiet, threads
  <2>10. CASE client[c].call # "C_Finalize"
    BY <1>1, <1>2, <1>3, <2>1, <2>2, <2>6, <2>7, <2>9, <2>10, WaitEnds
  <2>11. CASE client[c].call = "C_Finalize"
    <3>1. client' = [client EXCEPT ![c] = Joining(i)] /\ UNCHANGED lock
      BY <2>1, <2>11 DEF Goto
    <3>2. client'[c] = Joining(i) /\ \A d \in Client : d # c => client'[d] = client[d]
      BY <3>1 DEF PInv, ProxyTypeOK
    <3>3. /\ Joining(i) \in ClientState /\ Joining(i).at = "joining" /\ Joining(i).i = i
          /\ Joining(i).call = "C_Finalize"
      BY DEF Joining, ClientState
    <3>4. \A d \in Client : client[d].at \in {"awaiting", "joining"} => d = c
      BY <1>1, WaitingAlone
    <3>5. ProxyTypeOK'
      BY <1>3, <2>7, <3>1, <3>3 DEF PInv, ProxyTypeOK, threads
    <3>6. HoldersLocked'
      BY <1>1, <3>1, <3>2, <3>3 DEF PInv, HoldersLocked, Holds
    <3>7. UnmadeOK'
      <4>1. Trying' \subseteq Trying
        BY <3>2, <3>3 DEF Trying
      <4>2. QED
        BY <1>3, <4>1, TryingKept DEF PInv, UnmadeOK, threads
    <3>8. SlotOK'
      <4>1. Stopping' = Stopping /\ \A d \in Stopping : client'[d].i = client[d].i
        BY <1>1, <1>2, <2>11, <3>2, <3>3 DEF Stopping
      <4>2. \A j \in Incarnation : Gone(j)' <=> Gone(j)
        BY <1>3 DEF Gone, threads
      <4>3. \A d \in Client : ~Calling(d)'
        BY <3>2, <3>3, <3>4 DEF Calling
      <4>4. slot' # 0 => thread'[slot'].at \in {"starting", "ready", "serving", "panicked"}
        BY <1>3 DEF threads, PInv, SlotOK
      <4>5. QED
        BY <1>3, <4>1, <4>2, <4>3, <4>4 DEF PInv, SlotOK
    <3>9. ChannelsOK'
      <4>1. \A j \in Incarnation : j # i => IF thread[j].at = "panicked" THEN replies[j] = <<>> ELSE Quiet(j)
        BY <1>2, <3>4 DEF PInv, ChannelsOK, Awaited
      <4>2. \A j \in Incarnation : j # i => (Quiet(j)' <=> Quiet(j))
        BY <1>3, <2>7 DEF Quiet, threads
      <4>3. \A j \in Incarnation : IF thread'[j].at = "panicked" THEN replies'[j] = <<>> ELSE Quiet(j)'
        BY <1>3, <2>7, <2>9, <4>1, <4>2 DEF threads
      <4>4. thread'[i].at \in {"exiting", "stopped"}
        BY <1>3, <2>3, <2>11 DEF Answered, threads
      <4>5. \A d \in Client : client'[d].at \in {"awaiting", "joining"} => d = c
        BY <3>2, <3>4
      <4>6. QED
        BY <3>2, <3>3, <4>3, <4>4, <4>5 DEF ChannelsOK
    <3>10. QED
      BY <3>5, <3>6, <3>7, <3>8, <3>9 DEF PInv
  <2>12. QED
    BY <2>10, <2>11
<1>5. CASE replies[i] = <<>>
  <2>1. Gone(i) /\ ReturnWith(c, [code |-> "ERR"]) /\ UNCHANGED replies
    BY <1>2, <1>5 DEF Receive
  <2>2. [code |-> "ERR"] \in Reply
    BY DEF Reply, Code
  <2>3. thread[i].at = "panicked"
    <3> SUFFICES ASSUME thread[i].at # "panicked" PROVE FALSE
      OBVIOUS
    <3>1. UnderWay(i, client[c].call)
      BY <1>1, <1>2 DEF PInv, ChannelsOK
    <3>2. thread[i].at \in {"starting", "ready", "serving"} \/ Answered(i, client[c].call)
      BY <3>1 DEF UnderWay, Serving
    <3>3. PICK r : replies[i] = <<r>>
      BY <2>1, <3>2 DEF Answered, Gone
    <3>4. Len(replies[i]) = 1
      BY <3>3
    <3>5. Len(replies[i]) = 0
      BY <1>5
    <3>6. QED
      BY <3>4, <3>5
  <2>4. replies' \in [Incarnation -> Seq(Reply)]
    BY <2>1 DEF PInv, ProxyTypeOK
  <2>5. QED
    BY <1>1, <1>2, <1>3, <1>5, <2>1, <2>2, <2>3, <2>4, WaitEnds
<1>6. QED
  BY <1>4, <1>5

LEMMA JoinKeepsPInv ==
  ASSUME PInv, NEW c \in Client, Join(c)
  PROVE  PInv'
<1>1. client[c].at = "joining" /\ ReturnWith(c, [code |-> "OK"]) /\ UNCHANGED <<slot, made, threads, channels>>
  BY DEF Join
<1>2. PICK i \in Incarnation : i = client[c].i
  BY <1>1, WaitingAlone
<1>3. Gone(i) /\ thread[i].at # "panicked"
  BY <1>1, <1>2 DEF Join, PInv, ChannelsOK
<1>4. [code |-> "OK"] \in Reply
  BY DEF Reply, Code
<1>5. Quiet(i)'
  <2>1. ~Awaited(i)
    BY <1>1, WaitingAlone DEF Awaited
  <2>2. QED
    BY <1>1, <1>3, <2>1 DEF PInv, ChannelsOK, Quiet, channels, threads
<1>6. replies' \in [Incarnation -> Seq(Reply)] /\ UNCHANGED <<replies, requests>>
  BY <1>1 DEF PInv, ProxyTypeOK, channels
<1>7. QED
  BY <1>1, <1>2, <1>3, <1>4, <1>5, <1>6, WaitEnds

-----------------------------------------------------------------------------
(* Steps of one manager thread. *)

\* A thread that was alive moves on, and leaves its channels as its client expects them.
LEMMA ThreadMoves ==
  ASSUME PInv, NEW i \in Incarnation, ~Gone(i), NEW t \in ThreadState, t # Doing("none"),
         thread' = [thread EXCEPT ![i] = t], UNCHANGED <<lock, slot, made, client>>,
         manager' \in [Incarnation -> State], requests' \in [Incarnation -> Seq(Message)],
         replies' \in [Incarnation -> Seq(Reply)],
         \A j \in Incarnation \ {i} :
            manager'[j] = manager[j] /\ requests'[j] = requests[j] /\ replies'[j] = replies[j],
         slot = i => t.at \in {"starting", "ready", "serving", "panicked"},
         \A c \in Client :
            client[c].at = "awaiting" /\ client[c].i = i /\ t.at # "panicked" => UnderWay(i, client[c].call)',
         \A c \in Client : client[c].at = "joining" /\ client[c].i = i => t.at \in {"exiting", "stopped"},
         IF t.at = "panicked" THEN replies'[i] = <<>> ELSE Awaited(i) \/ Quiet(i)'
  PROVE  PInv'
<1>1. thread'[i] = t /\ \A j \in Incarnation : j # i => thread'[j] = thread[j]
  BY DEF PInv, ProxyTypeOK
<1>2. ProxyTypeOK'
  BY DEF PInv, ProxyTypeOK
<1>3. HoldersLocked'
  BY DEF PInv, HoldersLocked, Holds
<1>4. UnmadeOK'
  <2>1. ~(i > made)
    BY DEF PInv, UnmadeOK, Gone, Doing
  <2>2. Attempts' = Attempts
    BY DEF Attempts
  <2>3. QED
    BY <1>1, <2>1, <2>2 DEF PInv, UnmadeOK
<1>5. SlotOK'
  <2>1. Stopping' = Stopping
    BY DEF Stopping
  <2>2. \A j \in Incarnation : ~Gone(j)' => ~Gone(j)
    BY <1>1 DEF Gone
  <2>3. slot' # 0 => thread'[slot'].at \in {"starting", "ready", "serving", "panicked"}
    <3> SUFFICES ASSUME slot # 0 PROVE thread'[slot].at \in {"starting", "ready", "serving", "panicked"}
      OBVIOUS
    <3>1. slot \in Incarnation
      BY ProxyAssumption DEF PInv, ProxyTypeOK, Incarnation
    <3>2. QED
      BY <1>1, <3>1 DEF PInv, SlotOK
  <2>4. QED
    BY <2>1, <2>2, <2>3 DEF PInv, SlotOK, Calling
<1>6. ChannelsOK'
  <2>1. \A j \in Incarnation : j # i => \A call : (UnderWay(j, call)' <=> UnderWay(j, call))
    BY <1>1 DEF UnderWay, Answered
  <2>2. \A j \in Incarnation : (j # i => (Quiet(j)' <=> Quiet(j))) /\ (Awaited(j)' <=> Awaited(j))
    BY <1>1 DEF Quiet, Awaited
  <2>3. \A c \in Client : client[c].at \in {"awaiting", "joining"} => client[c].i \in Incarnation
    BY WaitingAlone
  <2>4. ASSUME NEW c \in Client
        PROVE  /\ client'[c].at = "awaiting" /\ thread'[client'[c].i].at # "panicked" =>
                    UnderWay(client[c].i, client[c].call)'
               /\ client'[c].at = "joining" => thread'[client'[c].i].at \in {"exiting", "stopped"}
    <3>1. CASE client[c].at \in {"awaiting", "joining"} /\ client[c].i = i
      BY <1>1, <3>1
    <3>2. CASE client[c].at \in {"awaiting", "joining"} /\ client[c].i # i
      BY <1>1, <2>1, <2>3, <3>2 DEF PInv, ChannelsOK
    <3>3. QED
      BY <3>1, <3>2
  <2>5. \A j \in Incarnation : IF thread'[j].at = "panicked" THEN replies'[j] = <<>>
                                                           ELSE Awaited(j)' \/ Quiet(j)'
    BY <1>1, <2>2 DEF PInv, ChannelsOK
  <2>6. QED
    BY <2>4, <2>5 DEF ChannelsOK
<1>7. QED
  BY <1>2, <1>3, <1>4, <1>5, <1>6 DEF PInv

LEMMA BeginKeepsPInv ==
  ASSUME PInv, NEW i \in Incarnation, Begin(i)
  PROVE  PInv'
<1>1. /\ thread[i].at = "starting" /\ thread' = [thread EXCEPT ![i] = Doing("ready")]
      /\ UNCHANGED <<lock, slot, made, client, manager, requests, replies>>
  BY DEF Begin, channels
<1>2. Doing("ready") \in ThreadState /\ Doing("ready").at = "ready" /\ Doing("ready") # Doing("none")
  BY DEF Doing, ThreadState
<1>3. thread'[i].at = "ready"
  BY <1>1, <1>2 DEF PInv, ProxyTypeOK
<1>4. ASSUME NEW c \in Client, client[c].at = "awaiting", client[c].i = i
      PROVE  UnderWay(i, client[c].call)'
  <2>1. UnderWay(i, client[c].call)
    BY <1>1, <1>4 DEF PInv, ChannelsOK
  <2>2. requests[i] = <<MessageOf(client[c].call)>> /\ replies[i] = <<>>
    BY <1>1, <2>1 DEF UnderWay, Answered, Serving
  <2>3. QED
    BY <1>1, <1>3, <2>2 DEF UnderWay
<1>5. \A c \in Client : ~(client[c].at = "joining" /\ client[c].i = i)
  BY <1>1 DEF PInv, ChannelsOK
<1>6. Awaited(i) \/ Quiet(i)'
  BY <1>1, <1>3 DEF PInv, ChannelsOK, Quiet
<1>7. ~Gone(i)
  BY <1>1 DEF Gone
<1>8. QED
  BY <1>1, <1>2, <1>4, <1>5, <1>6, <1>7, ThreadMoves DEF PInv, ProxyTypeOK

\* A message that a thread has or is about to have is that of the client that waits for it.
LEMMA TakenFromClient ==
  ASSUME PInv, NEW i \in Incarnation, thread[i].at # "panicked",
         requests[i] # <<>> \/ thread[i].at = "serving"
  PROVE  \E c \in Client :
           /\ client[c].at = "awaiting" /\ client[c].i = i /\ UnderWay(i, client[c].call)
           /\ \A d \in Client : client[d].at \in {"awaiting", "joining"} => d = c
           /\ client[c].call \in Request \cup {"C_Finalize"}
<1>1. Awaited(i)
  BY DEF PInv, ChannelsOK, Quiet
<1>2. PICK c \in Client : client[c].at = "awaiting" /\ client[c].i = i
  BY <1>1 DEF Awaited
<1>3. QED
  BY <1>2, WaitingAlone DEF PInv, ChannelsOK

LEMMA TakeKeepsPInv ==
  ASSUME PInv, NEW i \in Incarnation, Take(i)
  PROVE  PInv'
<1>1. /\ thread[i].at = "ready" /\ requests[i] # <<>>
      /\ thread' = [thread EXCEPT ![i] = Serving(Head(requests[i]))]
      /\ requests' = [requests EXCEPT ![i] = Tail(@)]
      /\ UNCHANGED <<lock, slot, made, client, manager, replies>>
  BY DEF Take
<1>2. PICK c \in Client :
        /\ client[c].at = "awaiting" /\ client[c].i = i /\ UnderWay(i, client[c].call)
        /\ \A d \in Client : client[d].at \in {"awaiting", "joining"} => d = c
        /\ client[c].call \in Request \cup {"C_Finalize"}
  BY <1>1, TakenFromClient
<1> DEFINE m == MessageOf(client[c].call)
<1>3. requests[i] = <<m>> /\ replies[i] = <<>>
  BY <1>1, <1>2 DEF UnderWay, Serving
<1>4. Head(requests[i]) = m /\ Tail(requests[i]) = <<>> /\ m \in Message
  BY <1>2, <1>3 DEF MessageOf, Message
<1>5. Serving(m) \in ThreadState /\ Serving(m).at = "serving" /\ Serving(m) # Doing("none")
  BY <1>4 DEF Serving, ThreadState, Doing
<1>6. thread' = [thread EXCEPT ![i] = Serving(m)] /\ requests' = [requests EXCEPT ![i] = <<>>]
  BY <1>1, <1>4
<1>7. <<>> \in Seq(Message)
  OBVIOUS
<1>8. /\ requests' \in [Incarnation -> Seq(Message)] /\ requests'[i] = <<>>
      /\ \A j \in Incarnation : j # i => requests'[j] = requests[j]
  BY <1>6, <1>7 DEF PInv, ProxyTypeOK
<1>9. thread'[i] = Serving(m)
  BY <1>6 DEF PInv, ProxyTypeOK
<1>10. UnderWay(i, client[c].call)'
  BY <1>1, <1>3, <1>8, <1>9 DEF UnderWay
<1>11. Awaited(i) /\ ~Gone(i)
  BY <1>1, <1>2 DEF Awaited, Gone
<1>12. manager' \in [Incarnation -> State] /\ replies' \in [Incarnation -> Seq(Reply)]
  BY <1>1 DEF PInv, ProxyTypeOK
<1>13. \A d \in Client : client[d].at = "awaiting" => d = c
  BY <1>2
<1>14. \A d \in Client : client[d].at # "joining"
  BY <1>2
<1>15. \A j \in Incarnation \ {i} : manager'[j] = manager[j] /\ requests'[j] = requests[j] /\ replies'[j] = replies[j]
  BY <1>1, <1>8
<1>16. \A d \in Client : client[d].at = "awaiting" /\ client[d].i = i => UnderWay(i, client[d].call)'
  BY <1>10, <1>13
<1> HIDE DEF m
<1>17. UNCHANGED <<lock, slot, made, client>>
  BY <1>1
<1>18. \A d \in Client : client[d].at = "joining" /\ client[d].i = i => Serving(m).at \in {"exiting", "stopped"}
  BY <1>14
<1>19. IF Serving(m).at = "panicked" THEN replies'[i] = <<>> ELSE Awaited(i) \/ Quiet(i)'
  BY <1>5, <1>11
<1>20. slot = i => Serving(m).at \in {"starting", "ready", "serving", "panicked"}
  BY <1>5
<1>21. QED
  BY <1>5, <1>6, <1>8, <1>11, <1>12, <1>15, <1>16, <1>17, <1>18, <1>19, <1>20, ThreadMoves

LEMMA ServeKeepsPInv ==
  ASSUME PInv, NEW i \in Incarnation, Serve(i)
  PROVE  PInv'
<1>1. /\ thread[i].at = "serving"
      /\ UNCHANGED <<lock, slot, made, client, requests>>
  BY DEF Serve
<1>2. PICK c \in Client :
        /\ client[c].at = "awaiting" /\ client[c].i = i /\ UnderWay(i, client[c].call)
        /\ \A d \in Client : client[d].at \in {"awaiting", "joining"} => d = c
        /\ client[c].call \in Request \cup {"C_Finalize"}
  BY <1>1, TakenFromClient
<1>3. /\ thread[i] = Serving(MessageOf(client[c].call)) /\ requests[i] = <<>> /\ replies[i] = <<>>
  BY <1>1, <1>2 DEF UnderWay, Answered
<1>4. thread[i].message = MessageOf(client[c].call)
  BY <1>3 DEF Serving
<1>5. Awaited(i) /\ ~Gone(i)
  BY <1>1, <1>2 DEF Awaited, Gone
<1>6. \A d \in Client : (client[d].at = "awaiting" => d = c) /\ client[d].at # "joining"
  BY <1>2
<1>7. requests' \in [Incarnation -> Seq(Message)]
  BY <1>1 DEF PInv, ProxyTypeOK
<1>8. CASE client[c].call = "C_Finalize"
  <2>1. /\ replies' = [replies EXCEPT ![i] = Append(@, [code |-> "OK"])]
        /\ thread' = [thread EXCEPT ![i] = Doing("exiting")]
        /\ UNCHANGED manager
    BY <1>4, <1>8 DEF Serve, MessageOf
  <2>2. [code |-> "OK"] \in Reply
    BY DEF Reply, Code
  <2>3. /\ replies' \in [Incarnation -> Seq(Reply)] /\ replies'[i] = <<[code |-> "OK"]>>
        /\ \A j \in Incarnation : j # i => replies'[j] = replies[j]
    BY <1>3, <2>1, <2>2 DEF PInv, ProxyTypeOK
  <2>4. Doing("exiting") \in ThreadState /\ Doing("exiting").at = "exiting" /\ Doing("exiting") # Doing("none")
    BY DEF Doing, ThreadState
  <2>5. thread'[i].at = "exiting"
    BY <2>1, <2>4 DEF PInv, ProxyTypeOK
  <2>6. slot # i
    <3>1. slot = 0
      BY <1>2, <1>8 DEF PInv, SlotOK, Stopping
    <3>2. QED
      BY <3>1 DEF Incarnation
  <2>7. UnderWay(i, client[c].call)'
    BY <1>1, <1>3, <1>8, <2>3, <2>5 DEF UnderWay, Answered
  <2>8. manager' \in [Incarnation -> State]
    BY <2>1 DEF PInv, ProxyTypeOK
  <2>9. QED
    BY <1>1, <1>5, <1>6, <1>7, <2>1, <2>3, <2>4, <2>6, <2>7, <2>8, ThreadMoves
<1>9. CASE client[c].call # "C_Finalize"
  <2>1. thread[i].message = client[c].call /\ client[c].call \in Request /\ client[c].call # "Stop"
    BY <1>2, <1>4, <1>9, ProxyAssumption DEF MessageOf
  <2> DEFINE effect == Effect[manager[i], client[c].call]
  <2>2. /\ manager' = [manager EXCEPT ![i] = effect.state]
        /\ replies' = [replies EXCEPT ![i] = Append(@, [value |-> effect.value])]
        /\ thread' = [thread EXCEPT ![i] = Doing("ready")]
    BY <2>1 DEF Serve
  <2>3. effect \in [state : State, value : Value]
    BY <2>1, ProxyAssumption DEF PInv, ProxyTypeOK
  <2>4. effect.state \in State /\ effect.value \in Value
    BY <2>3
  <2> HIDE DEF effect
  <2>5. [value |-> effect.value] \in Reply
    BY <2>4 DEF Reply
  <2>6. /\ replies' \in [Incarnation -> Seq(Reply)] /\ replies'[i] = <<[value |-> effect.value]>>
        /\ \A j \in Incarnation : j # i => replies'[j] = replies[j]
    BY <1>3, <2>2, <2>5 DEF PInv, ProxyTypeOK
  <2>7. Doing("ready") \in ThreadState /\ Doing("ready").at = "ready" /\ Doing("ready") # Doing("none")
    BY DEF Doing, ThreadState
  <2>8. thread'[i].at = "ready"
    BY <2>2, <2>7 DEF PInv, ProxyTypeOK
  <2>9. UnderWay(i, client[c].call)'
    BY <1>1, <1>3, <1>9, <2>4, <2>6, <2>8 DEF UnderWay, Answered
  <2>10. /\ manager' \in [Incarnation -> State]
         /\ \A j \in Incarnation : j # i => manager'[j] = manager[j]
    BY <2>2, <2>4 DEF PInv, ProxyTypeOK
  <2>11. QED
    BY <1>1, <1>5, <1>6, <1>7, <2>2, <2>6, <2>7, <2>9, <2>10, ThreadMoves
<1>10. QED
  BY <1>8, <1>9

LEMMA PanicKeepsPInv ==
  ASSUME PInv, NEW i \in Incarnation, Panic(i)
  PROVE  PInv'
<1>1. /\ thread[i].at \in {"starting", "serving"} /\ thread' = [thread EXCEPT ![i] = Doing("panicked")]
      /\ UNCHANGED <<lock, slot, made, client, manager, requests, replies>>
  BY DEF Panic, channels
<1>2. Doing("panicked") \in ThreadState /\ Doing("panicked").at = "panicked" /\ Doing("panicked") # Doing("none")
  BY DEF Doing, ThreadState
<1>3. replies[i] = <<>>
  <2>1. CASE Quiet(i)
    BY <2>1 DEF Quiet
  <2>2. CASE Awaited(i)
    <3>1. PICK c \in Client : client[c].at = "awaiting" /\ client[c].i = i
      BY <2>2 DEF Awaited
    <3>2. UnderWay(i, client[c].call)
      BY <1>1, <3>1 DEF PInv, ChannelsOK
    <3>3. QED
      BY <1>1, <3>2 DEF UnderWay, Answered
  <2>3. QED
    BY <1>1, <2>1, <2>2 DEF PInv, ChannelsOK
<1>4. \A c \in Client : ~(client[c].at = "joining" /\ client[c].i = i)
  BY <1>1 DEF PInv, ChannelsOK
<1>5. ~Gone(i)
  BY <1>1 DEF Gone
<1>6. /\ manager' \in [Incarnation -> State] /\ requests' \in [Incarnation -> Seq(Message)]
      /\ replies' \in [Incarnation -> Seq(Reply)] /\ replies'[i] = <<>>
      /\ \A j \in Incarnation \ {i} :
            manager'[j] = manager[j] /\ requests'[j] = requests[j] /\ replies'[j] = replies[j]
  BY <1>1, <1>3 DEF PInv, ProxyTypeOK
<1>7. \A c \in Client : client[c].at = "joining" /\ client[c].i = i => Doing("panicked").at \in {"exiting", "stopped"}
  BY <1>4
<1>8. \A c \in Client : client[c].at = "awaiting" /\ client[c].i = i /\ Doing("panicked").at # "panicked" =>
         UnderWay(i, client[c].call)'
  BY <1>2
<1>9. QED
  BY <1>1, <1>2, <1>5, <1>6, <1>7, <1>8, ThreadMoves

LEMMA ExitKeepsPInv ==
  ASSUME PInv, NEW i \in Incarnation, Exit(i)
  PROVE  PInv'
<1>1. /\ thread[i].at = "exiting" /\ thread' = [thread EXCEPT ![i] = Doing("stopped")]
      /\ UNCHANGED <<lock, slot, made, client, manager, requests, replies>>
  BY DEF Exit, channels
<1>2. Doing("stopped") \in ThreadState /\ Doing("stopped").at = "stopped" /\ Doing("stopped") # Doing("none")
  BY DEF Doing, ThreadState
<1>3. thread'[i].at = "stopped"
  BY <1>1, <1>2 DEF PInv, ProxyTypeOK
<1>4. ASSUME NEW c \in Client, client[c].at = "awaiting", client[c].i = i
      PROVE  UnderWay(i, client[c].call)'
  <2>1. UnderWay(i, client[c].call)
    BY <1>1, <1>4 DEF PInv, ChannelsOK
  <2>2. requests[i] = <<>> /\ Answered(i, client[c].call)
    BY <1>1, <2>1 DEF UnderWay, Serving
  <2>3. QED
    BY <1>1, <1>3, <2>2 DEF UnderWay, Answered
<1>5. slot # i
  BY <1>1 DEF PInv, SlotOK, Incarnation
<1>6. Awaited(i) \/ Quiet(i)'
  BY <1>1, <1>3 DEF PInv, ChannelsOK, Quiet
<1>7. ~Gone(i)
  BY <1>1 DEF Gone
<1>8. /\ manager' \in [Incarnation -> State] /\ requests' \in [Incarnation -> Seq(Message)]
      /\ replies' \in [Incarnation -> Seq(Reply)]
      /\ \A j \in Incarnation \ {i} :
            manager'[j] = manager[j] /\ requests'[j] = requests[j] /\ replies'[j] = replies[j]
  BY <1>1 DEF PInv, ProxyTypeOK
<1>9. \A c \in Client : client[c].at = "joining" /\ client[c].i = i => Doing("stopped").at \in {"exiting", "stopped"}
  BY <1>2
<1>10. \A c \in Client : client[c].at = "awaiting" /\ client[c].i = i => UnderWay(i, client[c].call)'
  BY <1>4
<1>11. QED
  BY <1>1, <1>2, <1>5, <1>6, <1>7, <1>8, <1>9, <1>10, ThreadMoves

-----------------------------------------------------------------------------

LEMMA StutterKeepsPInv ==
  ASSUME PInv, UNCHANGED vars
  PROVE  PInv'
<1>1. UNCHANGED <<lock, slot, made, client, thread, manager, requests, replies>>
  BY DEF vars
<1>2. ProxyTypeOK' /\ HoldersLocked'
  BY <1>1 DEF PInv, ProxyTypeOK, HoldersLocked, Holds
<1>3. UnmadeOK'
  BY <1>1 DEF PInv, UnmadeOK, Attempts
<1>4. SlotOK'
  BY <1>1 DEF PInv, SlotOK, Calling, Stopping, Gone
<1>5. ChannelsOK'
  BY <1>1 DEF PInv, ChannelsOK, UnderWay, Answered, Awaited, Quiet
<1>6. QED
  BY <1>2, <1>3, <1>4, <1>5 DEF PInv

LEMMA StepKeepsPInv ==
  ASSUME PInv, [Next]_vars
  PROVE  PInv'
<1>1. CASE \E c \in Client : ClientStep(c) \/ \E call \in Call : Invoke(c, call)
  <2>1. PICK c \in Client : ClientStep(c) \/ \E call \in Call : Invoke(c, call)
    BY <1>1
  <2>2. QED
    BY <2>1, InvokeKeepsPInv, AcquireKeepsPInv, InitializeKeepsPInv, FinalizeKeepsPInv, SendCallKeepsPInv,
       ReceiveKeepsPInv, JoinKeepsPInv, ReturnKeepsPInv
       DEF ClientStep
<1>2. CASE \E i \in Incarnation : ThreadStep(i) \/ Panic(i)
  BY <1>2, BeginKeepsPInv, TakeKeepsPInv, ServeKeepsPInv, ExitKeepsPInv, PanicKeepsPInv DEF ThreadStep
<1>3. CASE UNCHANGED vars
  BY <1>3, StutterKeepsPInv
<1>4. QED
  BY <1>1, <1>2, <1>3 DEF Next

\* The inductive invariant: types, one holder of the mutex, the numbering of incarnations, the slot
\* against the threads that are alive, and the channels against the client that waits.
THEOREM ProxyInvariant == Spec => []PInv
<1>1. Init => PInv
  BY PInvInit
<1>2. PInv /\ [Next]_vars => PInv'
  BY StepKeepsPInv
<1>3. QED
  BY <1>1, <1>2, PTL DEF Spec

\* A reply is never left for the next caller, whatever panics and whoever calls (proxy_call).
THEOREM RepliesMatch == Spec => []NoStrayMessages
<1>1. PInv => NoStrayMessages
  BY PInvGivesProperties
<1>2. QED
  BY <1>1, ProxyInvariant, PTL

\* No two manager threads are alive, and none outside of the slot once nobody is inside the module
\* (C_Finalize, ManagerProxy::stop).
THEOREM FinalizedIsGone == Spec => []FinalizedMeansGone
<1>1. PInv => FinalizedMeansGone
  BY PInvGivesProperties
<1>2. QED
  BY <1>1, ProxyInvariant, PTL

-----------------------------------------------------------------------------
(* Every call ends: what is between a client that holds the mutex and its return. *)

\* The steps a client at w may have to see before it returns, when the thread it talks to is at th
\* and rq is left in the channel to it.
StepsAt(w, th, rq) ==
  IF w.at = "locked" THEN 7
  ELSE IF w.at = "awaiting"
  THEN IF th.at = "starting" THEN 6
       ELSE IF th.at = "ready" THEN (IF rq = <<>> THEN 1 ELSE 5)
       ELSE IF th.at = "serving" THEN 4
       ELSE IF th.at = "exiting" THEN 3
       ELSE IF th.at = "stopped" THEN 2
       ELSE IF th.at = "panicked" THEN 1 ELSE 0
  ELSE IF w.at = "joining"
  THEN IF th.at = "exiting" THEN 2 ELSE IF th.at = "stopped" THEN 1 ELSE 0
  ELSE 0
StepsLeft(c) == StepsAt(client[c], thread[client[c].i], requests[client[c].i])

\* The client, or the thread that it waits for, can take its next step.
HolderGoesOn(c) ==
  \/ client[c].at = "locked"
  \/ client[c].at = "awaiting" /\ (replies[client[c].i] # <<>> \/ Gone(client[c].i))
  \/ client[c].at = "joining" /\ Gone(client[c].i)
  \/ /\ client[c].at \in {"awaiting", "joining"}
     /\ \/ thread[client[c].i].at \in {"starting", "serving", "exiting"}
        \/ thread[client[c].i].at = "ready" /\ requests[client[c].i] # <<>>

\* A step of the holder or of the thread it waits for brings the return nearer, no other step puts
\* it off, and the mutex is only let go by returning.
HolderAdvances(c) ==
  lock = c =>
    /\ StepsLeft(c)' <= StepsLeft(c)
    /\ \/ client'[c] # client[c]
       \/ client[c].at # "locked" /\ thread'[client[c].i] # thread[client[c].i]
       => StepsLeft(c)' < StepsLeft(c)
    /\ lock' = c \/ (lock' = NoClient /\ client'[c].at = "done")

LEMMA StepsAtIs ==
  ASSUME NEW w, NEW th, NEW rq
  PROVE  /\ StepsAt(w, th, rq) \in 0 .. 7
         /\ w.at = "locked" => StepsAt(w, th, rq) = 7
         /\ w.at = "awaiting" =>
              /\ StepsAt(w, th, rq) <= 6
              /\ th.at = "starting" => StepsAt(w, th, rq) = 6
              /\ th.at = "ready" /\ rq # <<>> => StepsAt(w, th, rq) = 5
              /\ th.at = "serving" => StepsAt(w, th, rq) = 4
              /\ th.at = "exiting" => StepsAt(w, th, rq) = 3
              /\ th.at = "stopped" => StepsAt(w, th, rq) = 2
              /\ th.at = "ready" /\ rq = <<>> => StepsAt(w, th, rq) = 1
              /\ th.at = "panicked" => StepsAt(w, th, rq) = 1
         /\ w.at = "joining" =>
              /\ StepsAt(w, th, rq) <= 2
              /\ th.at = "exiting" => StepsAt(w, th, rq) = 2
              /\ th.at = "stopped" => StepsAt(w, th, rq) = 1
         /\ w.at \in {"idle", "wants", "done"} => StepsAt(w, th, rq) = 0
<1>1. CASE w.at = "locked"
  BY <1>1 DEF StepsAt
<1>2. CASE w.at = "awaiting"
  BY <1>2 DEF StepsAt
<1>3. CASE w.at = "joining"
  BY <1>3 DEF StepsAt
<1>4. CASE w.at \notin {"locked", "awaiting", "joining"}
  BY <1>4 DEF StepsAt
<1>5. QED
  BY <1>1, <1>2, <1>3, <1>4

\* Where a client that waits finds its thread.
LEMMA HolderWaits ==
  ASSUME PInv, NEW c \in Client, lock = c
  PROVE  /\ client[c].at \in {"locked", "awaiting", "joining"}
         /\ client[c].at \in {"awaiting", "joining"} => client[c].i \in Incarnation
         /\ client[c].at = "awaiting" =>
              LET i == client[c].i
              IN  \/ thread[i].at = "panicked"
                  \/ thread[i].at = "starting"
                  \/ thread[i].at = "ready" /\ requests[i] # <<>>
                  \/ thread[i].at = "serving"
                  \/ replies[i] # <<>> /\ requests[i] = <<>> /\
                       IF client[c].call = "C_Finalize" THEN thread[i].at \in {"exiting", "stopped"}
                       ELSE thread[i].at = "ready"
         /\ client[c].at = "joining" => thread[client[c].i].at \in {"exiting", "stopped"}
<1>1. client[c].at \in {"locked", "awaiting", "joining"}
  BY DEF PInv, HoldersLocked, Holds
<1>2. client[c].at \in {"awaiting", "joining"} => client[c].i \in Incarnation
  BY DEF PInv, ProxyTypeOK, ClientState
<1>3. ASSUME client[c].at = "awaiting", thread[client[c].i].at # "panicked"
      PROVE  UnderWay(client[c].i, client[c].call)
  BY <1>3 DEF PInv, ChannelsOK
<1>4. \A m : <<m>> # <<>>
  OBVIOUS
<1>5. ASSUME NEW i, NEW call, UnderWay(i, call)
      PROVE  \/ thread[i].at = "starting"
             \/ thread[i].at = "ready" /\ requests[i] # <<>>
             \/ thread[i].at = "serving"
             \/ replies[i] # <<>> /\ requests[i] = <<>> /\
                  IF call = "C_Finalize" THEN thread[i].at \in {"exiting", "stopped"}
                  ELSE thread[i].at = "ready"
  <2>1. CASE /\ thread[i].at \in {"starting", "ready"}
             /\ requests[i] = <<MessageOf(call)>> /\ replies[i] = <<>>
    <3>1. requests[i] # <<>>
      BY <1>4, <2>1
    <3>2. QED
      BY <2>1, <3>1
  <2>2. CASE thread[i].at = "serving"
    BY <2>2
  <2>3. CASE requests[i] = <<>> /\ Answered(i, call)
    <3>1. replies[i] # <<>>
      BY <1>4, <2>3 DEF Answered
    <3>2. QED
      BY <2>3, <3>1 DEF Answered
  <2>4. QED
    BY <1>5, <2>1, <2>2, <2>3 DEF UnderWay, Serving
<1>6. client[c].at = "joining" => thread[client[c].i].at \in {"exiting", "stopped"}
  BY DEF PInv, ChannelsOK
<1>7. QED
  BY <1>1, <1>2, <1>3, <1>5, <1>6

LEMMA HolderCanGoOn ==
  ASSUME PInv, NEW c \in Client, lock = c
  PROVE  HolderGoesOn(c) /\ StepsLeft(c) \in 1 .. 7
<1>1. HolderGoesOn(c)
  BY HolderWaits DEF HolderGoesOn, Gone
<1>2. StepsLeft(c) \in 0 .. 7
  BY StepsAtIs DEF StepsLeft
<1>3. StepsLeft(c) # 0
  BY HolderWaits, StepsAtIs DEF StepsLeft
<1>4. QED
  BY <1>1, <1>2, <1>3

\* Its own steps.
LEMMA HolderSteps ==
  ASSUME PInv, NEW c \in Client, lock = c, ClientStep(c) \/ \E call \in Call : Invoke(c, call)
  PROVE  HolderAdvances(c)
<1>1. /\ client[c].at \in {"locked", "awaiting", "joining"}
      /\ lock \in Client \cup {NoClient} /\ lock # NoClient
      /\ client \in [Client -> ClientState]
  BY HolderWaits, ProxyAssumption DEF PInv, ProxyTypeOK
<1>2. StepsLeft(c) \in 1 .. 7 /\ StepsLeft(c)' \in 0 .. 7
  BY HolderCanGoOn, StepsAtIs DEF StepsLeft
<1>3. ASSUME NEW reply, ReturnWith(c, reply) PROVE HolderAdvances(c)
  <2>1. client'[c] = Done(reply) /\ lock' = NoClient
    BY <1>1, <1>3 DEF ReturnWith, Goto
  <2>2. client'[c].at = "done"
    BY <2>1 DEF Done
  <2>3. StepsLeft(c)' = 0
    BY <2>2, StepsAtIs DEF StepsLeft
  <2>4. QED
    BY <1>2, <2>1, <2>2, <2>3 DEF HolderAdvances
<1>4. ASSUME NEW call, NEW i, client[c].at = "locked", Goto(c, Awaiting(call, i)), UNCHANGED lock
      PROVE  HolderAdvances(c)
  <2>1. client'[c].at = "awaiting"
    BY <1>1, <1>4 DEF Goto, Awaiting
  <2>2. StepsLeft(c)' <= 6 /\ StepsLeft(c) = 7
    BY <1>4, <2>1, StepsAtIs DEF StepsLeft
  <2>3. QED
    BY <1>2, <1>4, <2>2 DEF HolderAdvances
<1>5. CASE Receive(c)
  <2>1. client[c].at = "awaiting" /\ UNCHANGED <<thread, requests>>
    BY <1>5 DEF Receive, threads
  <2>2. CASE \E reply : ReturnWith(c, reply)
    BY <1>3, <2>2
  <2>3. CASE /\ replies[client[c].i] # <<>> /\ client[c].call = "C_Finalize"
             /\ Goto(c, Joining(client[c].i)) /\ UNCHANGED lock
    <3>1. client'[c].at = "joining" /\ client'[c].i = client[c].i
      BY <1>1, <2>3 DEF Goto, Joining
    <3>2. thread[client[c].i].at \in {"exiting", "stopped"}
      <4>1. thread[client[c].i].at # "panicked"
        <5>1. client[c].i \in Incarnation
          BY <2>1, HolderWaits
        <5>2. QED
          BY <2>3, <5>1 DEF PInv, ChannelsOK
      <4>2. UnderWay(client[c].i, "C_Finalize")
        BY <2>1, <2>3, <4>1 DEF PInv, ChannelsOK
      <4>3. QED
        BY <2>3, <4>2 DEF UnderWay, Answered
    <3>3. \/ StepsLeft(c) = 3 /\ StepsLeft(c)' = 2
          \/ StepsLeft(c) = 2 /\ StepsLeft(c)' = 1
      BY <2>1, <3>1, <3>2, StepsAtIs DEF StepsLeft
    <3>4. QED
      BY <1>2, <2>3, <3>3 DEF HolderAdvances
  <2>4. QED
    BY <1>5, <2>2, <2>3 DEF Receive
<1>6. CASE C_Initialize(c) \/ Join(c)
  BY <1>3, <1>6 DEF C_Initialize, Join
<1>7. CASE C_Finalize(c) \/ SendCall(c)
  <2>1. client[c].at = "locked"
    BY <1>7 DEF C_Finalize, SendCall, Locked
  <2>2. (\E i, m : Send(c, i, m)) \/ \E reply : ReturnWith(c, reply)
    BY <1>7 DEF C_Finalize, SendCall
  <2>3. QED
    BY <1>3, <1>4, <2>1, <2>2 DEF Send
<1>8. ~Acquire(c) /\ ~Return(c) /\ \A call \in Call : ~Invoke(c, call)
  BY <1>1 DEF Acquire, Return, Invoke, Idle
<1>9. QED
  BY <1>5, <1>6, <1>7, <1>8 DEF ClientStep

\* The steps of others do not concern it.
LEMMA HolderUntouched ==
  ASSUME PInv, NEW c \in Client, lock = c, UNCHANGED lock, client'[c] = client[c],
         client[c].at # "locked" =>
           /\ thread'[client[c].i] = thread[client[c].i]
           /\ requests'[client[c].i] = requests[client[c].i]
  PROVE  HolderAdvances(c)
<1>1. StepsLeft(c)' = StepsLeft(c) /\ StepsLeft(c) \in 1 .. 7
  BY HolderCanGoOn, StepsAtIs DEF StepsLeft
<1>2. QED
  BY <1>1 DEF HolderAdvances

LEMMA OtherClientsSteps ==
  ASSUME PInv, NEW c \in Client, lock = c, NEW d \in Client, d # c,
         ClientStep(d) \/ \E call \in Call : Invoke(d, call)
  PROVE  HolderAdvances(c)
<1>1. ~Holds(d) /\ lock # NoClient
  BY ProxyAssumption DEF PInv, HoldersLocked
<1>2. Return(d) \/ \E call \in Call : Invoke(d, call)
  BY <1>1 DEF ClientStep, Acquire, C_Initialize, C_Finalize, SendCall, Receive, Join, Locked, Holds
<1>3. UNCHANGED <<lock, thread, requests>> /\ client'[c] = client[c]
  BY <1>2 DEF Return, Invoke, threads, channels, Goto, PInv, ProxyTypeOK
<1>4. QED
  BY <1>3, HolderUntouched

LEMMA ThreadsSteps ==
  ASSUME PInv, NEW c \in Client, lock = c, NEW j \in Incarnation, ThreadStep(j) \/ Panic(j)
  PROVE  HolderAdvances(c)
<1>1. UNCHANGED <<lock, client>>
  BY DEF ThreadStep, Begin, Take, Serve, Exit, Panic
<1>2. /\ thread \in [Incarnation -> ThreadState]
      /\ requests \in [Incarnation -> Seq(Message)]
  BY DEF PInv, ProxyTypeOK
<1>3. \A i \in Incarnation \ {j} : thread'[i] = thread[i] /\ requests'[i] = requests[i]
  BY <1>2 DEF ThreadStep, Begin, Take, Serve, Exit, Panic, channels
<1>4. CASE client[c].at = "locked" \/ client[c].i # j
  BY <1>1, <1>3, <1>4, HolderWaits, HolderUntouched
<1>5. CASE client[c].at # "locked" /\ client[c].i = j
  <2>1. StepsLeft(c)' < StepsLeft(c)
    <3>1. client[c].at \in {"awaiting", "joining"}
      BY <1>5, HolderWaits
    <3>2. CASE Begin(j)
      <4>1. thread[j].at = "starting" /\ thread'[j].at = "ready"
        BY <1>2, <3>2 DEF Begin, Doing
      <4>2. client[c].at = "awaiting"
        BY <1>5, <3>1, <4>1, HolderWaits
      <4>3. StepsLeft(c) = 6 /\ StepsLeft(c)' \in {5, 1}
        BY <1>1, <1>5, <4>1, <4>2, StepsAtIs DEF StepsLeft
      <4>4. QED
        BY <4>3
    <3>3. CASE Take(j)
      <4>1. thread[j].at = "ready" /\ requests[j] # <<>> /\ thread'[j].at = "serving"
        BY <1>2, <3>3 DEF Take, Serving
      <4>2. client[c].at = "awaiting"
        BY <1>5, <3>1, <4>1, HolderWaits
      <4>3. StepsLeft(c) = 5 /\ StepsLeft(c)' = 4
        BY <1>1, <1>5, <4>1, <4>2, StepsAtIs DEF StepsLeft
      <4>4. QED
        BY <4>3
    <3>4. CASE Serve(j)
      <4>0. /\ thread[j].at = "serving" /\ requests' = requests
            /\ \/ thread' = [thread EXCEPT ![j] = Doing("exiting")]
               \/ thread' = [thread EXCEPT ![j] = Doing("ready")]
        BY <3>4 DEF Serve
      <4>1. thread[j].at = "serving" /\ thread'[j].at \in {"exiting", "ready"}
            /\ requests' = requests
        BY <1>2, <4>0 DEF Doing
      <4>2. client[c].at = "awaiting"
        BY <1>5, <3>1, <4>1, HolderWaits
      <4>3. requests[j] = <<>>
        BY <1>5, <4>1, <4>2 DEF PInv, ChannelsOK, UnderWay, Answered
      <4>4. StepsLeft(c) = 4 /\ StepsLeft(c)' \in {3, 1}
        BY <1>1, <1>5, <4>1, <4>2, <4>3, StepsAtIs DEF StepsLeft
      <4>5. QED
        BY <4>4
    <3>5. CASE Exit(j)
      <4>1. thread[j].at = "exiting" /\ thread'[j].at = "stopped"
        BY <1>2, <3>5 DEF Exit, Doing
      <4>2. \/ StepsLeft(c) = 3 /\ StepsLeft(c)' = 2
            \/ StepsLeft(c) = 2 /\ StepsLeft(c)' = 1
        BY <1>1, <1>5, <3>1, <4>1, StepsAtIs DEF StepsLeft
      <4>3. QED
        BY <4>2
    <3>6. CASE Panic(j)
      <4>1. thread[j].at \in {"starting", "serving"} /\ thread'[j].at = "panicked"
        BY <1>2, <3>6 DEF Panic, Doing
      <4>2. client[c].at = "awaiting"
        BY <1>5, <3>1, <4>1, HolderWaits
      <4>3. StepsLeft(c) \in {6, 4} /\ StepsLeft(c)' = 1
        BY <1>1, <1>5, <4>1, <4>2, StepsAtIs DEF StepsLeft
      <4>4. QED
        BY <4>3
    <3>7. QED
      BY <3>2, <3>3, <3>4, <3>5, <3>6 DEF ThreadStep
  <2>2. StepsLeft(c)' \in 0 .. 7 /\ StepsLeft(c) \in 0 .. 7
    BY StepsAtIs DEF StepsLeft
  <2>3. QED
    BY <1>1, <2>1, <2>2 DEF HolderAdvances
<1>6. QED
  BY <1>4, <1>5

\* Nobody who got into the module stays in it: the holder of the mutex, or the manager thread it
\* waits for, can always go on, whatever panicked before; every step of either brings the return
\* nearer, no step of anyone puts it off, and there are at most seven of them (the guard macros,
\* proxy_call, ManagerProxy::stop).  With threads that run when they can, this is CallsReturn.
THEOREM HolderReturns ==
  Spec => /\ [](\A c \in Client : lock = c => HolderGoesOn(c) /\ StepsLeft(c) \in 1 .. 7)
          /\ [][\A c \in Client : HolderAdvances(c)]_vars
<1>1. PInv => \A c \in Client : lock = c => HolderGoesOn(c) /\ StepsLeft(c) \in 1 .. 7
  BY HolderCanGoOn
<1>2. ASSUME PInv, Next, NEW c \in Client PROVE HolderAdvances(c)
  <2>1. CASE lock # c
    BY <2>1 DEF HolderAdvances
  <2>2. CASE lock = c
    BY <1>2, <2>2, HolderSteps, OtherClientsSteps, ThreadsSteps DEF Next
  <2>3. QED
    BY <2>1, <2>2
<1>3. PInv /\ [Next]_vars => [\A c \in Client : HolderAdvances(c)]_vars
  BY <1>2
<1>4. QED
  BY <1>1, <1>3, ProxyInvariant, PTL DEF Spec

-----------------------------------------------------------------------------
(* ManagerProxy implements SerialManager: mutex, slot, channels and threads look to the callers   *)
(* like one Manager that serves one call at a time.  A call takes effect where the manager thread *)
(* serves it, or where it is found that there is no thread to serve it.                           *)

(* The mapped variables. *)

\* What SerialManager sees of a client that is at w, when the replies are rs.
View(w, rs) ==
  CASE w.at = "idle" -> [at |-> "idle"]
    [] w.at = "done" -> [at |-> "replied", reply |-> w.reply]
    [] w.at = "awaiting" /\ w.call # "C_Finalize" /\ rs[w.i] # <<>>
         -> [at |-> "replied", reply |-> Head(rs[w.i])]
    [] OTHER -> [at |-> "waiting", call |-> w.call]

LEMMA OngoingIs ==
  /\ SerialOngoing = [c \in Client |-> View(client[c], replies)]
  /\ SerialOngoing' = [c \in Client |-> View(client'[c], replies')]
BY DEF SerialOngoing, View

LEMMA Views ==
  ASSUME NEW w, NEW rs
  PROVE  /\ w.at = "idle" => View(w, rs) = Serial!Idle
         /\ w.at = "done" => View(w, rs) = Serial!Replied(w.reply)
         /\ w.at = "awaiting" /\ w.call # "C_Finalize" /\ rs[w.i] # <<>> =>
              View(w, rs) = Serial!Replied(Head(rs[w.i]))
         /\ w.at = "awaiting" /\ (w.call = "C_Finalize" \/ rs[w.i] = <<>>) =>
              View(w, rs) = Serial!Waiting(w.call)
         /\ w.at \in {"wants", "locked", "joining"} => View(w, rs) = Serial!Waiting(w.call)
BY DEF View, Serial!Idle, Serial!Replied, Serial!Waiting

\* One client moves; no other client that waits sees its replies change.
LEMMA OngoingMoves ==
  ASSUME PInv, NEW c \in Client, NEW w, client' = [client EXCEPT ![c] = w],
         \A d \in Client \ {c} : client[d].at = "awaiting" => replies'[client[d].i] = replies[client[d].i]
  PROVE  /\ SerialOngoing' = [SerialOngoing EXCEPT ![c] = View(w, replies')]
         /\ View(w, replies') = View(client[c], replies) => SerialOngoing' = SerialOngoing
<1>1. client'[c] = w /\ \A d \in Client \ {c} : client'[d] = client[d]
  BY DEF PInv, ProxyTypeOK
<1>2. \A d \in Client \ {c} : View(client'[d], replies') = View(client[d], replies)
  BY <1>1 DEF View
<1>3. QED
  BY <1>1, <1>2, OngoingIs

LEMMA CurrentKept ==
  ASSUME Stopping' = Stopping, \A c \in Stopping : client'[c].i = client[c].i, slot' = slot
  PROVE  Current' = Current
BY DEF Current

\* Callers can not tell the manager's steps that leave it alive and as it was.
LEMMA ManagerKept ==
  ASSUME Current' = Current,
         Current # 0 => /\ thread'[Current].at = "panicked" <=> thread[Current].at = "panicked"
                        /\ manager'[Current] = manager[Current]
  PROVE  UNCHANGED <<SerialModule, SerialState>>
BY DEF SerialModule, SerialState

\* The manager that callers can tell exists is the only one that can be alive.
LEMMA CurrentIs ==
  ASSUME PInv
  PROVE  /\ Stopping = {} => Current = slot
         /\ \A c \in Stopping : Current = client[c].i /\ client[c].i \in Incarnation
         /\ Current \in Incarnation \cup {0}
         /\ \A i \in Incarnation : ~Gone(i) => i = Current
<1>1. slot \in Incarnation \cup {0}
  BY ProxyAssumption DEF PInv, ProxyTypeOK, Incarnation
<1>2. \A c, d \in Stopping : c = d
  BY OneHolder DEF Stopping, Holds, PInv
<1>3. \A c \in Stopping : client[c].i \in Incarnation
  BY WaitingAlone DEF Stopping
<1>4. Stopping = {} => Current = slot
  BY DEF Current
<1>5. \A c \in Stopping : Current = client[c].i
  BY <1>2 DEF Current
<1>6. Current \in Incarnation \cup {0}
  BY <1>1, <1>3, <1>4, <1>5
<1>7. \A i \in Incarnation : ~Gone(i) => i = Current
  <2> SUFFICES ASSUME NEW i \in Incarnation, ~Gone(i) PROVE i = Current
    OBVIOUS
  <2>1. i = slot \/ \E c \in Stopping : client[c].i = i
    BY DEF PInv, SlotOK
  <2>2. slot = i => Stopping = {}
    BY DEF PInv, SlotOK, Incarnation
  <2>3. QED
    BY <1>4, <1>5, <2>1, <2>2
<1>8. QED
  BY <1>3, <1>4, <1>5, <1>6, <1>7

\* A proxy in the slot whose thread is gone has a thread that panicked.
LEMMA GoneIsBroken ==
  ASSUME PInv, slot # 0
  PROVE  slot \in Incarnation /\ (Gone(slot) <=> thread[slot].at = "panicked")
<1>1. slot \in Incarnation
  BY ProxyAssumption DEF PInv, ProxyTypeOK, Incarnation
<1>2. QED
  BY <1>1 DEF PInv, SlotOK, Gone

LEMMA RefinesInit == Init => Serial!Init
<1> SUFFICES ASSUME Init PROVE Serial!Init
  OBVIOUS
<1>1. \A c \in Client : View(client[c], replies) = Serial!Idle
  BY Views DEF Init, Idle
<1>2. SerialOngoing = [c \in Client |-> Serial!Idle]
  BY <1>1, OngoingIs
<1>3. Current = 0
  BY DEF Init, Current, Stopping, Idle
<1>4. QED
  BY <1>2, <1>3 DEF Serial!Init, SerialModule, SerialState
-----------------------------------------------------------------------------
(* The clients' steps. *)

LEMMA InvokeRefines ==
  ASSUME PInv, NEW c \in Client, NEW call \in Call, Invoke(c, call)
  PROVE  Serial!Invoke(c, call)
<1>1. /\ client[c].at = "idle" /\ client' = [client EXCEPT ![c] = Wants(call)]
      /\ UNCHANGED <<slot, thread, manager, replies>>
  BY DEF Invoke, Goto, Idle, threads, channels
<1>2. Wants(call).at = "wants" /\ Wants(call).call = call
  BY DEF Wants
<1>3. SerialOngoing' = [SerialOngoing EXCEPT ![c] = Serial!Waiting(call)]
  <2>1. View(Wants(call), replies') = Serial!Waiting(call)
    BY <1>2, Views
  <2>2. SerialOngoing' = [SerialOngoing EXCEPT ![c] = View(Wants(call), replies')]
    BY <1>1, OngoingMoves
  <2>3. QED
    BY <2>1, <2>2
<1>4. SerialOngoing[c] = Serial!Idle
  BY <1>1, OngoingIs, Views
<1>5. Stopping' = Stopping /\ \A d \in Stopping : client'[d] = client[d]
  BY <1>1, <1>2 DEF Stopping, PInv, ProxyTypeOK
<1>6. UNCHANGED <<SerialModule, SerialState>>
  BY <1>1, <1>5, CurrentKept, ManagerKept
<1>7. QED
  BY <1>3, <1>4, <1>6 DEF Serial!Invoke

LEMMA AcquireRefines ==
  ASSUME PInv, NEW c \in Client, Acquire(c)
  PROVE  UNCHANGED Serial!vars
<1> DEFINE call == client[c].call
<1>1. /\ client[c].at = "wants" /\ client' = [client EXCEPT ![c] = Locked(call)]
      /\ UNCHANGED <<slot, thread, manager, replies>>
  BY DEF Acquire, Goto, threads, channels
<1>2. Locked(call).at = "locked" /\ Locked(call).call = call
  BY DEF Locked
<1>3. SerialOngoing' = SerialOngoing
  <2>1. View(Locked(call), replies') = View(client[c], replies)
    BY <1>1, <1>2, Views
  <2>2. QED
    BY <1>1, <2>1, OngoingMoves
<1>4. Stopping' = Stopping /\ \A d \in Stopping : client'[d] = client[d]
  BY <1>1, <1>2 DEF Stopping, PInv, ProxyTypeOK
<1>5. UNCHANGED <<SerialModule, SerialState>>
  BY <1>1, <1>4, CurrentKept, ManagerKept
<1>6. QED
  BY <1>3, <1>5 DEF Serial!vars

LEMMA ReturnRefines ==
  ASSUME PInv, NEW c \in Client, Return(c)
  PROVE  Serial!Return(c)
<1>1. /\ client[c].at = "done" /\ client' = [client EXCEPT ![c] = Idle]
      /\ UNCHANGED <<slot, thread, manager, replies>>
  BY DEF Return, Goto, threads, channels
<1>2. Idle.at = "idle"
  BY DEF Idle
<1>3. SerialOngoing' = [SerialOngoing EXCEPT ![c] = Serial!Idle]
  <2>1. View(Idle, replies') = Serial!Idle
    BY <1>2, Views
  <2>2. SerialOngoing' = [SerialOngoing EXCEPT ![c] = View(Idle, replies')]
    BY <1>1, OngoingMoves
  <2>3. QED
    BY <2>1, <2>2
<1>4. SerialOngoing[c].at = "replied"
  BY <1>1, OngoingIs, Views DEF Serial!Replied
<1>5. Stopping' = Stopping /\ \A d \in Stopping : client'[d] = client[d]
  BY <1>1, <1>2 DEF Stopping, PInv, ProxyTypeOK
<1>6. UNCHANGED <<SerialModule, SerialState>>
  BY <1>1, <1>5, CurrentKept, ManagerKept
<1>7. QED
  BY <1>3, <1>4, <1>6 DEF Serial!Return

\* A call that returns without the manager thread: what lib.rs answers by itself.
LEMMA ReturnWithRefines ==
  ASSUME PInv, NEW c \in Client, client[c].at \in {"locked", "awaiting", "joining"}, NEW reply,
         ReturnWith(c, reply), UNCHANGED replies
  PROVE  /\ SerialOngoing' = [SerialOngoing EXCEPT ![c] = Serial!Replied(reply)]
         /\ Stopping' = {}
<1>1. client' = [client EXCEPT ![c] = Done(reply)]
  BY DEF ReturnWith, Goto
<1>2. Done(reply).at = "done" /\ Done(reply).reply = reply
  BY DEF Done
<1>3. SerialOngoing' = [SerialOngoing EXCEPT ![c] = Serial!Replied(reply)]
  <2>1. View(Done(reply), replies') = Serial!Replied(reply)
    BY <1>2, Views
  <2>2. SerialOngoing' = [SerialOngoing EXCEPT ![c] = View(Done(reply), replies')]
    BY <1>1, OngoingMoves
  <2>3. QED
    BY <2>1, <2>2
<1>4. \A d \in Client \ {c} : client[d].at \notin {"awaiting", "joining"}
  BY OneHolder DEF Holds, PInv
<1>5. Stopping' = {}
  BY <1>1, <1>2, <1>4 DEF Stopping, PInv, ProxyTypeOK
<1>6. QED
  BY <1>3, <1>5

LEMMA InitializeRefines ==
  ASSUME PInv, NEW c \in Client, C_Initialize(c)
  PROVE  Serial!Initialize(c)
<1>1. client[c].at = "locked" /\ client[c].call = "C_Initialize" /\ UNCHANGED <<manager, replies>>
  BY DEF C_Initialize, Locked, channels
<1>2. SerialOngoing[c] = Serial!Waiting("C_Initialize")
  BY <1>1, OngoingIs, Views
<1>3. Stopping = {} /\ Current = slot
  BY <1>1, LockedAlone, CurrentIs
<1>4. CASE slot = 0
  <2>1. /\ slot' = made + 1 /\ thread' = [thread EXCEPT ![made + 1] = Doing("starting")]
        /\ ReturnWith(c, [code |-> "OK"])
    BY <1>4 DEF C_Initialize
  <2>2. Stopping' = {} /\ SerialOngoing' = [SerialOngoing EXCEPT ![c] = Serial!Replied([code |-> "OK"])]
    BY <1>1, <2>1, ReturnWithRefines
  <2>3. made + 1 \in Incarnation
    <3>1. ProxyTypeOK'
      BY InitializeKeepsPInv DEF PInv
    <3>2. QED
      BY <1>4, <2>1, <3>1, ProxyAssumption DEF PInv, ProxyTypeOK, Incarnation
  <2>4. Current' = made + 1 /\ made + 1 # 0
    BY <2>1, <2>2, <2>3 DEF Current, Incarnation
  <2>5. thread'[made + 1].at = "starting" /\ manager'[made + 1] = Start
    BY <1>1, <2>1, <2>3 DEF PInv, ProxyTypeOK, UnmadeOK, Doing, Incarnation
  <2>6. SerialModule' = "live" /\ SerialState' = Start
    BY <2>4, <2>5 DEF SerialModule, SerialState
  <2>7. SerialModule = "none" /\ SerialState = Start
    BY <1>3, <1>4 DEF SerialModule, SerialState
  <2>8. QED
    BY <1>2, <2>2, <2>6, <2>7 DEF Serial!Initialize, Serial!Reply
<1>5. CASE slot # 0
  <2>1. ReturnWith(c, [code |-> "ALREADY_INITIALIZED"]) /\ UNCHANGED <<slot, thread>>
    BY <1>5 DEF C_Initialize
  <2>2. /\ Stopping' = {}
        /\ SerialOngoing' = [SerialOngoing EXCEPT ![c] = Serial!Replied([code |-> "ALREADY_INITIALIZED"])]
    BY <1>1, <2>1, ReturnWithRefines
  <2>3. Current' = Current
    BY <1>3, <2>1, <2>2 DEF Current
  <2>4. UNCHANGED <<SerialModule, SerialState>>
    BY <1>1, <2>1, <2>3, ManagerKept
  <2>5. SerialModule # "none"
    BY <1>3, <1>5 DEF SerialModule
  <2>6. QED
    BY <1>2, <2>2, <2>4, <2>5 DEF Serial!Initialize, Serial!Reply
<1>6. QED
  BY <1>4, <1>5
\* The call goes to a live thread: nothing that callers could tell has happened yet.
LEMMA SendRefines ==
  ASSUME PInv, NEW c \in Client, client[c].at = "locked", slot # 0, ~Gone(slot),
         client' = [client EXCEPT ![c] = Awaiting(client[c].call, slot)],
         slot' = IF client[c].call = "C_Finalize" THEN 0 ELSE slot,
         UNCHANGED <<thread, manager, replies>>
  PROVE  UNCHANGED Serial!vars
<1> DEFINE w == Awaiting(client[c].call, slot)
<1>1. w.at = "awaiting" /\ w.call = client[c].call /\ w.i = slot
  BY DEF Awaiting
<1>2. Stopping = {} /\ Current = slot /\ slot \in Incarnation
  BY LockedAlone, CurrentIs, GoneIsBroken
<1>3. replies[slot] = <<>>
  BY <1>2, LockedAlone DEF PInv, ChannelsOK, Quiet
<1>4. SerialOngoing' = SerialOngoing
  <2>1. View(w, replies') = Serial!Waiting(client[c].call)
    BY <1>1, <1>3, Views
  <2>2. View(client[c], replies) = Serial!Waiting(client[c].call)
    BY Views
  <2>3. View(w, replies') = View(client[c], replies)
    BY <2>1, <2>2
  <2> HIDE DEF w
  <2>4. client' = [client EXCEPT ![c] = w]
    BY DEF w
  <2>5. QED
    BY <2>3, <2>4, OngoingMoves
<1>5. Current' = Current
  <2>1. client'[c] = w /\ \A d \in Client \ {c} : client'[d] = client[d]
    BY DEF PInv, ProxyTypeOK
  <2>2. \A d \in Client : client[d].at \notin {"awaiting", "joining"}
    BY LockedAlone
  <2>3. CASE client[c].call = "C_Finalize"
    <3>1. Stopping' = {c}
      BY <1>1, <2>1, <2>2, <2>3 DEF Stopping
    <3>2. QED
      BY <1>1, <1>2, <2>1, <3>1 DEF Current
  <2>4. CASE client[c].call # "C_Finalize"
    <3>1. Stopping' = {}
      BY <1>1, <2>1, <2>2, <2>4 DEF Stopping
    <3>2. QED
      BY <1>2, <2>4, <3>1 DEF Current
  <2>5. QED
    BY <2>3, <2>4
<1>6. UNCHANGED <<SerialModule, SerialState>>
  BY <1>5, ManagerKept
<1>7. QED
  BY <1>4, <1>6 DEF Serial!vars

LEMMA FinalizeRefines ==
  ASSUME PInv, NEW c \in Client, C_Finalize(c)
  PROVE  Serial!Finalize(c) \/ UNCHANGED Serial!vars
<1>1. /\ client[c].at = "locked" /\ client[c].call = "C_Finalize" /\ slot' = 0
      /\ UNCHANGED <<thread, manager, replies>>
  BY DEF C_Finalize, Locked, threads
<1>2. SerialOngoing[c] = Serial!Waiting("C_Finalize")
  BY <1>1, OngoingIs, Views
<1>3. Stopping = {} /\ Current = slot
  BY <1>1, LockedAlone, CurrentIs
<1>4. CASE slot # 0 /\ ~Gone(slot)
  BY <1>1, <1>4, SendRefines DEF C_Finalize, Send, Goto
<1>5. CASE slot # 0 /\ Gone(slot)
  <2>1. ReturnWith(c, [code |-> "ERR"])
    BY <1>5 DEF C_Finalize, Send
  <2>2. Stopping' = {} /\ SerialOngoing' = [SerialOngoing EXCEPT ![c] = Serial!Replied([code |-> "ERR"])]
    BY <1>1, <2>1, ReturnWithRefines
  <2>3. SerialModule = "broken"
    BY <1>3, <1>5, GoneIsBroken DEF SerialModule
  <2>4. SerialModule' = "none" /\ SerialState' = Start
    BY <1>1, <2>2 DEF Current, SerialModule, SerialState
  <2>5. QED
    BY <1>2, <2>2, <2>3, <2>4 DEF Serial!Finalize, Serial!Reply
<1>6. CASE slot = 0
  <2>1. ReturnWith(c, [code |-> "NOT_INITIALIZED"])
    BY <1>6 DEF C_Finalize
  <2>2. /\ Stopping' = {}
        /\ SerialOngoing' = [SerialOngoing EXCEPT ![c] = Serial!Replied([code |-> "NOT_INITIALIZED"])]
    BY <1>1, <2>1, ReturnWithRefines
  <2>3. SerialModule = "none"
    BY <1>3, <1>6 DEF SerialModule
  <2>4. SerialModule' = "none" /\ SerialState' = Start
    BY <1>1, <2>2 DEF Current, SerialModule, SerialState
  <2>5. QED
    BY <1>2, <2>2, <2>3, <2>4 DEF Serial!Finalize, Serial!Reply
<1>7. QED
  BY <1>4, <1>5, <1>6

LEMMA SendCallRefines ==
  ASSUME PInv, NEW c \in Client, SendCall(c)
  PROVE  Serial!Perform(c) \/ UNCHANGED Serial!vars
<1>1. /\ client[c].at = "locked" /\ client[c].call \in Request /\ client[c].call # "C_Finalize"
      /\ UNCHANGED <<slot, thread, manager, replies>>
  BY ProxyAssumption DEF SendCall, threads
<1>2. SerialOngoing[c] = Serial!Waiting(client[c].call)
  BY <1>1, OngoingIs, Views
<1>3. SerialOngoing[c].at = "waiting" /\ SerialOngoing[c].call \in Request
  BY <1>1, <1>2 DEF Serial!Waiting
<1>4. Stopping = {} /\ Current = slot
  BY <1>1, LockedAlone, CurrentIs
<1>5. CASE slot # 0 /\ ~Gone(slot)
  BY <1>1, <1>5, SendRefines DEF SendCall, Send, Goto
<1>6. CASE slot # 0 /\ Gone(slot)
  <2>1. ReturnWith(c, [code |-> "ERR"])
    BY <1>6 DEF SendCall, Send
  <2>2. Stopping' = {} /\ SerialOngoing' = [SerialOngoing EXCEPT ![c] = Serial!Replied([code |-> "ERR"])]
    BY <1>1, <2>1, ReturnWithRefines
  <2>3. SerialModule = "broken"
    BY <1>4, <1>6, GoneIsBroken DEF SerialModule
  <2>4. Current' = Current
    BY <1>1, <1>4, <2>2 DEF Current
  <2>5. UNCHANGED <<SerialModule, SerialState>>
    BY <1>1, <2>4, ManagerKept
  <2>6. QED
    BY <1>3, <2>2, <2>3, <2>5 DEF Serial!Perform, Serial!Reply
<1>7. CASE slot = 0
  <2>1. ReturnWith(c, [code |-> "NO_MANAGER"])
    BY <1>7 DEF SendCall
  <2>2. Stopping' = {} /\ SerialOngoing' = [SerialOngoing EXCEPT ![c] = Serial!Replied([code |-> "NO_MANAGER"])]
    BY <1>1, <2>1, ReturnWithRefines
  <2>3. SerialModule = "none"
    BY <1>4, <1>7 DEF SerialModule
  <2>4. Current' = Current
    BY <1>1, <1>4, <2>2 DEF Current
  <2>5. UNCHANGED <<SerialModule, SerialState>>
    BY <1>1, <2>4, ManagerKept
  <2>6. QED
    BY <1>3, <2>2, <2>3, <2>5 DEF Serial!Perform, Serial!Reply
<1>8. QED
  BY <1>5, <1>6, <1>7

LEMMA JoinRefines ==
  ASSUME PInv, NEW c \in Client, Join(c)
  PROVE  Serial!Finalize(c)
<1>1. /\ client[c].at = "joining" /\ ReturnWith(c, [code |-> "OK"])
      /\ UNCHANGED <<slot, thread, manager, replies>>
  BY DEF Join, threads, channels
<1>2. client[c].call = "C_Finalize"
  BY <1>1 DEF PInv, ProxyTypeOK, ClientState
<1>3. SerialOngoing[c] = Serial!Waiting("C_Finalize")
  BY <1>1, <1>2, OngoingIs, Views
<1>4. Stopping' = {} /\ SerialOngoing' = [SerialOngoing EXCEPT ![c] = Serial!Replied([code |-> "OK"])]
  BY <1>1, ReturnWithRefines
<1>5. c \in Stopping
  BY <1>1, <1>2 DEF Stopping
<1>6. Current = client[c].i /\ Current # 0
  BY <1>5, CurrentIs DEF Incarnation
<1>7. SerialModule = "live"
  BY <1>1, <1>6 DEF SerialModule, PInv, ChannelsOK
<1>8. slot = 0
  BY <1>5 DEF PInv, SlotOK
<1>9. SerialModule' = "none" /\ SerialState' = Start
  BY <1>1, <1>4, <1>8 DEF Current, SerialModule, SerialState
<1>10. QED
  BY <1>3, <1>4, <1>7, <1>9 DEF Serial!Finalize, Serial!Reply
\* The reply was there to see as soon as the thread had computed it.
LEMMA ReplyTakenRefines ==
  ASSUME PInv, NEW c \in Client, client[c].at = "awaiting", replies[client[c].i] # <<>>, Receive(c)
  PROVE  UNCHANGED Serial!vars
<1>1. PICK i \in Incarnation : i = client[c].i
  BY WaitingAlone
<1> DEFINE w == IF client[c].call = "C_Finalize" THEN Joining(i) ELSE Done(Head(replies[i]))
<1>2. /\ client' = [client EXCEPT ![c] = w] /\ replies' = [replies EXCEPT ![i] = Tail(@)]
      /\ UNCHANGED <<slot, thread, manager>>
  BY <1>1 DEF Receive, Goto, ReturnWith, threads
<1>3. \A d \in Client : client[d].at \in {"awaiting", "joining"} => d = c
  BY WaitingAlone
<1>4. View(w, replies') = View(client[c], replies)
  <2>1. CASE client[c].call = "C_Finalize"
    <3>1. View(client[c], replies) = Serial!Waiting("C_Finalize")
      BY <2>1, Views
    <3>2. w.at = "joining" /\ w.call = "C_Finalize"
      BY <2>1 DEF Joining
    <3>3. View(w, replies') = Serial!Waiting("C_Finalize")
      BY <3>2, Views
    <3>4. QED
      BY <3>1, <3>3
  <2>2. CASE client[c].call # "C_Finalize"
    <3>1. View(client[c], replies) = Serial!Replied(Head(replies[i]))
      BY <1>1, <2>2, Views
    <3>2. w.at = "done" /\ w.reply = Head(replies[i])
      BY <2>2 DEF Done
    <3>3. View(w, replies') = Serial!Replied(Head(replies[i]))
      BY <3>2, Views
    <3>4. QED
      BY <3>1, <3>3
  <2>3. QED
    BY <2>1, <2>2
<1>5. /\ client[c].call = "C_Finalize" => w.at = "joining" /\ w.call = "C_Finalize" /\ w.i = i
      /\ client[c].call # "C_Finalize" => w.at = "done"
  BY DEF Joining, Done
<1> HIDE DEF w
<1>6. SerialOngoing' = SerialOngoing
  BY <1>2, <1>3, <1>4, OngoingMoves
<1>7. client'[c] = w /\ \A d \in Client \ {c} : client'[d] = client[d]
  BY <1>2 DEF PInv, ProxyTypeOK
<1>8. Stopping' = Stopping /\ \A d \in Stopping : client'[d].i = client[d].i
  BY <1>1, <1>5, <1>7 DEF Stopping
<1>9. UNCHANGED <<SerialModule, SerialState>>
  BY <1>2, <1>8, CurrentKept, ManagerKept
<1>10. QED
  BY <1>6, <1>9 DEF Serial!vars

LEMMA BrokenCallRefines ==
  ASSUME PInv, NEW c \in Client, client[c].at = "awaiting", replies[client[c].i] = <<>>, Receive(c)
  PROVE  Serial!Finalize(c) \/ Serial!Perform(c)
<1>1. PICK i \in Incarnation : i = client[c].i
  BY WaitingAlone
<1>2. Gone(i) /\ ReturnWith(c, [code |-> "ERR"]) /\ UNCHANGED <<slot, thread, manager, replies>>
  BY <1>1 DEF Receive, threads
<1>3. thread[i].at = "panicked"
  <2> SUFFICES ASSUME thread[i].at # "panicked" PROVE FALSE
    OBVIOUS
  <2>1. UnderWay(i, client[c].call)
    BY <1>1 DEF PInv, ChannelsOK
  <2>2. thread[i].at \in {"starting", "ready", "serving"} \/ Answered(i, client[c].call)
    BY <2>1 DEF UnderWay, Serving
  <2>3. PICK r : replies[i] = <<r>>
    BY <1>2, <2>2 DEF Answered, Gone
  <2>4. replies[i] # <<>>
    <3>1. <<r>> # <<>>
      OBVIOUS
    <3>2. QED
      BY <2>3, <3>1
  <2>5. QED
    BY <1>1, <2>4
<1>4. Stopping' = {} /\ SerialOngoing' = [SerialOngoing EXCEPT ![c] = Serial!Replied([code |-> "ERR"])]
  BY <1>2, ReturnWithRefines
<1>5. SerialOngoing[c] = Serial!Waiting(client[c].call)
  BY OngoingIs, Views
<1>6. i # 0
  BY DEF Incarnation
<1>7. CASE client[c].call = "C_Finalize"
  <2>1. c \in Stopping
    BY <1>7 DEF Stopping
  <2>2. Current = i /\ slot = 0
    BY <1>1, <2>1, CurrentIs DEF PInv, SlotOK
  <2>3. SerialModule = "broken"
    BY <1>3, <1>6, <2>2 DEF SerialModule
  <2>4. SerialModule' = "none" /\ SerialState' = Start
    BY <1>2, <1>4, <2>2 DEF Current, SerialModule, SerialState
  <2>5. QED
    BY <1>4, <1>5, <1>7, <2>3, <2>4 DEF Serial!Finalize, Serial!Reply
<1>8. CASE client[c].call # "C_Finalize"
  <2>1. Stopping = {}
    BY <1>8, WaitingAlone DEF Stopping
  <2>2. Current = i /\ slot = i
    BY <1>1, <1>8, <2>1, CurrentIs DEF PInv, SlotOK, Calling
  <2>3. Current' = Current
    BY <1>2, <1>4, <2>2 DEF Current
  <2>4. SerialModule = "broken"
    BY <1>3, <1>6, <2>2 DEF SerialModule
  <2>5. UNCHANGED <<SerialModule, SerialState>>
    BY <1>2, <2>3, ManagerKept
  <2>6. client[c].call \in Request
    BY <1>8, WaitingAlone
  <2>7. SerialOngoing[c].at = "waiting" /\ SerialOngoing[c].call \in Request
    BY <1>5, <2>6 DEF Serial!Waiting
  <2>8. QED
    BY <1>4, <2>4, <2>5, <2>7 DEF Serial!Perform, Serial!Reply
<1>9. QED
  BY <1>7, <1>8

-----------------------------------------------------------------------------
(* The manager threads' steps. *)

\* Steps that callers can not see: the thread stays alive, the manager as it is.
LEMMA ThreadStepHidden ==
  ASSUME PInv, NEW i \in Incarnation, ~Gone(i), NEW t, thread' = [thread EXCEPT ![i] = t],
         t.at # "panicked", UNCHANGED <<slot, client, manager>>,
         \A c \in Client : View(client[c], replies') = View(client[c], replies)
  PROVE  UNCHANGED Serial!vars
<1>1. thread'[i] = t /\ \A j \in Incarnation \ {i} : thread'[j] = thread[j]
  BY DEF PInv, ProxyTypeOK
<1>2. SerialOngoing' = SerialOngoing
  BY OngoingIs
<1>3. Stopping' = Stopping
  BY DEF Stopping
<1>4. Current' = Current /\ Current \in Incarnation \cup {0}
  BY <1>3, CurrentKept, CurrentIs
<1>5. thread[i].at # "panicked"
  BY DEF Gone
<1>6. UNCHANGED <<SerialModule, SerialState>>
  BY <1>1, <1>4, <1>5, ManagerKept
<1>7. QED
  BY <1>2, <1>6 DEF Serial!vars

LEMMA BeginTakeExitRefine ==
  ASSUME PInv, NEW i \in Incarnation, Begin(i) \/ Take(i) \/ Exit(i)
  PROVE  UNCHANGED Serial!vars
<1>1. UNCHANGED <<slot, client, manager, replies>>
  BY DEF Begin, Take, Exit, channels
<1>2. ~Gone(i)
  BY DEF Begin, Take, Exit, Gone
<1>3. PICK t : thread' = [thread EXCEPT ![i] = t] /\ t.at # "panicked"
  BY DEF Begin, Take, Exit, Doing, Serving
<1>4. \A c \in Client : View(client[c], replies') = View(client[c], replies)
  BY <1>1
<1>5. QED
  BY <1>1, <1>2, <1>3, <1>4, ThreadStepHidden

\* The call takes effect.
LEMMA ServeRefines ==
  ASSUME PInv, NEW i \in Incarnation, Serve(i)
  PROVE  (\E c \in Client : Serial!Perform(c)) \/ UNCHANGED Serial!vars
<1>1. thread[i].at = "serving" /\ ~Gone(i) /\ UNCHANGED <<slot, client>>
  BY DEF Serve, Gone
<1>2. PICK c \in Client :
        /\ client[c].at = "awaiting" /\ client[c].i = i /\ UnderWay(i, client[c].call)
        /\ \A d \in Client : client[d].at \in {"awaiting", "joining"} => d = c
        /\ client[c].call \in Request \cup {"C_Finalize"}
  BY <1>1, TakenFromClient
<1>3. thread[i] = Serving(MessageOf(client[c].call)) /\ replies[i] = <<>>
  BY <1>1, <1>2 DEF UnderWay, Answered
<1>4. thread[i].message = MessageOf(client[c].call)
  BY <1>3 DEF Serving
<1>5. \A d \in Client \ {c} : View(client[d], replies') = View(client[d], replies)
  BY <1>2 DEF View
<1>6. CASE client[c].call = "C_Finalize"
  <2>1. thread' = [thread EXCEPT ![i] = Doing("exiting")] /\ UNCHANGED manager
    BY <1>4, <1>6 DEF Serve, MessageOf
  <2>2. Doing("exiting").at # "panicked"
    BY DEF Doing
  <2>3. View(client[c], replies') = View(client[c], replies)
    BY <1>2, <1>6, Views
  <2>4. \A d \in Client : View(client[d], replies') = View(client[d], replies)
    BY <1>5, <2>3
  <2>5. QED
    BY <1>1, <2>1, <2>2, <2>4, ThreadStepHidden
<1>7. CASE client[c].call # "C_Finalize"
  <2>1. thread[i].message = client[c].call /\ client[c].call \in Request /\ client[c].call # "Stop"
    BY <1>2, <1>4, <1>7, ProxyAssumption DEF MessageOf
  <2> DEFINE effect == Effect[manager[i], client[c].call]
  <2>2. /\ manager' = [manager EXCEPT ![i] = effect.state]
        /\ replies' = [replies EXCEPT ![i] = Append(@, [value |-> effect.value])]
        /\ thread' = [thread EXCEPT ![i] = Doing("ready")]
    BY <2>1 DEF Serve
  <2> HIDE DEF effect
  <2>3. /\ replies'[i] = <<[value |-> effect.value]>> /\ manager'[i] = effect.state
        /\ thread'[i].at = "ready"
    BY <1>3, <2>2 DEF PInv, ProxyTypeOK, Doing
  <2>4. replies'[i] # <<>> /\ Head(replies'[i]) = [value |-> effect.value]
    <3>1. Len(replies'[i]) = 1 /\ Head(replies'[i]) = [value |-> effect.value]
      BY <2>3
    <3>2. QED
      BY <3>1
  <2>5. View(client[c], replies') = Serial!Replied([value |-> effect.value])
    BY <1>2, <1>7, <2>4, Views
  <2>6. View(client[c], replies) = Serial!Waiting(client[c].call)
    BY <1>2, <1>3, Views
  <2>7. SerialOngoing' = [SerialOngoing EXCEPT ![c] = Serial!Replied([value |-> effect.value])]
    BY <1>1, <1>5, <2>5, OngoingIs
  <2>8. SerialOngoing[c].at = "waiting" /\ SerialOngoing[c].call = client[c].call
    BY <2>6, OngoingIs DEF Serial!Waiting
  <2>9. Stopping = {} /\ Stopping' = Stopping
    BY <1>1, <1>2, <1>7 DEF Stopping
  <2>10. Current = i /\ Current' = i /\ i # 0
    BY <1>1, <1>2, <1>7, <2>9, CurrentIs DEF PInv, SlotOK, Calling, Current, Incarnation
  <2>11. SerialModule = "live" /\ SerialModule' = "live"
    BY <1>1, <2>3, <2>10 DEF SerialModule
  <2>12. SerialState = manager[i] /\ SerialState' = effect.state
    BY <2>3, <2>10, <2>11 DEF SerialState
  <2>13. Effect[SerialState, SerialOngoing[c].call] = effect
    BY <2>8, <2>12 DEF effect
  <2>14. Serial!Perform(c)
    BY <2>1, <2>7, <2>8, <2>11, <2>12, <2>13 DEF Serial!Perform, Serial!Reply
  <2>15. QED
    BY <2>14
<1>8. QED
  BY <1>6, <1>7

LEMMA PanicRefines ==
  ASSUME PInv, NEW i \in Incarnation, Panic(i)
  PROVE  Serial!Break
<1>1. /\ ~Gone(i) /\ thread' = [thread EXCEPT ![i] = Doing("panicked")]
      /\ UNCHANGED <<slot, client, manager, replies>>
  BY DEF Panic, Gone, channels
<1>2. SerialOngoing' = SerialOngoing
  BY <1>1, OngoingIs
<1>3. Stopping' = Stopping
  BY <1>1 DEF Stopping
<1>4. Current = i /\ Current' = i /\ i # 0
  BY <1>1, <1>3, CurrentKept, CurrentIs DEF Incarnation
<1>5. thread'[i].at = "panicked" /\ thread[i].at # "panicked"
  BY <1>1 DEF PInv, ProxyTypeOK, Doing, Gone
<1>6. SerialModule = "live" /\ SerialModule' = "broken" /\ SerialState' = Start
  BY <1>4, <1>5 DEF SerialModule, SerialState
<1>7. QED
  BY <1>2, <1>6 DEF Serial!Break

-----------------------------------------------------------------------------

LEMMA StepRefines ==
  ASSUME PInv, [Next]_vars
  PROVE  [Serial!Next]_(Serial!vars)
<1>1. ASSUME NEW c \in Client, ClientStep(c) \/ \E call \in Call : Invoke(c, call)
      PROVE  Serial!Next \/ UNCHANGED Serial!vars
  <2>1. Serial!Call = Call
    BY DEF Serial!Call, Call
  <2>2. CASE \E call \in Call : Invoke(c, call)
    BY <2>1, <2>2, InvokeRefines DEF Serial!Next
  <2>3. CASE Receive(c)
    BY <2>3, ReplyTakenRefines, BrokenCallRefines DEF Serial!Next, Receive
  <2>4. CASE Acquire(c) \/ C_Initialize(c) \/ C_Finalize(c) \/ SendCall(c) \/ Join(c) \/ Return(c)
    BY <2>4, AcquireRefines, InitializeRefines, FinalizeRefines, SendCallRefines, JoinRefines, ReturnRefines
       DEF Serial!Next
  <2>5. QED
    BY <1>1, <2>2, <2>3, <2>4 DEF ClientStep
<1>2. ASSUME NEW i \in Incarnation, ThreadStep(i) \/ Panic(i)
      PROVE  Serial!Next \/ UNCHANGED Serial!vars
  BY <1>2, BeginTakeExitRefine, ServeRefines, PanicRefines DEF Serial!Next, ThreadStep
<1>3. CASE UNCHANGED vars
  <2>1. UNCHANGED <<slot, client, thread, manager, replies>>
    BY <1>3 DEF vars
  <2>2. UNCHANGED <<SerialModule, SerialState, SerialOngoing>>
    BY <2>1 DEF SerialModule, SerialState, SerialOngoing, Current, Stopping
  <2>3. QED
    BY <2>2 DEF Serial!vars
<1>4. QED
  BY <1>1, <1>2, <1>3 DEF Next

\* lib.rs, ManagerProxy and the manager thread together are one Manager that serves one call at a
\* time, in an order that agrees with when the calls were made and returned; a panic shows only
\* as calls that fail (manager.rs: "using it should be identical to using the real Manager").
THEOREM ProxyImplementsSerial == Spec => LooksSerial
<1>1. Init => Serial!Init
  BY RefinesInit
<1>2. PInv /\ [Next]_vars => [Serial!Next]_(Serial!vars)
  BY StepRefines
<1>3. QED
  BY <1>1, <1>2, ProxyInvariant, PTL DEF Spec, LooksSerial, Serial!Spec
=============================================================================
