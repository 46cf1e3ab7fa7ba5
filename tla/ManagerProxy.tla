---------------------------- MODULE ManagerProxy ----------------------------
(***************************************************************************)
(* The threads of the module: the application's threads in lib.rs, which   *)
(* share one proxy slot behind a mutex, and the manager thread that a      *)
(* ManagerProxy (src/manager.rs) talks to over two channels.               *)
(*                                                                         *)
(* Every C_Initialize makes a new proxy with channels and a thread of its  *)
(* own, the incarnation.  The Manager itself is the function Effect here;  *)
(* module Manager has its calls.                                           *)
(***************************************************************************)
EXTENDS Naturals, Sequences, FiniteSets

CONSTANTS Client, Request, State, Value, Start, Effect,
          NoClient,       \* the lock is free
          MaxIncarnation  \* bound: number of proxies ever made

ASSUME ProxyAssumption ==
  /\ IsFiniteSet(Client)
  /\ Start \in State
  /\ Effect \in [State \X Request -> [state : State, value : Value]]
  /\ Request \cap {"C_Initialize", "C_Finalize", "Stop"} = {}
  /\ NoClient \notin Client
  /\ MaxIncarnation \in Nat

Incarnation == 1 .. MaxIncarnation
Call == Request \cup {"C_Initialize", "C_Finalize"}
Code == {"OK", "ALREADY_INITIALIZED", "NOT_INITIALIZED", "NO_MANAGER", "ERR"}
Reply == [value : Value] \cup [code : Code]
Message == Request \cup {"Stop"}

VARIABLES
  lock,     \* who holds the mutex of MANAGER_PROXY
  slot,     \* MANAGER_PROXY: the incarnation in the slot, or 0
  made,     \* number of incarnations made so far
  client,   \* client -> where it is in its call
  thread,   \* incarnation -> what its manager thread does
  manager,  \* incarnation -> state of real_manager
  requests, \* incarnation -> channel from the proxy to the thread
  replies   \* incarnation -> channel from the thread to the proxy

threads == <<thread, manager>>
channels == <<requests, replies>>
vars == <<lock, slot, made, client, thread, manager, requests, replies>>

-----------------------------------------------------------------------------
(* Where a client is. *)

Idle == [at |-> "idle"]
Wants(call) == [at |-> "wants", call |-> call]
Locked(call) == [at |-> "locked", call |-> call]
Awaiting(call, i) == [at |-> "awaiting", call |-> call, i |-> i]
Joining(i) == [at |-> "joining", call |-> "C_Finalize", i |-> i]
Done(reply) == [at |-> "done", reply |-> reply]

\* What a manager thread does: "starting" is Manager::new() with its first scan, "exiting"
\* is on its way out of the closure after Stop.
Serving(m) == [at |-> "serving", message |-> m]
Doing(at) == [at |-> at]
Gone(i) == thread[i].at \in {"none", "stopped", "panicked"}

Goto(c, where) == client' = [client EXCEPT ![c] = where]

\* The function returns; the guard it holds is dropped.
ReturnWith(c, reply) == Goto(c, Done(reply)) /\ lock' = NoClient

Init ==
  /\ lock = NoClient
  /\ slot = 0
  /\ made = 0
  /\ client = [c \in Client |-> Idle]
  /\ thread = [i \in Incarnation |-> Doing("none")]
  /\ manager = [i \in Incarnation |-> Start]
  /\ requests = [i \in Incarnation |-> <<>>]
  /\ replies = [i \in Incarnation |-> <<>>]

-----------------------------------------------------------------------------
(* The application's threads, in lib.rs and ManagerProxy. *)

\* Incarnations made, and those that may still be made by the calls in progress.
Attempts ==
  made + Cardinality({c \in Client : /\ client[c].at \in {"wants", "locked"}
                                     /\ client[c].call = "C_Initialize"})

Invoke(c, call) ==
  /\ client[c] = Idle
  /\ call = "C_Initialize" => Attempts < MaxIncarnation
  /\ Goto(c, Wants(call))
  /\ UNCHANGED <<lock, slot, made, threads, channels>>

Acquire(c) ==
  /\ client[c].at = "wants"
  /\ lock = NoClient
  /\ lock' = c
  /\ Goto(c, Locked(client[c].call))
  /\ UNCHANGED <<slot, made, threads, channels>>

\* ManagerProxy::new() does not wait for its thread.
C_Initialize(c) ==
  /\ client[c] = Locked("C_Initialize")
  /\ \/ /\ slot = 0
        /\ made' = made + 1
        /\ slot' = made'
        /\ thread' = [thread EXCEPT ![made'] = Doing("starting")]
        /\ ReturnWith(c, [code |-> "OK"])
     \/ /\ slot # 0
        /\ ReturnWith(c, [code |-> "ALREADY_INITIALIZED"])
        /\ UNCHANGED <<slot, made, thread>>
  /\ UNCHANGED <<manager, channels>>

\* First half of proxy_call: a message to a thread that is gone is an error at once.
Send(c, i, m) ==
  \/ /\ ~Gone(i)
     /\ requests' = [requests EXCEPT ![i] = Append(@, m)]
     /\ Goto(c, Awaiting(client[c].call, i))
     /\ UNCHANGED lock
  \/ /\ Gone(i)
     /\ ReturnWith(c, [code |-> "ERR"])
     /\ UNCHANGED requests

C_Finalize_KeepsBroken(c) ==
  /\ client[c] = Locked("C_Finalize")
  /\ \/ slot # 0 /\ Send(c, slot, "Stop") /\ slot' = IF Gone(slot) THEN slot ELSE 0
     \/ slot = 0 /\ ReturnWith(c, [code |-> "NOT_INITIALIZED"]) /\ UNCHANGED <<requests, slot>>
  /\ UNCHANGED <<made, threads, replies>>

\* The slot is emptied before the manager is asked to stop.
C_Finalize(c) ==
  /\ client[c] = Locked("C_Finalize")
  /\ slot' = 0
  /\ \/ slot # 0 /\ Send(c, slot, "Stop")
     \/ slot = 0 /\ ReturnWith(c, [code |-> "NOT_INITIALIZED"]) /\ UNCHANGED requests
  /\ UNCHANGED <<made, threads, replies>>

SendCall_Unlocks(c) ==
  /\ client[c].at = "locked" /\ client[c].call \in Request
  /\ slot # 0 /\ ~Gone(slot)
  /\ requests' = [requests EXCEPT ![slot] = Append(@, client[c].call)]
  /\ Goto(c, Awaiting(client[c].call, slot))
  /\ lock' = NoClient
  /\ UNCHANGED <<slot, made, threads, replies>>

\* Every other C_ function: the guard, the manager in it, the first half of proxy_call.
SendCall(c) ==
  /\ client[c].at = "locked" /\ client[c].call \in Request
  /\ \/ slot # 0 /\ Send(c, slot, client[c].call)
     \/ slot = 0 /\ ReturnWith(c, [code |-> "NO_MANAGER"]) /\ UNCHANGED requests
  /\ UNCHANGED <<slot, made, threads, replies>>

Receive_WaitsForReply(c) ==
  /\ client[c].at = "awaiting"
  /\ LET i == client[c].i
     IN  /\ replies[i] # <<>>
         /\ replies' = [replies EXCEPT ![i] = Tail(@)]
         /\ IF client[c].call = "C_Finalize"
            THEN Goto(c, Joining(i)) /\ UNCHANGED lock
            ELSE ReturnWith(c, Head(replies[i]))
  /\ UNCHANGED <<slot, made, threads, requests>>

Receive_NoJoin(c) ==
  /\ client[c].at = "awaiting"
  /\ replies[client[c].i] # <<>>
  /\ replies' = [replies EXCEPT ![client[c].i] = Tail(@)]
  /\ ReturnWith(c, Head(replies[client[c].i]))
  /\ UNCHANGED <<slot, made, threads, requests>>

\* Second half of proxy_call.  A thread that is gone has dropped its end of both channels;
\* stop() then returns without joining.
Receive(c) ==
  /\ client[c].at = "awaiting"
  /\ LET i == client[c].i
     IN  \/ /\ replies[i] # <<>>
            /\ replies' = [replies EXCEPT ![i] = Tail(@)]
            /\ IF client[c].call = "C_Finalize"
               THEN Goto(c, Joining(i)) /\ UNCHANGED lock
               ELSE ReturnWith(c, Head(replies[i]))
         \/ /\ replies[i] = <<>> /\ Gone(i)
            /\ ReturnWith(c, [code |-> "ERR"])
            /\ UNCHANGED replies
  /\ UNCHANGED <<slot, made, threads, requests>>

\* thread_handle.join().  No thread panics once it has answered Stop.
Join(c) ==
  /\ client[c].at = "joining"
  /\ Gone(client[c].i)
  /\ ReturnWith(c, [code |-> "OK"])
  /\ UNCHANGED <<slot, made, threads, channels>>

Return(c) ==
  /\ client[c].at = "done"
  /\ Goto(c, Idle)
  /\ UNCHANGED <<lock, slot, made, threads, channels>>

-----------------------------------------------------------------------------
(* The manager threads.  The error arms of their recv and send are not reached: a proxy *)
(* is only dropped by C_Finalize, after its thread has answered Stop or is gone.        *)

Begin(i) ==
  /\ thread[i].at = "starting"
  /\ thread' = [thread EXCEPT ![i] = Doing("ready")]
  /\ UNCHANGED <<lock, slot, made, client, manager, channels>>

Take(i) ==
  /\ thread[i].at = "ready"
  /\ requests[i] # <<>>
  /\ thread' = [thread EXCEPT ![i] = Serving(Head(requests[i]))]
  /\ requests' = [requests EXCEPT ![i] = Tail(@)]
  /\ UNCHANGED <<lock, slot, made, client, manager, replies>>

Serve(i) ==
  /\ thread[i].at = "serving"
  /\ \/ /\ thread[i].message = "Stop"
        /\ replies' = [replies EXCEPT ![i] = Append(@, [code |-> "OK"])]
        /\ thread' = [thread EXCEPT ![i] = Doing("exiting")]
        /\ UNCHANGED manager
     \/ /\ thread[i].message # "Stop"
        /\ LET effect == Effect[manager[i], thread[i].message]
           IN  /\ manager' = [manager EXCEPT ![i] = effect.state]
               /\ replies' = [replies EXCEPT ![i] = Append(@, [value |-> effect.value])]
        /\ thread' = [thread EXCEPT ![i] = Doing("ready")]
  /\ UNCHANGED <<lock, slot, made, client, requests>>

\* The Manager panics in its first scan or in a call: the channels go with the thread.
Panic(i) ==
  /\ \/ thread[i].at = "starting"
     \/ thread[i].at = "serving" /\ thread[i].message # "Stop"
  /\ thread' = [thread EXCEPT ![i] = Doing("panicked")]
  /\ UNCHANGED <<lock, slot, made, client, manager, channels>>

Exit(i) ==
  /\ thread[i].at = "exiting"
  /\ thread' = [thread EXCEPT ![i] = Doing("stopped")]
  /\ UNCHANGED <<lock, slot, made, client, manager, channels>>

-----------------------------------------------------------------------------

ClientStep(c) ==
  \/ Acquire(c)
  \/ C_Initialize(c) \/ C_Finalize(c) \/ SendCall(c)
  \/ Receive(c) \/ Join(c) \/ Return(c)

ThreadStep(i) == Begin(i) \/ Take(i) \/ Serve(i) \/ Exit(i)

Next ==
  \/ \E c \in Client : ClientStep(c) \/ \E call \in Call : Invoke(c, call)
  \/ \E i \in Incarnation : ThreadStep(i) \/ Panic(i)

\* Threads that can run do.  The mutex is not assumed to be fair: only that, when it is
\* free and wanted, somebody gets it.
Fairness ==
  /\ \A c \in Client : WF_vars(ClientStep(c))
  /\ \A i \in Incarnation : WF_vars(ThreadStep(i))

Spec == Init /\ [][Next]_vars /\ Fairness

-----------------------------------------------------------------------------
(* Properties. *)

\* A live thread has exactly one message of its proxy in its hands or in the channels while
\* a client waits for it, and none otherwise: a reply can not be left for the next caller,
\* and manager_proxy_fn_impl never sees "unexpected return value from manager".
InFlight(i) == Len(requests[i]) + Len(replies[i]) + (IF thread[i].at = "serving" THEN 1 ELSE 0)
NoStrayMessages ==
  \A i \in Incarnation :
    thread[i].at # "panicked" =>
      InFlight(i) = IF \E c \in Client : client[c].at = "awaiting" /\ client[c].i = i
                    THEN 1 ELSE 0

\* "After C_Finalize returns, the module is uninitialized" and nothing of it still runs: when
\* nobody is inside the module and the slot is empty, every manager thread is gone; so the
\* operating system's APIs are never used by two manager threads.
FinalizedMeansGone ==
  /\ lock = NoClient => \A i \in Incarnation : i # slot => Gone(i)
  /\ \A i, j \in Incarnation : ~Gone(i) /\ ~Gone(j) => i = j

\* A module that broke is not stuck: every client inside the module leaves it, although the
\* thread it talks to may panic before, during or after the call.
CallsReturn == \A c \in Client : lock = c ~> client[c].at = "done"

-----------------------------------------------------------------------------
(* Refinement: a client is served at the moment the manager thread computes its reply. *)

\* The incarnation that callers can tell exists: the one in the slot, or the one that the
\* client inside C_Finalize has taken out and is still stopping.
Stopping == {c \in Client : client[c].at \in {"awaiting", "joining"} /\ client[c].call = "C_Finalize"}
Current == IF Stopping = {} THEN slot ELSE client[CHOOSE c \in Stopping : TRUE].i

SerialModule ==
  IF Current = 0 THEN "none" ELSE IF thread[Current].at = "panicked" THEN "broken" ELSE "live"
SerialState == IF SerialModule = "live" THEN manager[Current] ELSE Start
SerialOngoing ==
  [c \in Client |->
     CASE client[c].at = "idle" -> [at |-> "idle"]
       [] client[c].at = "done" -> [at |-> "replied", reply |-> client[c].reply]
       [] client[c].at = "awaiting" /\ client[c].call # "C_Finalize" /\ replies[client[c].i] # <<>>
            -> [at |-> "replied", reply |-> Head(replies[client[c].i])]
       [] OTHER -> [at |-> "waiting", call |-> client[c].call]]

Serial == INSTANCE SerialManager
            WITH module <- SerialModule, state <- SerialState, ongoing <- SerialOngoing

\* Mutex, channels and thread together behave as one Manager that serves one call at a time
\* ("using it should be identical to using the real Manager").
LooksSerial == Serial!Spec
=============================================================================
