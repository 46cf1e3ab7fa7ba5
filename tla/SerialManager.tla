---------------------------- MODULE SerialManager ----------------------------
(***************************************************************************)
(* What lib.rs and ManagerProxy promise their callers: "using it should be *)
(* identical to using the real Manager".  Calls of any number of threads   *)
(* take effect one at a time, each at one moment between its invocation    *)
(* and its return, on a manager that exists from C_Initialize to           *)
(* C_Finalize and that may break, after which its calls fail.              *)
(***************************************************************************)
EXTENDS Naturals

CONSTANTS
  Client,  \* the application's threads
  Request, \* the calls that go to the Manager, all functions but the next two
  State,   \* states of the Manager
  Value,   \* what its calls return
  Start,   \* the state Manager::new() builds
  Effect   \* [State \X Request -> [state : State, value : Value]], ProxyAssumption
           \* of ManagerProxy says so where this module is instantiated

\* Return codes that are not the Manager's own: no module, or a module that broke.
Code == {"OK", "ALREADY_INITIALIZED", "NOT_INITIALIZED", "NO_MANAGER", "ERR"}
Call == Request \cup {"C_Initialize", "C_Finalize"}

VARIABLES
  module,   \* "none", "live" or "broken"
  state,    \* the Manager's state, Start when there is no live one
  ongoing   \* client -> what it is waiting for, or the reply it has not taken yet

vars == <<module, state, ongoing>>

Idle == [at |-> "idle"]
Waiting(call) == [at |-> "waiting", call |-> call]
Replied(reply) == [at |-> "replied", reply |-> reply]

TypeOK ==
  /\ module \in {"none", "live", "broken"}
  /\ state \in State
  /\ ongoing \in [Client -> {Idle} \cup {Waiting(call) : call \in Call}
                            \cup {Replied([value |-> v]) : v \in Value}
                            \cup {Replied([code |-> r]) : r \in Code}]

Init ==
  /\ module = "none"
  /\ state = Start
  /\ ongoing = [c \in Client |-> Idle]

Invoke(c, call) ==
  /\ ongoing[c] = Idle
  /\ ongoing' = [ongoing EXCEPT ![c] = Waiting(call)]
  /\ UNCHANGED <<module, state>>

Reply(c, reply) == ongoing' = [ongoing EXCEPT ![c] = Replied(reply)]

Initialize(c) ==
  /\ ongoing[c] = Waiting("C_Initialize")
  /\ \/ /\ module = "none"
        /\ module' = "live"
        /\ Reply(c, [code |-> "OK"])
     \/ /\ module # "none"
        /\ Reply(c, [code |-> "ALREADY_INITIALIZED"])
        /\ UNCHANGED module
  /\ UNCHANGED state

\* A broken module can still be finalized, and then be initialized again.
Finalize(c) ==
  /\ ongoing[c] = Waiting("C_Finalize")
  /\ module' = "none"
  /\ state' = Start
  /\ \/ module = "live" /\ Reply(c, [code |-> "OK"])
     \/ module = "broken" /\ Reply(c, [code |-> "ERR"])
     \/ module = "none" /\ Reply(c, [code |-> "NOT_INITIALIZED"])

Perform(c) ==
  /\ ongoing[c].at = "waiting" /\ ongoing[c].call \in Request
  /\ \/ /\ module = "live"
        /\ LET effect == Effect[state, ongoing[c].call]
           IN  state' = effect.state /\ Reply(c, [value |-> effect.value])
     \/ module = "broken" /\ Reply(c, [code |-> "ERR"]) /\ UNCHANGED state
     \/ module = "none" /\ Reply(c, [code |-> "NO_MANAGER"]) /\ UNCHANGED state
  /\ UNCHANGED module

Return(c) ==
  /\ ongoing[c].at = "replied"
  /\ ongoing' = [ongoing EXCEPT ![c] = Idle]
  /\ UNCHANGED <<module, state>>

\* A panic in the Manager loses its state; callers only see their calls fail.
Break ==
  /\ module = "live"
  /\ module' = "broken"
  /\ state' = Start
  /\ UNCHANGED ongoing

Next ==
  \/ \E c \in Client :
       \/ \E call \in Call : Invoke(c, call)
       \/ Initialize(c) \/ Finalize(c) \/ Perform(c) \/ Return(c)
  \/ Break

Spec == Init /\ [][Next]_vars
=============================================================================
