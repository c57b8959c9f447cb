-------------------------------- MODULE Rpc --------------------------------
(***************************************************************************)
(* Remote calls (libipc), the two servers and their clients.  A client's   *)
(* call of object_alloc is a message to the sandbox, whose handler calls   *)
(* the root server in turn.  Messages carry at most one capability: the    *)
(* kernel moves it into the slot the receiver has set as its receive path, *)
(* and moves nothing when that slot is taken or the sent one is empty.     *)
(* Whether objects are lost therefore hangs on which slots are empty when. *)
(*                                                                         *)
(* Slots and endpoints are the kernel's (seL4) as the code uses them.      *)
(* Message lengths are left out: both ends take them from one structure.   *)
(***************************************************************************)
EXTENDS Integers, Sequences, FiniteSets

CONSTANTS Clients, Objects, Nobody,
          ClientSlots,   \* capability slots of a client
          SandboxSlots   \* capability slots of the sandbox besides fixed ones

ASSUME SlotsAssumption == /\ ClientSlots \in Nat \ {0}
                          /\ SandboxSlots \in Nat /\ SandboxSlots >= 4

\* The mark for nobody, and the sandbox as a caller, are told from the clients.
ASSUME NamesAssumption == /\ Nobody \notin Clients \cup Objects \cup {"sandbox"}
                          /\ "sandbox" \notin Clients

Servers == {"sandbox", "root"}

VARIABLES
    client,    \* client -> where it is in its call, the answer, and the
               \*           contents of the slot of its receive path
    tokens,    \* client -> tokens: cookie -> the capability in token->slot
    received,  \* client -> capability got from sandbox_get_registrar
    cslots,    \* client -> number of free capability slots
    queue,     \* server -> callers blocked on its endpoint, first come first
    serving,   \* server -> the request it handles, and where it stands
    recv, send,\* server -> contents of recv_cptr and send_cptr
    path,      \* sandbox: the slot its receive path names
    slots,     \* sandbox: number of free capability slots
    loop,      \* sandbox: which of its two server loops runs
    registrar, \* sandbox: contents of the slot of the registrar's endpoint,
    hasReg,    \*          and whether there is such a slot
    registered,\* what was registered, even when it is gone since
    alive      \* root server: objects with a token

vars == <<client, tokens, received, cslots, queue, serving, recv, send, path,
          slots, loop, registrar, hasReg, registered, alive>>

clientVars == <<client, tokens, received, cslots>>
sandboxVars == <<path, slots, loop, registrar, hasReg, registered>>

Request == [label : {"ping", "alloc", "free", "set_registrar",
                     "get_registrar"},
            cookie : Objects \cup {Nobody}, cap : Objects \cup {Nobody}]
\* An answer says how many capabilities came with it.
Answer == [ok : BOOLEAN, cookie : Objects \cup {Nobody}, caps : {0, 1}]
Ask(label, cookie, cap) == [label |-> label, cookie |-> cookie, cap |-> cap]
Refused == [ok |-> FALSE, cookie |-> Nobody, caps |-> 0]
Granted(cookie) == [ok |-> TRUE, cookie |-> cookie, caps |-> 0]

TypeOK ==
    /\ client \in [Clients ->
          [pc : {"idle", "calling", "answered", "stopped", "failed"},
           ask : Request, answer : Answer, slot : Objects \cup {Nobody}]]
    /\ \A c \in Clients : /\ DOMAIN tokens[c] \subseteq Objects
                          /\ \A o \in DOMAIN tokens[c] :
                                tokens[c][o] \in Objects \cup {Nobody}
    /\ received \in [Clients -> Objects \cup {Nobody}]
    /\ cslots \in [Clients -> 0..ClientSlots]
    /\ \A s \in Servers : queue[s] \in Seq(Clients \cup {"sandbox"})
    /\ \A s \in Servers : serving[s].pc \in {"recv", "handle", "calling",
                                  "returned", "reply", "turn", "failed"}
    /\ recv \in [Servers -> Objects \cup {Nobody}]
    /\ send \in [Servers -> Objects \cup {Nobody}]
    /\ path \in {"recv", "send", "spare"}
    /\ slots \in 0..SandboxSlots
    /\ loop \in {"unregistered", "registered"}
    /\ registrar \in Objects \cup {Nobody}
    /\ hasReg \in BOOLEAN
    /\ registered \in Objects \cup {Nobody}
    /\ alive \subseteq Objects

NoAsk == Ask("ping", Nobody, Nobody)

Init ==
    /\ client = [c \in Clients |-> [pc |-> "idle", ask |-> NoAsk,
                                    answer |-> Refused, slot |-> Nobody]]
    /\ tokens = [c \in Clients |-> [o \in {} |-> Nobody]]
    /\ received = [c \in Clients |-> Nobody]
    /\ cslots = [c \in Clients |-> ClientSlots]
    /\ queue = [s \in Servers |-> <<>>]
    /\ serving = [s \in Servers |-> [pc |-> "recv", from |-> Nobody,
                    ask |-> NoAsk, caps |-> 0, answer |-> Refused,
                    gives |-> FALSE]]
    /\ recv = [s \in Servers |-> Nobody]
    /\ send = [s \in Servers |-> Nobody]
    /\ path = "recv"
    /\ slots = SandboxSlots - 2     \* SERVER_LOOP holds two
    /\ loop = "unregistered"
    /\ registrar = Nobody
    /\ hasReg = FALSE
    /\ registered = Nobody
    /\ alive = {}
-----------------------------------------------------------------------------
(***************************************************************************)
(* Clients: perform_ipc takes a slot for a capability that may come back,  *)
(* the caller's or a spare one, and gives the spare one back at the end.   *)
(***************************************************************************)
Call(c, ask) ==
    /\ client' = [client EXCEPT ![c].pc = "calling", ![c].ask = ask]
    /\ queue' = [queue EXCEPT !["sandbox"] = Append(@, c)]
    /\ UNCHANGED <<serving, recv, send, sandboxVars, alive>>

object_alloc(c) ==
    /\ client[c].pc = "idle" /\ cslots[c] > 0
    /\ cslots' = [cslots EXCEPT ![c] = @ - 1]
    /\ Call(c, Ask("alloc", Nobody, Nobody))
    /\ UNCHANGED <<tokens, received>>

\* The token's slot goes back first; the call takes a spare one.
object_free_token(c, o) ==
    /\ client[c].pc = "idle" /\ o \in DOMAIN tokens[c]
    /\ tokens' = [tokens EXCEPT ![c][o] = Nobody]
    /\ cslots' = [cslots EXCEPT ![c] = @ + 1 - 1]
    /\ Call(c, Ask("free", o, Nobody))
    /\ UNCHANGED received

ping(c) ==
    /\ client[c].pc = "idle" /\ cslots[c] > 0
    /\ cslots' = [cslots EXCEPT ![c] = @ - 1]
    /\ Call(c, NoAsk)
    /\ UNCHANGED <<tokens, received>>

\* The registrar sends the endpoint it has just made.
set_registrar(c, o) ==
    /\ client[c].pc = "idle" /\ cslots[c] > 0 /\ o \in DOMAIN tokens[c]
    /\ cslots' = [cslots EXCEPT ![c] = @ - 1]
    /\ Call(c, Ask("set_registrar", Nobody, tokens[c][o]))
    /\ UNCHANGED <<tokens, received>>

\* ioroot asks once, for a slot it keeps.
get_registrar(c) ==
    /\ client[c].pc = "idle" /\ cslots[c] > 0 /\ received[c] = Nobody
    /\ cslots' = [cslots EXCEPT ![c] = @ - 1]
    /\ Call(c, Ask("get_registrar", Nobody, Nobody))
    /\ UNCHANGED <<tokens, received>>

\* What perform_ipc makes of an answer: a capability has to have come exactly
\* when the caller gave a slot for one.
Understood(ask, answer) ==
    answer.ok /\ (ask.label \in {"alloc", "get_registrar"}) = (answer.caps = 1)

\* The end of a call: nobody waits any more, and the process goes on in pc.
Ends(c, pc) ==
    client' = [client EXCEPT ![c] = [pc |-> pc, ask |-> NoAsk,
                                     answer |-> Refused, slot |-> Nobody]]

Return(c) ==
    LET ask == client[c].ask
        answer == client[c].answer
        good == Understood(ask, answer)
    IN  /\ client[c].pc = "answered"
        /\ \/ /\ ask.label = "alloc" /\ good
              /\ tokens' = [tokens EXCEPT ![c] =
                   [o \in DOMAIN @ \cup {answer.cookie} |->
                        IF o = answer.cookie THEN client[c].slot ELSE @[o]]]
              /\ Ends(c, IF answer.cookie = Nobody THEN "failed" ELSE "idle")
              /\ UNCHANGED <<received, cslots>>
           \/ /\ ask.label = "get_registrar"
              /\ received' = [received EXCEPT ![c] = client[c].slot]
              /\ Ends(c, IF good THEN "idle" ELSE "stopped")
              /\ UNCHANGED <<tokens, cslots>>
           \/ /\ ask.label = "free"
              /\ tokens' = [tokens EXCEPT ![c] =
                   [o \in DOMAIN @ \ {ask.cookie} |-> @[o]]]
              /\ cslots' = [cslots EXCEPT ![c] = @ + 1]
              /\ Ends(c, IF good THEN "idle" ELSE "failed")
              /\ UNCHANGED received
           \/ /\ ask.label \in {"ping", "set_registrar"} \/ (ask.label = "alloc" /\ ~good)
              /\ cslots' = [cslots EXCEPT ![c] = @ + 1]
              /\ Ends(c, "idle")
              /\ UNCHANGED <<tokens, received>>
        /\ UNCHANGED <<queue, serving, recv, send, sandboxVars, alive>>
-----------------------------------------------------------------------------
(***************************************************************************)
(* The server loop, for both servers.                                      *)
(***************************************************************************)
AskOf(s, from) == IF from = "sandbox" THEN serving["sandbox"].ask
                                      ELSE client[from].ask

\* seL4_Recv: the sender's capability moves if the receive slot is empty.
Recv(s) ==
    /\ serving[s].pc = "recv" /\ queue[s] # <<>>
    /\ LET from == Head(queue[s])
           ask == AskOf(s, from)
           \* the sandbox relays the data of a request, never its capability
           cap == IF from = "sandbox" THEN Nobody ELSE ask.cap
           moved == cap # Nobody /\ recv[s] = Nobody
       IN  /\ recv' = IF moved THEN [recv EXCEPT ![s] = cap] ELSE recv
           /\ serving' = [serving EXCEPT ![s] =
                [pc |-> "handle", from |-> from, ask |-> ask,
                 caps |-> IF moved THEN 1 ELSE 0,
                 answer |-> Refused, gives |-> FALSE]]
    /\ queue' = [queue EXCEPT ![s] = Tail(@)]
    /\ UNCHANGED <<clientVars, send, sandboxVars, alive>>

\* The messages with a capability, in or out: SERVER_FOR sets response_caps
\* for both kinds (meta & 3).
WithCapability == {"alloc", "set_registrar", "get_registrar"}

Answers(s, answer) ==
    serving' = [serving EXCEPT ![s].pc = "reply", ![s].answer = answer,
                    ![s].gives = answer.ok /\ serving[s].ask.label \in WithCapability]

\* seL4_Reply: the contents of the send slot go with the answer if that is
\* asked for and the caller's receive slot is empty.
Reply(s) ==
    LET from == serving[s].from
        into == IF from # "sandbox" THEN client[from].slot
                ELSE IF path = "send" THEN send["sandbox"] ELSE Nobody
        moves == serving[s].gives /\ send[s] # Nobody /\ into = Nobody
        answer == [serving[s].answer EXCEPT !.caps = IF moves THEN 1 ELSE 0]
    IN  /\ serving[s].pc = "reply"
        /\ IF from = "sandbox"
           THEN /\ serving' = [serving EXCEPT ![s].pc = "turn",
                    !["sandbox"].pc = "returned", !["sandbox"].answer = answer]
                /\ send' = IF moves /\ path = "send"
                           THEN [send EXCEPT !["sandbox"] = send[s]] ELSE send
                /\ UNCHANGED client
           ELSE /\ serving' = [serving EXCEPT ![s].pc = "turn"]
                /\ client' = [client EXCEPT ![from].pc = "answered",
                    ![from].answer = answer,
                    ![from].slot = IF moves THEN send[s] ELSE @]
                /\ UNCHANGED send
        /\ UNCHANGED <<tokens, received, cslots, queue, recv, sandboxVars, alive>>

\* The end of a turn empties both slots; the next sets the receive path.  The
\* sandbox's first loop ends when a registrar is known: its two slots go back
\* and the second loop takes two.
Turn_FirstLoopOn(s) ==
    /\ serving[s].pc = "turn"
    /\ send' = [send EXCEPT ![s] = Nobody]
    /\ recv' = [recv EXCEPT ![s] = Nobody]
    /\ serving' = [serving EXCEPT ![s] = [pc |-> "recv", from |-> Nobody,
                    ask |-> NoAsk, caps |-> 0, answer |-> Refused,
                    gives |-> FALSE]]
    /\ path' = IF s = "sandbox" THEN "recv" ELSE path
    /\ UNCHANGED <<clientVars, queue, slots, loop, registrar, hasReg, registered, alive>>

Turn(s) ==
    /\ serving[s].pc = "turn"
    /\ send' = [send EXCEPT ![s] = Nobody]
    /\ recv' = [recv EXCEPT ![s] = Nobody]
    /\ serving' = [serving EXCEPT ![s] = [pc |-> "recv", from |-> Nobody,
                    ask |-> NoAsk, caps |-> 0, answer |-> Refused,
                    gives |-> FALSE]]
    /\ IF s = "sandbox"
       THEN /\ path' = "recv"
            /\ loop' = IF hasReg THEN "registered" ELSE loop
       ELSE UNCHANGED <<path, loop>>
    /\ UNCHANGED <<clientVars, queue, slots, registrar, hasReg, registered, alive>>

\* A request whose handler is not in the loop, or with too few or too many
\* capabilities, is answered with an error.
Rejects(s, labels) ==
    /\ serving[s].pc = "handle"
    /\ \/ serving[s].ask.label \notin labels
       \/ serving[s].caps # (IF serving[s].ask.label = "set_registrar" THEN 1 ELSE 0)
    /\ Answers(s, Refused)
    /\ UNCHANGED <<clientVars, queue, recv, send, sandboxVars, alive>>

Handles(s, label) ==
    /\ serving[s].pc = "handle" /\ serving[s].ask.label = label
    /\ serving[s].caps = (IF label = "set_registrar" THEN 1 ELSE 0)
-----------------------------------------------------------------------------
(***************************************************************************)
(* The sandbox: the loop before registration, and the one after.           *)
(***************************************************************************)
LoopHandlers == {"ping", "alloc", "free"} \cup
    (IF loop = "unregistered" THEN {"set_registrar"} ELSE {"get_registrar"})

SandboxRejects == Rejects("sandbox", LoopHandlers)

SandboxPing ==
    /\ Handles("sandbox", "ping")
    /\ Answers("sandbox", Granted(Nobody))
    /\ UNCHANGED <<clientVars, queue, recv, send, sandboxVars, alive>>

\* ipc_alloc within the handler: the receive path becomes the send slot, so
\* that the object's capability is where SERVER_FOR sends it from.
SandboxAlloc_OtherSlot ==
    /\ Handles("sandbox", "alloc")
    /\ queue' = [queue EXCEPT !["root"] = Append(@, "sandbox")]
    /\ serving' = [serving EXCEPT !["sandbox"].pc = "calling"]
    /\ UNCHANGED <<clientVars, recv, send, sandboxVars, alive>>

SandboxAlloc_CallsItself ==
    /\ Handles("sandbox", "alloc")
    /\ path' = "send"
    /\ queue' = [queue EXCEPT !["sandbox"] = Append(@, "sandbox")]
    /\ serving' = [serving EXCEPT !["sandbox"].pc = "calling"]
    /\ UNCHANGED <<clientVars, recv, send, slots, loop, registrar, hasReg,
                   registered, alive>>

SandboxAlloc ==
    /\ Handles("sandbox", "alloc")
    /\ path' = "send"
    /\ queue' = [queue EXCEPT !["root"] = Append(@, "sandbox")]
    /\ serving' = [serving EXCEPT !["sandbox"].pc = "calling"]
    /\ UNCHANGED <<clientVars, recv, send, slots, loop, registrar, hasReg,
                   registered, alive>>

\* ipc_free takes a spare slot, and fails when there is none.
SandboxFree ==
    /\ Handles("sandbox", "free")
    /\ IF slots > 0
       THEN /\ slots' = slots - 1
            /\ path' = "spare"
            /\ queue' = [queue EXCEPT !["root"] = Append(@, "sandbox")]
            /\ serving' = [serving EXCEPT !["sandbox"].pc = "calling"]
       ELSE /\ Answers("sandbox", Refused)
            /\ UNCHANGED <<slots, path, queue>>
    /\ UNCHANGED <<clientVars, recv, send, loop, registrar, hasReg, registered,
                   alive>>

\* The answer of the root server becomes the sandbox's own.
SandboxReturns_SpareKept ==
    LET ask == serving["sandbox"].ask
        answer == serving["sandbox"].answer
    IN  /\ serving["sandbox"].pc = "returned"
        /\ Answers("sandbox", IF Understood(ask, answer)
                              THEN Granted(answer.cookie) ELSE Refused)
        /\ UNCHANGED <<clientVars, queue, recv, send, sandboxVars, alive>>

SandboxReturns ==
    LET ask == serving["sandbox"].ask
        answer == serving["sandbox"].answer
    IN  /\ serving["sandbox"].pc = "returned"
        /\ slots' = IF ask.label = "free" THEN slots + 1 ELSE slots
        /\ Answers("sandbox", IF Understood(ask, answer)
                              THEN Granted(answer.cookie) ELSE Refused)
        /\ UNCHANGED <<clientVars, queue, recv, send, path, loop, registrar,
                       hasReg, registered, alive>>

ipc_handle_sandbox_set_registrar ==
    /\ Handles("sandbox", "set_registrar") /\ loop = "unregistered"
    /\ IF hasReg
       THEN /\ serving' = [serving EXCEPT !["sandbox"].pc = "failed"]
            /\ UNCHANGED <<slots, registrar, hasReg, registered>>
       ELSE IF slots = 0
       THEN /\ Answers("sandbox", Refused)
            /\ UNCHANGED <<slots, registrar, hasReg, registered>>
       ELSE /\ slots' = slots - 1   \* kept also when the copy fails
            /\ registrar' = recv["sandbox"]
            /\ hasReg' = (recv["sandbox"] # Nobody)
            /\ registered' = recv["sandbox"]
            /\ Answers("sandbox", IF recv["sandbox"] # Nobody
                                  THEN Granted(Nobody) ELSE Refused)
    /\ UNCHANGED <<clientVars, queue, recv, send, path, loop, alive>>

\* A copy needs a full slot to copy from and an empty one to copy to.
ipc_handle_sandbox_get_registrar ==
    /\ Handles("sandbox", "get_registrar") /\ loop = "registered"
    /\ IF ~hasReg
       THEN /\ serving' = [serving EXCEPT !["sandbox"].pc = "failed"]
            /\ UNCHANGED send
       ELSE IF registrar # Nobody /\ send["sandbox"] = Nobody
       THEN /\ send' = [send EXCEPT !["sandbox"] = registrar]
            /\ Answers("sandbox", Granted(Nobody))
       ELSE /\ Answers("sandbox", Refused)
            /\ UNCHANGED send
    /\ UNCHANGED <<clientVars, queue, recv, sandboxVars, alive>>
-----------------------------------------------------------------------------
(***************************************************************************)
(* The root server, as far as the sandbox calls it while it serves.        *)
(***************************************************************************)
\* The object is made, or memory is short; its capability is copied into the
\* send slot, and the object is kept though nobody knows it if that fails.
ipc_handle_alloc ==
    /\ Handles("root", "alloc")
    /\ \/ /\ Answers("root", Refused)
          /\ UNCHANGED <<alive, send>>
       \/ \E o \in Objects \ alive :
            /\ alive' = alive \cup {o}
            /\ IF send["root"] = Nobody
               THEN /\ send' = [send EXCEPT !["root"] = o]
                    /\ Answers("root", Granted(o))
               ELSE /\ Answers("root", Refused)
                    /\ UNCHANGED send
    /\ UNCHANGED <<clientVars, queue, recv, sandboxVars>>

\* Freeing an object deletes every capability made from it, in all slots of
\* all processes.
Without(o, cap) == IF cap = o THEN Nobody ELSE cap

ipc_handle_free ==
    LET o == serving["root"].ask.cookie
    IN  /\ Handles("root", "free")
        /\ alive' = alive \ {o}
        /\ tokens' = [c \in Clients |-> [k \in DOMAIN tokens[c] |->
                                            Without(o, tokens[c][k])]]
        /\ received' = [c \in Clients |-> Without(o, received[c])]
        /\ client' = [c \in Clients |->
                        [client[c] EXCEPT !.slot = Without(o, @)]]
        /\ recv' = [s \in Servers |-> Without(o, recv[s])]
        /\ send' = [s \in Servers |-> Without(o, send[s])]
        /\ registrar' = Without(o, registrar)
        /\ IF o \in alive THEN Answers("root", Granted(Nobody))
           ELSE serving' = [serving EXCEPT !["root"].pc = "failed"]
        /\ UNCHANGED <<cslots, queue, path, slots, loop, hasReg, registered>>
-----------------------------------------------------------------------------
Sandbox == SandboxRejects \/ SandboxPing \/ SandboxAlloc \/ SandboxFree
           \/ SandboxReturns \/ ipc_handle_sandbox_set_registrar
           \/ ipc_handle_sandbox_get_registrar

Serve == (\E s \in Servers : Recv(s) \/ Reply(s) \/ Turn(s))
         \/ Sandbox \/ ipc_handle_alloc \/ ipc_handle_free

Clients_Next == \E c \in Clients :
    \/ object_alloc(c) \/ ping(c) \/ get_registrar(c) \/ Return(c)
    \/ \E o \in Objects : object_free_token(c, o) \/ set_registrar(c, o)

Next == Serve \/ Clients_Next

\* The kernel runs every process that can run, and wakes the callers of an
\* endpoint in the order they came.
Fairness == /\ \A s \in Servers : WF_vars(Recv(s)) /\ WF_vars(Reply(s))
                                  /\ WF_vars(Turn(s))
            /\ WF_vars(Sandbox) /\ WF_vars(ipc_handle_alloc)
            /\ WF_vars(ipc_handle_free)
            /\ \A c \in Clients : WF_vars(Return(c))

Spec == Init /\ [][Next]_vars /\ Fairness
-----------------------------------------------------------------------------
\* No assertion fails: a freed token names a live object and the free is never
\* refused (objectcli.c:51), a token has a cookie, the registrar is set once
\* and is there when asked for (main.c:42, 62 of the sandbox).
AssertionsHold == /\ \A c \in Clients : client[c].pc # "failed"
                  /\ \A s \in Servers : serving[s].pc # "failed"

\* A token's slot holds the capability of the very object its cookie names,
\* although the two came by different ways through two servers; and nobody
\* gets another object for the registrar than the one registered.
CapsMatchCookies ==
    \A c \in Clients :
        /\ \A o \in DOMAIN tokens[c] :
              tokens[c][o] = o \/ (client[c].ask.label = "free" /\ client[c].ask.cookie = o)
        /\ received[c] \in {Nobody, registered}

\* When a server waits for a request its two slots are empty and the receive
\* path names the first: otherwise the kernel would drop the next capability,
\* or a handler's copy fail.  The sandbox has given back every spare slot.
ReadyToReceive ==
    \A s \in Servers : serving[s].pc = "recv" =>
        /\ recv[s] = Nobody /\ send[s] = Nobody
        /\ s = "sandbox" => /\ path = "recv"
                            /\ slots = SandboxSlots - 2 - (IF hasReg THEN 1 ELSE 0)

\* Capabilities are where the messages put them, in the clients and in the
\* servers' slots.
CapabilitiesInPlace == CapsMatchCookies /\ ReadyToReceive

\* Every call is answered: the sandbox waits for the root server, nobody waits
\* for a client, and no caller starves.
CallsReturn == \A c \in Clients :
    client[c].pc = "calling" ~> client[c].pc \in {"idle", "stopped"}

\* The client on whose behalf an object is on its way.
Holder(o) ==
    LET sb == serving["sandbox"]
        rt == serving["root"]
        has(c) ==
            \/ o \in DOMAIN tokens[c] /\ ~(client[c].pc = "answered" /\ client[c].ask.cookie = o)
            \/ client[c].ask.label = "alloc" /\ client[c].answer.cookie = o
            \/ /\ sb.from = c /\ sb.ask.label = "alloc"
               /\ sb.pc # "turn"
               /\ sb.answer.cookie = o \/ (rt.from = "sandbox" /\ rt.pc = "reply" /\ rt.answer.cookie = o)
    IN  IF o \in alive /\ \E c \in Clients : has(c)
        THEN CHOOSE c \in Clients : has(c)
        ELSE IF o \in alive THEN o ELSE Nobody   \* o: lost, nobody can free it

\* The messages of three processes implement object ownership: no object is
\* lost on its way, and the registrar is registered once.
Service == INSTANCE ObjectService WITH
    owner <- [o \in Objects |-> Holder(o)], registrar <- registered

ImplementsService == Service!Spec
=============================================================================
