----------------------------- MODULE RpcProofs -----------------------------
(***************************************************************************)
(* Proofs about remote calls, for any number of clients and objects: no    *)
(* assertion fails, capabilities are where the messages put them, and the  *)
(* messages of three processes implement the ownership of ObjectService.   *)
(*                                                                         *)
(* The invariant follows a call along its way.  At each place a call can   *)
(* be it says which slots are empty, what has been decided, and where the  *)
(* capability is; and it says that an object which exists is at exactly    *)
(* one of those places.                                                    *)
(***************************************************************************)
EXTENDS Rpc, SequenceTheorems, TLAPS

sb == serving["sandbox"]
rt == serving["root"]

Caps == Objects \cup {Nobody}

CallStates == [pc : {"idle", "calling", "answered", "stopped"},
               ask : Request, answer : Answer, slot : Caps]

ServeStates == [pc : {"recv", "handle", "calling", "returned", "reply", "turn"},
                from : Clients \cup {"sandbox", Nobody}, ask : Request,
                caps : {0, 1}, answer : Answer, gives : BOOLEAN]

Typed ==
    /\ client \in [Clients -> CallStates]
    /\ serving \in [Servers -> ServeStates]
    /\ DOMAIN tokens = Clients
    /\ \A c \in Clients : DOMAIN tokens[c] \subseteq Objects
    /\ received \in [Clients -> Caps]
    /\ DOMAIN queue = Servers
    /\ queue["sandbox"] \in Seq(Clients)
    /\ recv \in [Servers -> Caps] /\ send \in [Servers -> Caps]
    /\ registrar \in Caps /\ registered \in Caps /\ hasReg \in BOOLEAN
    /\ alive \subseteq Objects

\* A request waits until the sandbox takes it, and waits once.
InService(c) == sb.from = c /\ sb.pc \in {"handle", "calling", "returned", "reply"}

Once(q) == \A i, j \in 1..Len(q) : q[i] = q[j] => i = j
In(q, c) == \E i \in 1..Len(q) : q[i] = c

Queues ==
    /\ Once(queue["sandbox"])
    /\ \A c \in Clients : In(queue["sandbox"], c) => client[c].pc = "calling" /\ ~InService(c)
    /\ \A c \in Clients : InService(c) => client[c].pc = "calling"

\* What a client has asked.
AskSound(c) ==
    LET ask == client[c].ask
    IN  /\ ask.label = "free" => ask.cookie \in DOMAIN tokens[c]
        /\ ask.label # "free" => ask.cookie = Nobody
        /\ ask.label = "set_registrar" => ask.cap \in DOMAIN tokens[c]
        /\ ask.label # "set_registrar" => ask.cap = Nobody
        /\ client[c].pc \in {"idle", "stopped"} => ask = NoAsk

\* What a client has been answered: a capability comes with the object it
\* stands for, and a free is never refused.
AnswerSound(c) ==
    LET ask == client[c].ask
        answer == client[c].answer
    IN  /\ client[c].pc # "answered" => answer = Refused /\ client[c].slot = Nobody
        /\ client[c].pc = "answered" =>
              /\ (ask.label = "alloc" /\ answer.ok) =>
                    answer.cookie \in alive /\ answer.caps = 1 /\ client[c].slot = answer.cookie
              /\ (ask.label = "alloc" /\ ~answer.ok) => answer.cookie = Nobody
              /\ ask.label = "free" => answer.ok /\ answer.caps = 0
              /\ ask.label = "get_registrar" => client[c].slot \in {Nobody, registered}

ClientsSound == \A c \in Clients : AskSound(c) /\ AnswerSound(c)

SandboxSound ==
    /\ sb.pc \in {"handle", "calling", "returned", "reply"} =>
          sb.from \in Clients /\ sb.ask = client[sb.from].ask
    /\ sb.pc = "recv" => recv["sandbox"] = Nobody
    /\ sb.pc \in {"recv", "handle", "calling"} => send["sandbox"] = Nobody
    /\ sb.pc \in {"recv", "handle"} => path = "recv"
    /\ sb.pc = "handle" => /\ recv["sandbox"] = sb.ask.cap
                           /\ sb.caps = IF sb.ask.cap = Nobody THEN 0 ELSE 1
    /\ sb.pc \in {"recv", "handle", "calling"} => sb.answer = Refused
    /\ sb.pc = "calling" => \/ sb.ask.label = "alloc" /\ path = "send"
                            \/ sb.ask.label = "free" /\ path = "spare"
    /\ sb.pc = "returned" => sb.ask.label \in {"alloc", "free"}
    /\ (sb.pc \in {"returned", "reply"} /\ sb.ask.label = "free") =>
          sb.answer.ok /\ (sb.pc = "returned" => sb.answer.caps = 0)
    /\ (sb.pc \in {"returned", "reply"} /\ sb.ask.label = "alloc" /\ sb.answer.ok) =>
          /\ sb.answer.cookie \in alive /\ send["sandbox"] = sb.answer.cookie
          /\ sb.pc = "returned" => sb.answer.caps = 1
    /\ (sb.pc \in {"returned", "reply"} /\ sb.ask.label = "alloc" /\ ~sb.answer.ok) =>
          sb.answer.cookie = Nobody
    /\ (sb.pc = "reply" /\ sb.ask.label = "get_registrar") =>
          send["sandbox"] \in {Nobody, registered}
    /\ sb.pc = "reply" => sb.gives = (sb.answer.ok /\ sb.ask.label \in WithCapability)

\* The root server serves the sandbox, while that calls it.
RootSound ==
    /\ rt.pc \in {"recv", "handle", "reply", "turn"}
    /\ sb.pc # "calling" => queue["root"] = <<>> /\ rt.pc \in {"recv", "turn"}
    /\ sb.pc = "calling" => \/ queue["root"] = <<"sandbox">> /\ rt.pc \in {"recv", "turn"}
                            \/ queue["root"] = <<>> /\ rt.pc \in {"handle", "reply"}
    /\ rt.pc \in {"handle", "reply"} => rt.from = "sandbox" /\ rt.ask = sb.ask
    /\ rt.pc = "recv" => recv["root"] = Nobody
    /\ rt.pc \in {"recv", "handle"} => send["root"] = Nobody
    /\ rt.pc = "handle" => rt.caps = 0
    /\ (rt.pc = "reply" /\ rt.ask.label = "free") => rt.answer.ok /\ ~rt.gives
    /\ (rt.pc = "reply" /\ rt.ask.label = "alloc" /\ rt.answer.ok) =>
          rt.gives /\ rt.answer.cookie \in alive /\ send["root"] = rt.answer.cookie
    /\ (rt.pc = "reply" /\ rt.ask.label = "alloc" /\ ~rt.answer.ok) =>
          rt.answer.cookie = Nobody

\* The spare slot is taken only while the sandbox asks for an object's end,
\* and one slot is kept for the registrar's endpoint.
SlotsSound ==
    slots = SandboxSlots - 2 - (IF hasReg THEN 1 ELSE 0)
            - (IF sb.pc \in {"calling", "returned"} /\ sb.ask.label = "free" THEN 1 ELSE 0)

RegistrarSound ==
    /\ registrar \in {Nobody, registered}
    /\ ~hasReg => registered = Nobody
    /\ loop \in {"unregistered", "registered"}
    /\ loop = "registered" => hasReg
    /\ (hasReg /\ loop = "unregistered") => sb.pc \in {"reply", "turn"}

\* The object a client has asked to free is gone, although the client has its
\* token until the answer has come.
Freed(c, o) ==
    /\ client[c].ask.label = "free" /\ client[c].ask.cookie = o
    /\ \/ client[c].pc = "answered"
       \/ /\ sb.from = c
          /\ \/ sb.pc \in {"returned", "reply"}
             \/ sb.pc = "calling" /\ rt.pc = "reply"

HasToken(c, o) == o \in DOMAIN tokens[c] /\ ~Freed(c, o)

\* An object on its way to the client: in the root server's answer, in the
\* sandbox's, or in the message the client has not read yet.
Coming(c, o) ==
    \/ /\ client[c].pc = "answered" /\ client[c].ask.label = "alloc"
       /\ client[c].answer.cookie = o
    \/ /\ sb.from = c /\ sb.ask.label = "alloc"
       /\ \/ sb.pc \in {"returned", "reply"} /\ sb.answer.cookie = o
          \/ sb.pc = "calling" /\ rt.pc = "reply" /\ rt.answer.cookie = o

Holds(c, o) == HasToken(c, o) \/ Coming(c, o)

Ownership ==
    /\ \A c \in Clients, o \in Objects : Holds(c, o) => o \in alive
    /\ \A o \in alive : \E c \in Clients : Holds(c, o)
    /\ \A c, d \in Clients, o \in Objects : Holds(c, o) /\ Holds(d, o) => c = d
    /\ \A c \in Clients, o \in Objects : ~(HasToken(c, o) /\ Coming(c, o))
    /\ \A c \in Clients, o \in Objects :
          (Freed(c, o) /\ client[c].pc = "calling") => o \notin alive

IInv == /\ Typed /\ Queues /\ ClientsSound /\ SandboxSound /\ RootSound
        /\ SlotsSound /\ RegistrarSound /\ Ownership
        /\ CapsMatchCookies
-----------------------------------------------------------------------------
(***************************************************************************)
(* Facts about the records the messages are made of.                       *)
(***************************************************************************)
LEMMA Records ==
    /\ Refused \in Answer /\ ~Refused.ok /\ Refused.cookie = Nobody /\ Refused.caps = 0
    /\ NoAsk \in Request /\ NoAsk.label = "ping"
    /\ NoAsk.cookie = Nobody /\ NoAsk.cap = Nobody
    /\ \A r \in Request : r.cookie \in Caps /\ r.cap \in Caps
    /\ \A a \in Answer : a.ok \in BOOLEAN /\ a.cookie \in Caps /\ a.caps \in {0, 1}
  BY DEF Refused, Answer, NoAsk, Ask, Request, Caps

(***************************************************************************)
(* A queue in which nobody waits twice.                                    *)
(***************************************************************************)
LEMMA OnceAppend ==
  ASSUME NEW S, NEW q \in Seq(S), NEW x \in S, Once(q), ~In(q, x)
  PROVE  /\ Once(Append(q, x))
         /\ \A d : In(Append(q, x), d) <=> d = x \/ In(q, d)
<1> DEFINE r == Append(q, x)
<1>1. /\ Len(q) \in Nat /\ Len(r) = Len(q) + 1
      /\ \A i \in 1..Len(q) : r[i] = q[i]
      /\ r[Len(q) + 1] = x
  BY AppendProperties
<1> HIDE DEF r
<1>2. Once(r)
  BY <1>1 DEF Once, In
<1>3. \A d : In(r, d) <=> d = x \/ In(q, d)
  BY <1>1 DEF In
<1> QED
  BY <1>2, <1>3 DEF r

LEMMA OnceTail ==
  ASSUME NEW S, NEW q \in Seq(S), q # <<>>, Once(q)
  PROVE  /\ Once(Tail(q)) /\ In(q, Head(q))
         /\ \A d : In(Tail(q), d) <=> d # Head(q) /\ In(q, d)
<1> DEFINE r == Tail(q)
           h == Head(q)
<1>1. /\ Len(q) \in Nat /\ Len(q) > 0 /\ Len(r) = Len(q) - 1 /\ h = q[1]
      /\ \A i \in 1..Len(r) : r[i] = q[i + 1]
  BY HeadTailProperties, EmptySeq
<1> HIDE DEF r, h
<1>2. Once(r) /\ In(q, h)
  BY <1>1 DEF Once, In
<1>3. ASSUME NEW d PROVE In(r, d) => d # h /\ In(q, d)
  BY <1>1 DEF Once, In
<1>4. ASSUME NEW d, In(q, d), d # h PROVE In(r, d)
  <2> PICK i \in 1..Len(q) : q[i] = d
    BY <1>4 DEF In
  <2>1. i - 1 \in 1..Len(r) /\ r[i - 1] = q[i]
    BY <1>1, <1>4
  <2> QED
    BY <2>1 DEF In
<1> QED
  BY <1>2, <1>3, <1>4 DEF r, h

LEMMA InitIInv == Init => IInv
<1> SUFFICES ASSUME Init PROVE IInv
  OBVIOUS
<1>1. Typed
  <2>1. client \in [Clients -> CallStates]
    BY Records DEF Init, CallStates, Caps
  <2>2. serving \in [Servers -> ServeStates]
    BY Records DEF Init, ServeStates
  <2>3. /\ DOMAIN tokens = Clients
        /\ \A c \in Clients : DOMAIN tokens[c] = {}
    BY DEF Init
  <2>4. received \in [Clients -> Caps] /\ recv \in [Servers -> Caps] /\ send \in [Servers -> Caps]
    BY DEF Init, Caps
  <2>5. DOMAIN queue = Servers /\ queue["sandbox"] \in Seq(Clients)
    BY DEF Init, Servers
  <2> QED
    BY <2>1, <2>2, <2>3, <2>4, <2>5 DEF Init, Typed, Caps
<1>2. /\ sb = [pc |-> "recv", from |-> Nobody, ask |-> NoAsk, caps |-> 0,
               answer |-> Refused, gives |-> FALSE]
      /\ rt = sb /\ queue["sandbox"] = <<>> /\ queue["root"] = <<>>
      /\ recv["sandbox"] = Nobody /\ recv["root"] = Nobody
      /\ send["sandbox"] = Nobody /\ send["root"] = Nobody
      /\ \A c \in Clients : /\ client[c] = [pc |-> "idle", ask |-> NoAsk,
                                            answer |-> Refused, slot |-> Nobody]
                            /\ DOMAIN tokens[c] = {} /\ received[c] = Nobody
  BY DEF Init, Servers, sb, rt
<1>3. Queues /\ ClientsSound
  BY <1>2, Records DEF Queues, Once, In, InService, ClientsSound, AskSound, AnswerSound
<1>4. SandboxSound /\ RootSound
  BY <1>2, Records DEF Init, SandboxSound, RootSound
<1>5. SlotsSound /\ RegistrarSound
  BY <1>2, SlotsAssumption DEF Init, SlotsSound, RegistrarSound
<1>6. Ownership /\ CapsMatchCookies
  BY <1>2, Records DEF Init, Ownership, Holds, HasToken, Coming, Freed, CapsMatchCookies
<1> QED
  BY <1>1, <1>3, <1>4, <1>5, <1>6 DEF IInv

\* A step after which every object is where it was, or further on its way to
\* the same client.
Same == /\ alive' = alive /\ registered' = registered
        /\ \A c \in Clients, o \in Objects : Holds(c, o)' <=> Holds(c, o)

\* Ownership speaks of the places of objects only.
LEMMA OwnershipKept ==
  ASSUME Ownership, Same, alive \subseteq Objects,
         \A c \in Clients, o \in Objects : ~(HasToken(c, o)' /\ Coming(c, o)'),
         \A c \in Clients, o \in Objects :
            (Freed(c, o)' /\ client'[c].pc = "calling") =>
                (Freed(c, o) /\ client[c].pc = "calling")
  PROVE  Ownership'
  BY DEF Ownership, Same

(***************************************************************************)
(* A client's call is put at the end of the sandbox's queue.               *)
(***************************************************************************)
LEMMA CallKeeps ==
  ASSUME IInv, NEW c \in Clients, NEW ask \in Request, client[c].pc = "idle",
         Call(c, ask), received' = received,
         DOMAIN tokens' = Clients,
         \A d \in Clients : DOMAIN tokens'[d] = DOMAIN tokens[d],
         \A d \in Clients : \A o \in DOMAIN tokens[d] :
            tokens'[d][o] = tokens[d][o] \/ (d = c /\ ask.label = "free" /\ ask.cookie = o),
         ask.label = "free" => ask.cookie \in DOMAIN tokens[c],
         ask.label # "free" => ask.cookie = Nobody,
         ask.label = "set_registrar" => ask.cap \in DOMAIN tokens[c],
         ask.label # "set_registrar" => ask.cap = Nobody
  PROVE  IInv' /\ Same
<1>1. /\ client' \in [Clients -> CallStates]
      /\ \A d \in Clients : d # c => client'[d] = client[d]
      /\ client'[c].pc = "calling" /\ client'[c].ask = ask
      /\ client'[c].answer = client[c].answer /\ client'[c].slot = client[c].slot
  BY DEF IInv, Typed, Call, CallStates
<1>2. /\ DOMAIN queue' = Servers /\ queue'["root"] = queue["root"]
      /\ queue'["sandbox"] = Append(queue["sandbox"], c)
  BY DEF IInv, Typed, Call, Servers
<1>3. /\ serving' = serving /\ recv' = recv /\ send' = send /\ UNCHANGED sandboxVars
      /\ alive' = alive
  BY DEF Call
<1>4. /\ client[c].ask = NoAsk /\ client[c].answer = Refused /\ client[c].slot = Nobody
      /\ ~InService(c)
  BY DEF IInv, ClientsSound, AskSound, AnswerSound, Queues
<1>5. Typed'
  BY <1>1, <1>2, <1>3, AppendProperties DEF IInv, Typed, sandboxVars
<1>6. Queues'
  <2>1. queue["sandbox"] \in Seq(Clients) /\ Once(queue["sandbox"]) /\ ~In(queue["sandbox"], c)
    BY DEF IInv, Typed, Queues
  <2>2. /\ Once(queue'["sandbox"])
        /\ \A d : In(queue'["sandbox"], d) <=> d = c \/ In(queue["sandbox"], d)
    BY <1>2, <2>1, OnceAppend
  <2>3. \A d : InService(d)' = InService(d)
    BY <1>3 DEF InService, sb
  <2> QED
    BY <1>1, <1>4, <2>2, <2>3 DEF IInv, Queues
<1>7. ClientsSound'
  BY <1>1, <1>3, <1>4 DEF IInv, ClientsSound, AskSound, AnswerSound, sandboxVars
<1>8. SandboxSound'
  BY <1>1, <1>3, <1>4 DEF IInv, SandboxSound, InService, sb, sandboxVars
<1>9. RootSound' /\ SlotsSound' /\ RegistrarSound'
  BY <1>2, <1>3 DEF IInv, RootSound, SlotsSound, RegistrarSound, sb, rt, sandboxVars
<1>10. \A d \in Clients, o \in Objects :
          Freed(d, o)' = Freed(d, o) /\ Coming(d, o)' = Coming(d, o)
  BY <1>1, <1>3, <1>4, Records DEF Freed, Coming, InService, sb, rt
<1>11. \A d \in Clients, o \in Objects : HasToken(d, o)' = HasToken(d, o)
  BY <1>10 DEF HasToken
<1>12. Same
  BY <1>3, <1>10, <1>11 DEF Same, Holds, sandboxVars
<1>13. Ownership'
  <2>1. \A d \in Clients, o \in Objects : ~(HasToken(d, o)' /\ Coming(d, o)')
    BY <1>10, <1>11 DEF IInv, Ownership
  <2>2. \A d \in Clients, o \in Objects :
          (Freed(d, o)' /\ client'[d].pc = "calling") => (Freed(d, o) /\ client[d].pc = "calling")
    BY <1>1, <1>4, <1>10, Records DEF Freed
  <2> QED
    BY <1>12, <2>1, <2>2, OwnershipKept DEF IInv, Typed
<1>14. CapsMatchCookies'
  BY <1>1, <1>3, <1>4, Records DEF IInv, CapsMatchCookies, sandboxVars
<1> QED
  BY <1>5, <1>6, <1>7, <1>8, <1>9, <1>12, <1>13, <1>14 DEF IInv

LEMMA RequestsKeep ==
  ASSUME IInv, NEW c \in Clients,
         \/ object_alloc(c) \/ ping(c) \/ get_registrar(c)
         \/ \E o \in Objects : object_free_token(c, o) \/ set_registrar(c, o)
  PROVE  IInv' /\ Same
<1> DEFINE Asks(ask) == ask \in Request /\ client[c].pc = "idle" /\ Call(c, ask) /\ received' = received
<1>1. ASSUME NEW ask, Asks(ask), tokens' = tokens, ask.label # "free", ask.cookie = Nobody,
             ask.cap = Nobody, ask.label # "set_registrar"
      PROVE  IInv' /\ Same
  BY <1>1, CallKeeps DEF IInv, Typed
<1>2. CASE object_alloc(c)
  <2> DEFINE ask == Ask("alloc", Nobody, Nobody)
  <2>1. /\ ask \in Request /\ ask.label = "alloc" /\ ask.cookie = Nobody /\ ask.cap = Nobody
        /\ Asks(ask) /\ tokens' = tokens
    BY <1>2 DEF object_alloc, Ask, Request
  <2> QED
    BY <1>1, <2>1
<1>3. CASE ping(c)
  BY <1>1, <1>3, Records DEF ping
<1>4. CASE get_registrar(c)
  <2> DEFINE ask == Ask("get_registrar", Nobody, Nobody)
  <2>1. /\ ask \in Request /\ ask.label = "get_registrar" /\ ask.cookie = Nobody /\ ask.cap = Nobody
        /\ Asks(ask) /\ tokens' = tokens
    BY <1>4 DEF get_registrar, Ask, Request
  <2> QED
    BY <1>1, <2>1
<1>5. ASSUME NEW o \in Objects, object_free_token(c, o) PROVE IInv' /\ Same
  <2> DEFINE ask == Ask("free", o, Nobody)
  <2>1. /\ ask \in Request /\ ask.label = "free" /\ ask.cookie = o /\ ask.cap = Nobody
        /\ Asks(ask) /\ o \in DOMAIN tokens[c]
        /\ tokens' = [tokens EXCEPT ![c][o] = Nobody]
    BY <1>5 DEF object_free_token, Ask, Request
  <2>2. /\ DOMAIN tokens' = Clients
        /\ \A d \in Clients : DOMAIN tokens'[d] = DOMAIN tokens[d]
        /\ \A d \in Clients : \A k \in DOMAIN tokens[d] :
              tokens'[d][k] = tokens[d][k] \/ (d = c /\ k = o)
    BY <2>1 DEF IInv, Typed
  <2> QED
    BY <2>1, <2>2, CallKeeps
<1>6. ASSUME NEW o \in Objects, set_registrar(c, o) PROVE IInv' /\ Same
  <2> DEFINE ask == Ask("set_registrar", Nobody, tokens[c][o])
  <2>1. o \in DOMAIN tokens[c] /\ tokens[c][o] = o
    BY <1>6, Records DEF set_registrar, IInv, CapsMatchCookies, ClientsSound, AskSound
  <2>2. /\ ask \in Request /\ ask.label = "set_registrar" /\ ask.cookie = Nobody /\ ask.cap = o
        /\ Asks(ask) /\ tokens' = tokens
    BY <1>6, <2>1 DEF set_registrar, Ask, Request
  <2> QED
    BY <2>1, <2>2, CallKeeps DEF IInv, Typed
<1> QED
  BY <1>2, <1>3, <1>4, <1>5, <1>6

(***************************************************************************)
(* A client reads its answer.  What was on its way to it becomes a token,  *)
(* and the token of what it has freed is gone.                             *)
(***************************************************************************)
LEMMA ReturnKeeps ==
  ASSUME IInv, NEW c \in Clients, client[c].pc = "answered",
         NEW pc \in {"idle", "stopped"}, Ends(c, pc),
         UNCHANGED <<queue, serving, recv, send, sandboxVars, alive>>,
         DOMAIN tokens' = Clients, \A d \in Clients : d # c => tokens'[d] = tokens[d],
         DOMAIN tokens'[c] \subseteq Objects,
         \A o \in Objects : o \in DOMAIN tokens'[c] <=> Holds(c, o),
         \A o \in DOMAIN tokens'[c] : tokens'[c][o] = o,
         received' \in [Clients -> Caps],
         \A d \in Clients : received'[d] \in {Nobody, registered}
  PROVE  IInv' /\ Same
<1>1. /\ client' \in [Clients -> CallStates]
      /\ \A d \in Clients : d # c => client'[d] = client[d]
      /\ client'[c].pc = pc /\ client'[c].ask = NoAsk
      /\ client'[c].answer = Refused /\ client'[c].slot = Nobody
  BY Records DEF IInv, Typed, Ends, CallStates, Caps
<1>2. ~InService(c) /\ ~In(queue["sandbox"], c)
  BY DEF IInv, Queues
<1>3. Typed'
  BY <1>1 DEF IInv, Typed, sandboxVars
<1>4. Queues'
  <2>1. \A d : InService(d)' = InService(d)
    BY DEF InService, sb
  <2> QED
    BY <1>1, <1>2, <2>1 DEF IInv, Queues
<1>5. ClientsSound'
  BY <1>1, Records DEF IInv, ClientsSound, AskSound, AnswerSound, sandboxVars
<1>6. SandboxSound'
  BY <1>1, <1>2 DEF IInv, SandboxSound, InService, sb, sandboxVars
<1>7. RootSound' /\ SlotsSound' /\ RegistrarSound'
  BY DEF IInv, RootSound, SlotsSound, RegistrarSound, sb, rt, sandboxVars
<1>8. ASSUME NEW d \in Clients, NEW o \in Objects, d # c
      PROVE  /\ HasToken(d, o)' = HasToken(d, o) /\ Coming(d, o)' = Coming(d, o)
             /\ Freed(d, o)' = Freed(d, o)
  BY <1>1, <1>8 DEF HasToken, Freed, Coming, sb, rt
<1>9. ASSUME NEW o \in Objects
      PROVE  ~Freed(c, o)' /\ ~Coming(c, o)' /\ (HasToken(c, o)' <=> Holds(c, o))
  <2>1. ~Freed(c, o)'
    BY <1>1, Records DEF Freed
  <2>2. ~Coming(c, o)'
    BY <1>1, <1>2, Records DEF Coming, InService, sb, rt
  <2> QED
    BY <2>1, <2>2 DEF HasToken
<1>10. Same
  BY <1>8, <1>9 DEF Same, Holds, sandboxVars
<1>11. Ownership'
  <2>1. \A d \in Clients, o \in Objects : ~(HasToken(d, o)' /\ Coming(d, o)')
    BY <1>8, <1>9 DEF IInv, Ownership
  <2>2. \A d \in Clients, o \in Objects :
          (Freed(d, o)' /\ client'[d].pc = "calling") => (Freed(d, o) /\ client[d].pc = "calling")
    BY <1>1, <1>8, <1>9
  <2> QED
    BY <1>10, <2>1, <2>2, OwnershipKept DEF IInv, Typed
<1>12. CapsMatchCookies'
  BY <1>1, Records DEF IInv, CapsMatchCookies, sandboxVars
<1> QED
  BY <1>3, <1>4, <1>5, <1>6, <1>7, <1>10, <1>11, <1>12 DEF IInv

LEMMA ReturnKeep ==
  ASSUME IInv, NEW c \in Clients, Return(c)
  PROVE  IInv' /\ Same
<1> DEFINE ask == client[c].ask
           answer == client[c].answer
           good == Understood(ask, answer)
<1>1. /\ client[c].pc = "answered" /\ ask \in Request /\ answer \in Answer
      /\ UNCHANGED <<queue, serving, recv, send, sandboxVars, alive>>
  BY DEF Return, IInv, Typed, CallStates
<1>2. \A o \in Objects : Coming(c, o) <=> ask.label = "alloc" /\ answer.cookie = o
  BY <1>1 DEF Coming, IInv, Queues, InService
<1>3. \A o \in Objects : Freed(c, o) <=> ask.label = "free" /\ ask.cookie = o
  BY <1>1 DEF Freed
<1>4. /\ \A d \in Clients : received[d] \in {Nobody, registered}
      /\ \A o \in DOMAIN tokens[c] :
            tokens[c][o] = o \/ (ask.label = "free" /\ ask.cookie = o)
      /\ DOMAIN tokens = Clients /\ DOMAIN tokens[c] \subseteq Objects
      /\ received \in [Clients -> Caps] /\ registered \in Caps
  BY DEF IInv, CapsMatchCookies, Typed
<1>5. CASE ask.label = "alloc" /\ good
  <2>1. /\ answer.cookie \in alive /\ answer.cookie \in Objects /\ client[c].slot = answer.cookie
        /\ answer.cookie # Nobody
    BY <1>1, <1>5, NamesAssumption DEF IInv, Typed, ClientsSound, AnswerSound, Understood
  <2>2. /\ tokens' = [tokens EXCEPT ![c] =
                [o \in DOMAIN @ \cup {answer.cookie} |->
                     IF o = answer.cookie THEN client[c].slot ELSE @[o]]]
        /\ Ends(c, "idle") /\ received' = received
    BY <1>5, <2>1 DEF Return
  <2>3. /\ DOMAIN tokens' = Clients /\ \A d \in Clients : d # c => tokens'[d] = tokens[d]
        /\ DOMAIN tokens'[c] = DOMAIN tokens[c] \cup {answer.cookie}
        /\ \A o \in DOMAIN tokens'[c] :
              tokens'[c][o] = IF o = answer.cookie THEN client[c].slot ELSE tokens[c][o]
    BY <2>2, <1>4
  <2>4. \A o \in Objects : o \in DOMAIN tokens'[c] <=> Holds(c, o)
    BY <1>2, <1>3, <1>5, <2>3 DEF Holds, HasToken
  <2>5. \A o \in DOMAIN tokens'[c] : tokens'[c][o] = o
    BY <1>4, <1>5, <2>1, <2>3
  <2>6. /\ DOMAIN tokens'[c] \subseteq Objects /\ received' \in [Clients -> Caps]
        /\ \A d \in Clients : received'[d] \in {Nobody, registered}
    BY <1>4, <2>1, <2>2, <2>3
  <2> HIDE DEF ask, answer, good
  <2> QED
    BY <1>1, <2>2, <2>3, <2>4, <2>5, <2>6, ReturnKeeps
<1>6. CASE ask.label = "get_registrar"
  <2>1. client[c].slot \in {Nobody, registered}
    BY <1>1, <1>6 DEF IInv, ClientsSound, AnswerSound
  <2>2. /\ tokens' = tokens /\ received' = [received EXCEPT ![c] = client[c].slot]
        /\ Ends(c, IF good THEN "idle" ELSE "stopped")
    BY <1>6 DEF Return
  <2>3. /\ received' \in [Clients -> Caps]
        /\ \A d \in Clients : received'[d] \in {Nobody, registered}
    BY <1>4, <2>1, <2>2 DEF Caps
  <2>4. \A o \in Objects : o \in DOMAIN tokens'[c] <=> Holds(c, o)
    BY <1>2, <1>3, <1>6, <2>2 DEF Holds, HasToken
  <2> QED
    BY <1>1, <1>4, <1>6, <2>2, <2>3, <2>4, ReturnKeeps
<1>7. CASE ask.label = "free"
  <2>1. good
    BY <1>1, <1>7 DEF IInv, ClientsSound, AnswerSound, Understood
  <2>2. /\ tokens' = [tokens EXCEPT ![c] = [o \in DOMAIN @ \ {ask.cookie} |-> @[o]]]
        /\ Ends(c, "idle") /\ received' = received
    BY <1>7, <2>1 DEF Return
  <2>3. /\ DOMAIN tokens' = Clients /\ \A d \in Clients : d # c => tokens'[d] = tokens[d]
        /\ DOMAIN tokens'[c] = DOMAIN tokens[c] \ {ask.cookie}
        /\ \A o \in DOMAIN tokens'[c] : tokens'[c][o] = tokens[c][o]
    BY <2>2, <1>4
  <2>4. \A o \in Objects : o \in DOMAIN tokens'[c] <=> Holds(c, o)
    BY <1>2, <1>3, <1>7, <2>3 DEF Holds, HasToken
  <2> QED
    BY <1>1, <1>4, <2>2, <2>3, <2>4, ReturnKeeps
<1>8. CASE ask.label \in {"ping", "set_registrar"} \/ (ask.label = "alloc" /\ ~good)
  <2>1. ask.label = "alloc" => answer.cookie = Nobody
    BY <1>1, <1>8 DEF IInv, ClientsSound, AnswerSound, Understood, Answer
  <2>2. /\ tokens' = tokens /\ received' = received
        /\ Ends(c, "idle")
    BY <1>8 DEF Return
  <2>3. \A o \in Objects : o \in DOMAIN tokens'[c] <=> Holds(c, o)
    BY <1>2, <1>3, <1>8, <2>1, <2>2, NamesAssumption DEF Holds, HasToken
  <2> QED
    BY <1>1, <1>4, <1>8, <2>2, <2>3, ReturnKeeps
<1> QED
  BY <1>1, <1>5, <1>6, <1>7, <1>8 DEF Request

(***************************************************************************)
(* The steps of the sandbox leave the clients' states alone, but for its   *)
(* answers; so what they keep is told by the two servers' states.          *)
(***************************************************************************)
LEMMA RecvSandboxKeeps ==
  ASSUME IInv, Recv("sandbox")
  PROVE  IInv' /\ Same
<1> DEFINE q == queue["sandbox"]
           from == Head(q)
           ask == client[from].ask
<1>1. /\ sb.pc = "recv" /\ q # <<>> /\ q \in Seq(Clients) /\ from \in Clients
      /\ recv["sandbox"] = Nobody /\ "sandbox" \in Servers /\ "root" \in Servers
  BY HeadTailProperties DEF Recv, IInv, Typed, SandboxSound, sb, Servers
<1>2. In(q, from) /\ Once(Tail(q)) /\ \A d : In(Tail(q), d) <=> d # from /\ In(q, d)
  BY <1>1, OnceTail DEF IInv, Queues
<1>3. client[from].pc = "calling" /\ ask \in Request /\ ask.cap \in Caps
  BY <1>1, <1>2, Records DEF IInv, Queues, Typed, CallStates
<1>4. /\ serving' = [serving EXCEPT !["sandbox"] =
                [pc |-> "handle", from |-> from, ask |-> ask,
                 caps |-> IF ask.cap = Nobody THEN 0 ELSE 1,
                 answer |-> Refused, gives |-> FALSE]]
      /\ recv' = [recv EXCEPT !["sandbox"] = ask.cap]
      /\ queue' = [queue EXCEPT !["sandbox"] = Tail(q)]
      /\ UNCHANGED <<clientVars, send, sandboxVars, alive>>
  BY <1>1, NamesAssumption DEF Recv, AskOf, IInv, Typed
<1> HIDE DEF q, from, ask
<1>5. /\ sb'.pc = "handle" /\ sb'.from = from /\ sb'.ask = ask /\ sb'.answer = Refused
      /\ sb'.caps = (IF ask.cap = Nobody THEN 0 ELSE 1)
      /\ rt' = rt /\ recv'["sandbox"] = ask.cap /\ recv'["root"] = recv["root"]
      /\ queue'["sandbox"] = Tail(q) /\ queue'["root"] = queue["root"]
      /\ client' = client /\ tokens' = tokens /\ received' = received /\ send' = send
      /\ alive' = alive /\ UNCHANGED sandboxVars
  BY <1>1, <1>4 DEF IInv, Typed, sb, rt, Servers, clientVars
<1>6. Typed'
  <2>1. serving' \in [Servers -> ServeStates]
    BY <1>1, <1>3, <1>4, Records DEF IInv, Typed, ServeStates
  <2>2. recv' \in [Servers -> Caps] /\ DOMAIN queue' = Servers
    BY <1>3, <1>4 DEF IInv, Typed
  <2>3. Tail(q) \in Seq(Clients)
    BY <1>1
  <2> QED
    BY <1>5, <2>1, <2>2, <2>3 DEF IInv, Typed, sandboxVars
<1>7. ask = client[from].ask
  BY DEF ask
<1>8. Queues'
  <2>1. \A d : ~InService(d) /\ (InService(d)' <=> d = from)
    BY <1>1, <1>5 DEF InService
  <2> QED
    BY <1>2, <1>3, <1>5, <2>1 DEF IInv, Queues, q
<1>9. ClientsSound'
  BY <1>5 DEF IInv, ClientsSound, AskSound, AnswerSound, sandboxVars
<1>10. SandboxSound'
  BY <1>1, <1>5, <1>7 DEF IInv, SandboxSound, sandboxVars
<1>11. RootSound' /\ SlotsSound' /\ RegistrarSound'
  BY <1>1, <1>5 DEF IInv, RootSound, SlotsSound, RegistrarSound, sandboxVars
<1>12. \A d \in Clients, o \in Objects :
          /\ Freed(d, o)' <=> Freed(d, o)
          /\ Coming(d, o)' <=> Coming(d, o)
  BY <1>1, <1>3, <1>5 DEF Freed, Coming
<1>13. \A d \in Clients, o \in Objects : HasToken(d, o)' <=> HasToken(d, o)
  BY <1>5, <1>12 DEF HasToken
<1>14. Same
  BY <1>5, <1>12, <1>13 DEF Same, Holds, sandboxVars
<1>15. Ownership'
  BY <1>5, <1>12, <1>13, <1>14, OwnershipKept DEF IInv, Typed, Ownership
<1>16. CapsMatchCookies'
  BY <1>5 DEF IInv, CapsMatchCookies, sandboxVars
<1> QED
  BY <1>6, <1>8, <1>9, <1>10, <1>11, <1>14, <1>15, <1>16 DEF IInv

LEMMA RecvRootKeeps ==
  ASSUME IInv, Recv("root")
  PROVE  IInv' /\ Same
<1>1. /\ rt.pc = "recv" /\ sb.pc = "calling" /\ queue["root"] = <<"sandbox">>
      /\ recv["root"] = Nobody /\ send["root"] = Nobody
      /\ "sandbox" \in Servers /\ "root" \in Servers
  BY DEF Recv, IInv, RootSound, rt, Servers
<1>2. Head(queue["root"]) = "sandbox" /\ Tail(queue["root"]) = <<>>
  BY <1>1
<1>3. /\ serving' = [serving EXCEPT !["root"] =
                [pc |-> "handle", from |-> "sandbox", ask |-> sb.ask, caps |-> 0,
                 answer |-> Refused, gives |-> FALSE]]
      /\ recv' = recv
      /\ queue' = [queue EXCEPT !["root"] = <<>>]
      /\ UNCHANGED <<clientVars, send, sandboxVars, alive>>
  BY <1>1, <1>2 DEF Recv, AskOf, sb
<1>4. /\ rt'.pc = "handle" /\ rt'.from = "sandbox" /\ rt'.ask = sb.ask /\ rt'.caps = 0
      /\ sb' = sb /\ recv' = recv
      /\ queue'["sandbox"] = queue["sandbox"] /\ queue'["root"] = <<>>
      /\ client' = client /\ tokens' = tokens /\ received' = received /\ send' = send
      /\ alive' = alive /\ UNCHANGED sandboxVars
  BY <1>1, <1>3 DEF IInv, Typed, sb, rt, Servers, clientVars
<1>5. Typed'
  <2>1. sb.ask \in Request
    BY <1>1 DEF IInv, Typed, ServeStates, sb
  <2>2. serving' \in [Servers -> ServeStates]
    BY <1>1, <1>3, <2>1, Records DEF IInv, Typed, ServeStates
  <2>3. DOMAIN queue' = Servers
    BY <1>3 DEF IInv, Typed
  <2> QED
    BY <1>4, <2>2, <2>3 DEF IInv, Typed, sandboxVars
<1>6. Queues' /\ ClientsSound'
  BY <1>4 DEF IInv, Queues, InService, ClientsSound, AskSound, AnswerSound, sandboxVars
<1>7. SandboxSound' /\ SlotsSound' /\ RegistrarSound'
  BY <1>4 DEF IInv, SandboxSound, SlotsSound, RegistrarSound, sandboxVars
<1>8. RootSound'
  BY <1>1, <1>4 DEF IInv, RootSound
<1>9. \A d \in Clients, o \in Objects :
          /\ Freed(d, o)' <=> Freed(d, o)
          /\ Coming(d, o)' <=> Coming(d, o)
  BY <1>1, <1>4 DEF Freed, Coming
<1>10. \A d \in Clients, o \in Objects : HasToken(d, o)' <=> HasToken(d, o)
  BY <1>4, <1>9 DEF HasToken
<1>11. Same
  BY <1>4, <1>9, <1>10 DEF Same, Holds, sandboxVars
<1>12. Ownership'
  BY <1>4, <1>9, <1>10, <1>11, OwnershipKept DEF IInv, Typed, Ownership
<1>13. CapsMatchCookies'
  BY <1>4 DEF IInv, CapsMatchCookies, sandboxVars
<1> QED
  BY <1>5, <1>6, <1>7, <1>8, <1>11, <1>12, <1>13 DEF IInv

(***************************************************************************)
(* The root server's answer wakes the sandbox; an object made comes with   *)
(* it into the slot the sandbox sends from.                                *)
(***************************************************************************)
LEMMA ReplyRootKeeps ==
  ASSUME IInv, Reply("root")
  PROVE  IInv' /\ Same
<1> DEFINE moves == rt.gives /\ send["root"] # Nobody
           answer == [rt.answer EXCEPT !.caps = IF moves THEN 1 ELSE 0]
<1>1. /\ rt.pc = "reply" /\ sb.pc = "calling" /\ rt.from = "sandbox" /\ rt.ask = sb.ask
      /\ queue["root"] = <<>> /\ send["sandbox"] = Nobody
      /\ "sandbox" \in Servers /\ "root" \in Servers
  BY DEF Reply, IInv, RootSound, SandboxSound, rt, Servers
<1>2. rt.answer \in Answer /\ sb.ask \in Request /\ send["root"] \in Caps
  BY <1>1 DEF IInv, Typed, ServeStates, sb, rt
<1>3. /\ answer \in Answer /\ answer.ok = rt.answer.ok /\ answer.cookie = rt.answer.cookie
      /\ answer.caps = IF moves THEN 1 ELSE 0
  BY <1>2 DEF Answer
<1>4. /\ serving' = [serving EXCEPT !["root"].pc = "turn",
                        !["sandbox"].pc = "returned", !["sandbox"].answer = answer]
      /\ send' = IF moves /\ path = "send"
                 THEN [send EXCEPT !["sandbox"] = send["root"]] ELSE send
      /\ UNCHANGED <<client, tokens, received, cslots, queue, recv, sandboxVars, alive>>
  BY <1>1 DEF Reply, rt
<1> HIDE DEF answer
<1>5. /\ sb'.pc = "returned" /\ sb'.from = sb.from /\ sb'.ask = sb.ask /\ sb'.answer = answer
      /\ rt'.pc = "turn"
      /\ send'["sandbox"] = IF moves /\ path = "send" THEN send["root"] ELSE Nobody
      /\ serving' \in [Servers -> ServeStates] /\ send' \in [Servers -> Caps]
  <2>1. /\ sb \in ServeStates /\ rt \in ServeStates /\ serving \in [Servers -> ServeStates]
        /\ send \in [Servers -> Caps]
    BY <1>1 DEF IInv, Typed, sb, rt
  <2>2. serving' = [serving EXCEPT !["root"] = [rt EXCEPT !.pc = "turn"],
                        !["sandbox"] = [sb EXCEPT !.pc = "returned", !.answer = answer]]
    BY <1>1, <1>4, <2>1 DEF Servers, sb, rt
  <2>3. sb' = [sb EXCEPT !.pc = "returned", !.answer = answer] /\ rt' = [rt EXCEPT !.pc = "turn"]
    BY <1>1, <2>1, <2>2 DEF sb, rt
  <2>4. sb' \in ServeStates /\ rt' \in ServeStates
    BY <1>3, <2>1, <2>3 DEF ServeStates
  <2> QED
    BY <1>1, <1>2, <1>4, <2>1, <2>2, <2>3, <2>4 DEF ServeStates, sb, rt
<1>6. Typed'
  BY <1>4, <1>5 DEF IInv, Typed, sandboxVars
<1>7. Queues'
  BY <1>1, <1>4, <1>5 DEF IInv, Queues, InService
<1>8. ClientsSound' /\ RegistrarSound'
  BY <1>1, <1>4, <1>5 DEF IInv, ClientsSound, AskSound, AnswerSound, RegistrarSound, sandboxVars
<1>9. SandboxSound'
  <2>1. rt.ask.label = "alloc" /\ answer.ok =>
           /\ answer.cookie \in alive /\ answer.caps = 1 /\ moves /\ path = "send"
           /\ send["root"] = answer.cookie
    BY <1>1, <1>3, NamesAssumption DEF IInv, RootSound, SandboxSound, Typed
  <2>2. (rt.ask.label = "free") => answer.ok /\ answer.caps = 0
    BY <1>1, <1>3 DEF IInv, RootSound
  <2>3. rt.ask.label = "alloc" /\ ~answer.ok => answer.cookie = Nobody
    BY <1>1, <1>3 DEF IInv, RootSound
  <2> QED
    BY <1>1, <1>4, <1>5, <2>1, <2>2, <2>3 DEF IInv, SandboxSound, sandboxVars
<1>10. RootSound' /\ SlotsSound'
  BY <1>1, <1>4, <1>5 DEF IInv, RootSound, SlotsSound, sandboxVars
<1>11. \A d \in Clients, o \in Objects :
          /\ Freed(d, o)' <=> Freed(d, o)
          /\ Coming(d, o)' <=> Coming(d, o)
  BY <1>1, <1>3, <1>4, <1>5 DEF Freed, Coming
<1>12. \A d \in Clients, o \in Objects : HasToken(d, o)' <=> HasToken(d, o)
  BY <1>4, <1>11 DEF HasToken
<1>13. Same
  BY <1>4, <1>11, <1>12 DEF Same, Holds, sandboxVars
<1>14. Ownership'
  BY <1>4, <1>11, <1>12, <1>13, OwnershipKept DEF IInv, Typed, Ownership
<1>15. CapsMatchCookies'
  BY <1>4 DEF IInv, CapsMatchCookies, sandboxVars
<1> QED
  BY <1>6, <1>7, <1>8, <1>9, <1>10, <1>13, <1>14, <1>15 DEF IInv

LEMMA ReplySandboxKeeps ==
  ASSUME IInv, Reply("sandbox")
  PROVE  IInv' /\ Same
<1> PICK from : from = sb.from
  OBVIOUS
<1> DEFINE moves == sb.gives /\ send["sandbox"] # Nobody
           answer == [sb.answer EXCEPT !.caps = IF moves THEN 1 ELSE 0]
<1>1. /\ sb.pc = "reply" /\ from \in Clients /\ from # "sandbox" /\ sb.ask = client[from].ask
      /\ InService(from) /\ client[from].pc = "calling" /\ client[from].slot = Nobody
      /\ "sandbox" \in Servers /\ "root" \in Servers
  BY NamesAssumption
     DEF Reply, IInv, SandboxSound, Queues, ClientsSound, AnswerSound, InService, sb, Servers
<1>2. sb.answer \in Answer /\ send["sandbox"] \in Caps /\ sb \in ServeStates
  BY <1>1 DEF IInv, Typed, ServeStates, sb
<1>3. /\ answer \in Answer /\ answer.ok = sb.answer.ok /\ answer.cookie = sb.answer.cookie
      /\ answer.caps = IF moves THEN 1 ELSE 0
  BY <1>2 DEF Answer
<1>4. /\ serving' = [serving EXCEPT !["sandbox"].pc = "turn"]
      /\ client' = [client EXCEPT ![from].pc = "answered", ![from].answer = answer,
                        ![from].slot = IF moves THEN send["sandbox"] ELSE @]
      /\ UNCHANGED <<tokens, received, cslots, queue, recv, send, sandboxVars, alive>>
  BY <1>1 DEF Reply, sb
<1> HIDE DEF answer
<1>5. /\ sb'.pc = "turn" /\ sb'.from = from /\ sb'.ask = sb.ask /\ rt' = rt
      /\ serving' \in [Servers -> ServeStates]
  <2>1. serving \in [Servers -> ServeStates]
    BY DEF IInv, Typed
  <2>2. serving' = [serving EXCEPT !["sandbox"] = [sb EXCEPT !.pc = "turn"]]
    BY <1>4 DEF sb
  <2>3. [sb EXCEPT !.pc = "turn"] \in ServeStates
    BY <1>2 DEF ServeStates
  <2> QED
    BY <1>1, <1>2, <2>1, <2>2, <2>3 DEF ServeStates, sb, rt, Servers
<1>6. /\ client' \in [Clients -> CallStates]
      /\ \A d \in Clients : d # from => client'[d] = client[d]
      /\ client'[from].pc = "answered" /\ client'[from].ask = client[from].ask
      /\ client'[from].answer = answer
      /\ client'[from].slot = IF moves THEN send["sandbox"] ELSE Nobody
  BY <1>1, <1>2, <1>3, <1>4 DEF IInv, Typed, CallStates
<1>7. Typed'
  BY <1>4, <1>5, <1>6 DEF IInv, Typed, sandboxVars
<1>8. Queues'
  <2>1. \A d : InService(d) => d = from
    BY <1>1 DEF InService
  <2>2. \A d : ~InService(d)'
    BY <1>5 DEF InService
  <2>3. ~In(queue["sandbox"], from)
    BY <1>1 DEF IInv, Queues
  <2> QED
    BY <1>4, <1>6, <2>1, <2>2, <2>3 DEF IInv, Queues
<1>9. ClientsSound'
  <2>1. sb.ask.label = "alloc" /\ answer.ok =>
           answer.cookie \in alive /\ answer.caps = 1 /\ moves /\ send["sandbox"] = answer.cookie
    BY <1>1, <1>3, NamesAssumption DEF IInv, SandboxSound, Typed, WithCapability
  <2>2. sb.ask.label = "alloc" /\ ~answer.ok => answer.cookie = Nobody
    BY <1>1, <1>3 DEF IInv, SandboxSound
  <2>3. sb.ask.label = "free" => answer.ok /\ answer.caps = 0
    BY <1>1, <1>3 DEF IInv, SandboxSound, WithCapability
  <2>4. sb.ask.label = "get_registrar" => send["sandbox"] \in {Nobody, registered}
    BY <1>1 DEF IInv, SandboxSound
  <2>5. (AskSound(from) /\ AnswerSound(from))'
    BY <1>1, <1>4, <1>6, <2>1, <2>2, <2>3, <2>4
       DEF IInv, ClientsSound, AskSound, AnswerSound, sandboxVars
  <2>6. \A d \in Clients : d # from => (AskSound(d) /\ AnswerSound(d))'
    BY <1>4, <1>6 DEF IInv, ClientsSound, AskSound, AnswerSound, sandboxVars
  <2> QED
    BY <2>5, <2>6 DEF ClientsSound, AskSound, AnswerSound
<1>10. SandboxSound'
  BY <1>5 DEF SandboxSound
<1>11. RootSound' /\ SlotsSound' /\ RegistrarSound'
  BY <1>1, <1>4, <1>5 DEF IInv, RootSound, SlotsSound, RegistrarSound, sandboxVars
<1>12. \A d \in Clients, o \in Objects :
          /\ Freed(d, o)' <=> Freed(d, o)
          /\ Coming(d, o)' <=> Coming(d, o)
  <2>1. ASSUME NEW d \in Clients, NEW o \in Objects, d # from
        PROVE  (Freed(d, o)' <=> Freed(d, o)) /\ (Coming(d, o)' <=> Coming(d, o))
    BY <1>5, <1>6, <2>1 DEF Freed, Coming
  <2>2. ASSUME NEW o \in Objects
        PROVE  (Freed(from, o)' <=> Freed(from, o)) /\ (Coming(from, o)' <=> Coming(from, o))
    BY <1>1, <1>3, <1>5, <1>6 DEF Freed, Coming
  <2> QED
    BY <2>1, <2>2
<1>13. \A d \in Clients, o \in Objects : HasToken(d, o)' <=> HasToken(d, o)
  BY <1>4, <1>12 DEF HasToken
<1>14. Same
  BY <1>4, <1>12, <1>13 DEF Same, Holds, sandboxVars
<1>15. Ownership'
  BY <1>4, <1>6, <1>12, <1>13, <1>14, OwnershipKept DEF IInv, Typed, Ownership
<1>16. CapsMatchCookies'
  <2>1. \A d \in Clients : client'[d].ask = client[d].ask
    BY <1>6
  <2>2. tokens' = tokens /\ received' = received /\ registered' = registered
    BY <1>4 DEF sandboxVars
  <2> QED
    BY <2>1, <2>2 DEF IInv, CapsMatchCookies
<1> QED
  BY <1>7, <1>8, <1>9, <1>10, <1>11, <1>14, <1>15, <1>16 DEF IInv

(***************************************************************************)
(* The end of a turn.                                                      *)
(***************************************************************************)
Waiting == [pc |-> "recv", from |-> Nobody, ask |-> NoAsk, caps |-> 0,
            answer |-> Refused, gives |-> FALSE]

LEMMA TurnRootKeeps ==
  ASSUME IInv, Turn("root")
  PROVE  IInv' /\ Same
<1>1. /\ rt.pc = "turn" /\ "root" \in Servers /\ "sandbox" \in Servers
      /\ serving' = [serving EXCEPT !["root"] = Waiting]
      /\ send' = [send EXCEPT !["root"] = Nobody]
      /\ recv' = [recv EXCEPT !["root"] = Nobody]
      /\ UNCHANGED <<clientVars, queue, sandboxVars, alive>>
  BY DEF Turn, Waiting, rt, Servers, sandboxVars
<1>2. /\ Waiting \in ServeStates /\ Waiting.pc = "recv" /\ Nobody \in Caps
  BY Records DEF Waiting, ServeStates, Caps
<1>3. /\ serving' \in [Servers -> ServeStates] /\ rt' = Waiting /\ sb' = sb
      /\ recv' \in [Servers -> Caps] /\ send' \in [Servers -> Caps]
      /\ recv'["root"] = Nobody /\ recv'["sandbox"] = recv["sandbox"]
      /\ send'["root"] = Nobody /\ send'["sandbox"] = send["sandbox"]
      /\ client' = client /\ tokens' = tokens /\ received' = received
  BY <1>1, <1>2 DEF IInv, Typed, Servers, sb, rt, clientVars
<1>4. Typed'
  BY <1>1, <1>3 DEF IInv, Typed, sandboxVars
<1>5. Queues' /\ ClientsSound'
  BY <1>1, <1>3 DEF IInv, Queues, InService, ClientsSound, AskSound, AnswerSound, sandboxVars
<1>6. SandboxSound' /\ SlotsSound' /\ RegistrarSound'
  BY <1>1, <1>3 DEF IInv, SandboxSound, SlotsSound, RegistrarSound, sandboxVars
<1>7. RootSound'
  BY <1>1, <1>2, <1>3 DEF IInv, RootSound
<1>8. \A d \in Clients, o \in Objects :
          /\ Freed(d, o)' <=> Freed(d, o)
          /\ Coming(d, o)' <=> Coming(d, o)
  BY <1>1, <1>2, <1>3 DEF Freed, Coming
<1>9. \A d \in Clients, o \in Objects : HasToken(d, o)' <=> HasToken(d, o)
  BY <1>3, <1>8 DEF HasToken
<1>10. Same
  BY <1>1, <1>8, <1>9 DEF Same, Holds, sandboxVars
<1>11. Ownership'
  BY <1>1, <1>3, <1>8, <1>9, <1>10, OwnershipKept DEF IInv, Typed, Ownership
<1>12. CapsMatchCookies'
  BY <1>1, <1>3 DEF IInv, CapsMatchCookies, sandboxVars
<1> QED
  BY <1>4, <1>5, <1>6, <1>7, <1>10, <1>11, <1>12 DEF IInv

LEMMA TurnSandboxKeeps ==
  ASSUME IInv, Turn("sandbox")
  PROVE  IInv' /\ Same
<1>1. /\ sb.pc = "turn" /\ "root" \in Servers /\ "sandbox" \in Servers
      /\ serving' = [serving EXCEPT !["sandbox"] = Waiting]
      /\ send' = [send EXCEPT !["sandbox"] = Nobody]
      /\ recv' = [recv EXCEPT !["sandbox"] = Nobody]
      /\ path' = "recv" /\ loop' = IF hasReg THEN "registered" ELSE loop
      /\ UNCHANGED <<clientVars, queue, slots, registrar, hasReg, registered, alive>>
  BY DEF Turn, Waiting, sb, Servers
<1>2. /\ Waiting \in ServeStates /\ Waiting.pc = "recv" /\ Waiting.from = Nobody
      /\ Waiting.answer = Refused /\ Nobody \in Caps
  BY Records DEF Waiting, ServeStates, Caps
<1>3. /\ serving' \in [Servers -> ServeStates] /\ sb' = Waiting /\ rt' = rt
      /\ recv' \in [Servers -> Caps] /\ send' \in [Servers -> Caps]
      /\ recv'["sandbox"] = Nobody /\ recv'["root"] = recv["root"]
      /\ send'["sandbox"] = Nobody /\ send'["root"] = send["root"]
      /\ client' = client /\ tokens' = tokens /\ received' = received
  BY <1>1, <1>2 DEF IInv, Typed, Servers, sb, rt, clientVars
<1>4. Typed'
  BY <1>1, <1>3 DEF IInv, Typed
<1>5. Queues'
  <2>1. \A d : ~InService(d)' /\ ~InService(d)
    BY <1>1, <1>2, <1>3 DEF InService
  <2> QED
    BY <1>1, <1>3, <2>1 DEF IInv, Queues
<1>6. ClientsSound'
  BY <1>1, <1>3 DEF IInv, ClientsSound, AskSound, AnswerSound
<1>7. SandboxSound'
  BY <1>1, <1>2, <1>3 DEF SandboxSound
<1>8. SlotsSound' /\ RegistrarSound'
  BY <1>1, <1>2, <1>3 DEF IInv, SlotsSound, RegistrarSound
<1>9. RootSound'
  BY <1>1, <1>2, <1>3 DEF IInv, RootSound
<1>10. \A d \in Clients, o \in Objects :
          /\ Freed(d, o)' <=> Freed(d, o)
          /\ Coming(d, o)' <=> Coming(d, o)
  BY <1>1, <1>2, <1>3 DEF Freed, Coming
<1>11. \A d \in Clients, o \in Objects : HasToken(d, o)' <=> HasToken(d, o)
  BY <1>3, <1>10 DEF HasToken
<1>12. Same
  BY <1>1, <1>10, <1>11 DEF Same, Holds
<1>13. Ownership'
  BY <1>1, <1>3, <1>10, <1>11, <1>12, OwnershipKept DEF IInv, Typed, Ownership
<1>14. CapsMatchCookies'
  BY <1>1, <1>3 DEF IInv, CapsMatchCookies
<1> QED
  BY <1>4, <1>5, <1>6, <1>7, <1>8, <1>9, <1>12, <1>13, <1>14 DEF IInv

(***************************************************************************)
(* The handlers of the sandbox end in an answer or in a call of its own.   *)
(***************************************************************************)
LEMMA AnswersEffect ==
  ASSUME serving \in [Servers -> ServeStates], NEW s \in Servers, NEW a \in Answer,
         Answers(s, a)
  PROVE  /\ serving' \in [Servers -> ServeStates]
         /\ serving'[s].pc = "reply" /\ serving'[s].answer = a
         /\ serving'[s].gives = (a.ok /\ serving[s].ask.label \in WithCapability)
         /\ serving'[s].from = serving[s].from /\ serving'[s].ask = serving[s].ask
         /\ \A t \in Servers : t # s => serving'[t] = serving[t]
<1> DEFINE new == [serving[s] EXCEPT !.pc = "reply", !.answer = a,
                      !.gives = a.ok /\ serving[s].ask.label \in WithCapability]
<1>1. serving' = [serving EXCEPT ![s] = new]
  BY DEF Answers
<1>2. serving[s] \in ServeStates
  OBVIOUS
<1>3. a.ok \in BOOLEAN
  BY Records
<1>4. /\ new \in ServeStates /\ new.pc = "reply" /\ new.answer = a
      /\ new.gives = (a.ok /\ serving[s].ask.label \in WithCapability)
      /\ new.from = serving[s].from /\ new.ask = serving[s].ask
  BY <1>2, <1>3 DEF ServeStates
<1> HIDE DEF new
<1> QED
  BY <1>1, <1>4

LEMMA SandboxAnswersKeep ==
  ASSUME IInv, sb.pc \in {"handle", "returned"}, NEW a \in Answer, Answers("sandbox", a),
         UNCHANGED <<clientVars, queue, recv, path, loop, alive>>,
         send' \in [Servers -> Caps], send'["root"] = send["root"],
         registrar' \in Caps, registered' \in Caps, hasReg' \in BOOLEAN,
         registered \in {Nobody, registered'},
         SlotsSound', RegistrarSound',
         sb.ask.label = "free" => sb.pc = "returned" /\ a.ok,
         (sb.ask.label = "alloc" /\ a.ok) =>
            /\ sb.pc = "returned" /\ sb.answer.ok /\ a.cookie = sb.answer.cookie
            /\ send'["sandbox"] = send["sandbox"],
         (sb.ask.label = "alloc" /\ ~a.ok) =>
            a.cookie = Nobody /\ (sb.pc = "returned" => ~sb.answer.ok),
         sb.ask.label = "get_registrar" => send'["sandbox"] \in {Nobody, registered'}
  PROVE  IInv' /\ \A c \in Clients, o \in Objects : Holds(c, o)' <=> Holds(c, o)
<1>1. /\ sb'.pc = "reply" /\ sb'.answer = a /\ sb'.from = sb.from /\ sb'.ask = sb.ask
      /\ sb'.gives = (a.ok /\ sb.ask.label \in WithCapability)
      /\ rt' = rt /\ serving' \in [Servers -> ServeStates]
      /\ client' = client /\ tokens' = tokens /\ received' = received
  BY AnswersEffect DEF IInv, Typed, Servers, sb, rt, clientVars
<1>2. /\ sb.from \in Clients /\ sb.ask = client[sb.from].ask
      /\ rt.pc \in {"recv", "turn"} /\ queue["root"] = <<>>
  BY DEF IInv, SandboxSound, RootSound
<1>3. Typed'
  BY <1>1 DEF IInv, Typed
<1>4. Queues'
  <2>1. \A d : InService(d)' <=> InService(d)
    BY <1>1 DEF InService
  <2> QED
    BY <1>1, <2>1 DEF IInv, Queues
<1>5. ClientsSound'
  BY <1>1 DEF IInv, ClientsSound, AskSound, AnswerSound
<1>6. SandboxSound'
  BY <1>1, <1>2 DEF IInv, SandboxSound
<1>7. RootSound'
  BY <1>1, <1>2 DEF IInv, RootSound
<1>8. \A d \in Clients, o \in Objects : Freed(d, o)' <=> Freed(d, o)
  BY <1>1, <1>2 DEF Freed
<1>9. \A d \in Clients, o \in Objects : Coming(d, o)' <=> Coming(d, o)
  BY <1>1, <1>2, NamesAssumption DEF IInv, SandboxSound, Coming
<1>10. \A d \in Clients, o \in Objects : HasToken(d, o)' <=> HasToken(d, o)
  BY <1>1, <1>8 DEF HasToken
<1>11. \A d \in Clients, o \in Objects : Holds(d, o)' <=> Holds(d, o)
  BY <1>9, <1>10 DEF Holds
<1>12. Ownership'
  BY <1>1, <1>8, <1>9, <1>10, <1>11 DEF IInv, Typed, Ownership
<1>13. CapsMatchCookies'
  BY <1>1 DEF IInv, CapsMatchCookies
<1> QED
  BY <1>3, <1>4, <1>5, <1>6, <1>7, <1>11, <1>12, <1>13 DEF IInv

\* A request that is handled has come with as many capabilities as it needs.
LEMMA HandledRight ==
  ASSUME IInv, sb.pc = "handle"
  PROVE  /\ sb.from \in Clients /\ sb.ask = client[sb.from].ask /\ sb.ask \in Request
         /\ sb.answer = Refused /\ send["sandbox"] = Nobody /\ path = "recv"
         /\ sb.ask.label # "set_registrar" => sb.caps = 0
         /\ rt.pc \in {"recv", "turn"} /\ queue["root"] = <<>>
         /\ slots = SandboxSlots - 2 - (IF hasReg THEN 1 ELSE 0) /\ slots > 0
         /\ sb.caps = 1 => recv["sandbox"] = sb.ask.cap /\ recv["sandbox"] # Nobody
<1>1. /\ sb.from \in Clients /\ sb.ask = client[sb.from].ask /\ sb.answer = Refused
      /\ send["sandbox"] = Nobody /\ path = "recv" /\ recv["sandbox"] = sb.ask.cap
      /\ sb.caps = IF sb.ask.cap = Nobody THEN 0 ELSE 1
      /\ rt.pc \in {"recv", "turn"} /\ queue["root"] = <<>>
  BY DEF IInv, SandboxSound, RootSound
<1>2. sb.ask \in Request
  BY <1>1 DEF IInv, Typed, CallStates
<1>3. slots = SandboxSlots - 2 - (IF hasReg THEN 1 ELSE 0) /\ slots > 0
  BY SlotsAssumption DEF IInv, SlotsSound
<1>4. sb.ask.label # "set_registrar" => sb.ask.cap = Nobody
  BY <1>1 DEF IInv, ClientsSound, AskSound
<1> QED
  BY <1>1, <1>2, <1>3, <1>4

LEMMA SandboxRejectsKeeps ==
  ASSUME IInv, SandboxRejects
  PROVE  IInv' /\ Same
<1>1. /\ sb.pc = "handle" /\ Answers("sandbox", Refused)
      /\ UNCHANGED <<clientVars, queue, recv, send, sandboxVars, alive>>
      /\ sb.ask.label # "free"
  BY HandledRight DEF SandboxRejects, Rejects, LoopHandlers, sb
<1>2. SlotsSound' /\ RegistrarSound'
  <2>1. sb'.pc = "reply"
    BY <1>1, AnswersEffect, Records DEF IInv, Typed, Servers, sb
  <2> QED
    BY <1>1, <2>1 DEF IInv, SlotsSound, RegistrarSound, sandboxVars
<1>3. send["sandbox"] = Nobody
  BY <1>1, HandledRight
<1>4. IInv' /\ \A c \in Clients, o \in Objects : Holds(c, o)' <=> Holds(c, o)
  BY <1>1, <1>2, <1>3, SandboxAnswersKeep, Records DEF IInv, Typed, sandboxVars
<1> QED
  BY <1>1, <1>4 DEF Same, sandboxVars

LEMMA SandboxPingKeeps ==
  ASSUME IInv, SandboxPing
  PROVE  IInv' /\ Same
<1>1. /\ sb.pc = "handle" /\ Answers("sandbox", Granted(Nobody)) /\ sb.ask.label = "ping"
      /\ UNCHANGED <<clientVars, queue, recv, send, sandboxVars, alive>>
  BY DEF SandboxPing, Handles, sb
<1>2. Granted(Nobody) \in Answer
  BY DEF Granted, Answer
<1>3. SlotsSound' /\ RegistrarSound'
  <2>1. sb'.pc = "reply"
    BY <1>1, <1>2, AnswersEffect DEF IInv, Typed, Servers, sb
  <2> QED
    BY <1>1, <2>1 DEF IInv, SlotsSound, RegistrarSound, sandboxVars
<1>4. IInv' /\ \A c \in Clients, o \in Objects : Holds(c, o)' <=> Holds(c, o)
  BY <1>1, <1>2, <1>3, SandboxAnswersKeep DEF IInv, Typed, sandboxVars
<1> QED
  BY <1>1, <1>4 DEF Same, sandboxVars

\* The spare slot goes back, and the answer of the root server is passed on.
LEMMA SandboxReturnsKeeps ==
  ASSUME IInv, SandboxReturns
  PROVE  IInv' /\ Same
<1> DEFINE a == IF Understood(sb.ask, sb.answer) THEN Granted(sb.answer.cookie) ELSE Refused
<1>1. /\ sb.pc = "returned" /\ Answers("sandbox", a)
      /\ slots' = IF sb.ask.label = "free" THEN slots + 1 ELSE slots
      /\ UNCHANGED <<clientVars, queue, recv, send, path, loop, registrar, hasReg,
                     registered, alive>>
  BY DEF SandboxReturns, sb
<1>2. /\ sb.answer \in Answer /\ sb.answer.cookie \in Caps /\ sb.ask.label \in {"alloc", "free"}
      /\ sb.answer.ok \in BOOLEAN
  BY <1>1, Records DEF IInv, Typed, ServeStates, SandboxSound, Servers, sb
<1>3. /\ a \in Answer
      /\ sb.ask.label = "free" => a.ok
      /\ (sb.ask.label = "alloc" /\ a.ok) => sb.answer.ok /\ a.cookie = sb.answer.cookie
      /\ (sb.ask.label = "alloc" /\ ~a.ok) => a.cookie = Nobody /\ ~sb.answer.ok
  <2>1. sb.ask.label = "free" => Understood(sb.ask, sb.answer)
    BY <1>1 DEF IInv, SandboxSound, Understood
  <2>2. sb.ask.label = "alloc" => (Understood(sb.ask, sb.answer) <=> sb.answer.ok)
    BY <1>1, <1>2 DEF IInv, SandboxSound, Understood
  <2>3. /\ Granted(sb.answer.cookie) \in Answer /\ Granted(sb.answer.cookie).ok
        /\ Granted(sb.answer.cookie).cookie = sb.answer.cookie
    BY <1>2 DEF Granted, Answer, Caps
  <2> QED
    BY <2>1, <2>2, <2>3, Records
<1> HIDE DEF a
<1>4. SlotsSound' /\ RegistrarSound'
  <2>1. sb'.pc = "reply"
    BY <1>1, <1>3, AnswersEffect DEF IInv, Typed, Servers, sb
  <2>2. SlotsSound'
    BY <1>1, <2>1, SlotsAssumption DEF IInv, SlotsSound
  <2> QED
    BY <1>1, <2>1, <2>2 DEF IInv, RegistrarSound
<1>5. IInv' /\ \A c \in Clients, o \in Objects : Holds(c, o)' <=> Holds(c, o)
  BY <1>1, <1>2, <1>3, <1>4, SandboxAnswersKeep DEF IInv, Typed
<1> QED
  BY <1>1, <1>5 DEF Same

\* The registrar's endpoint is the one that came with the message, an object
\* of the client that sent it.
LEMMA SetRegistrarKeeps ==
  ASSUME IInv, ipc_handle_sandbox_set_registrar
  PROVE  /\ IInv' /\ \A c \in Clients, o \in Objects : Holds(c, o)' <=> Holds(c, o)
         /\ alive' = alive /\ registered = Nobody
         /\ \E c \in Clients : \E o \in Objects : registered' = o /\ Holds(c, o)
<1>1. /\ sb.pc = "handle" /\ sb.ask.label = "set_registrar" /\ sb.caps = 1
      /\ loop = "unregistered"
      /\ UNCHANGED <<clientVars, queue, recv, send, path, loop, alive>>
  BY DEF ipc_handle_sandbox_set_registrar, Handles, sb
<1> DEFINE o == recv["sandbox"]
           c == sb.from
<1>2. /\ o # Nobody /\ o = client[c].ask.cap /\ c \in Clients /\ slots > 0
      /\ client[c].ask.label = "set_registrar"
      /\ slots = SandboxSlots - 2 - (IF hasReg THEN 1 ELSE 0) /\ send["sandbox"] = Nobody
  BY <1>1, HandledRight
<1>3. o \in DOMAIN tokens[c] /\ o \in Objects
  BY <1>2 DEF IInv, Typed, ClientsSound, AskSound
<1>4. ~hasReg /\ registered = Nobody
  BY <1>1 DEF IInv, RegistrarSound
<1>5. /\ slots' = slots - 1 /\ registrar' = o /\ hasReg' = TRUE /\ registered' = o
      /\ Answers("sandbox", Granted(Nobody))
  <2>1. ~hasReg /\ slots # 0
    BY <1>2, <1>4, SlotsAssumption
  <2>2. /\ slots' = slots - 1 /\ registrar' = o /\ hasReg' = (o # Nobody) /\ registered' = o
        /\ Answers("sandbox", IF o # Nobody THEN Granted(Nobody) ELSE Refused)
    BY <2>1, Zenon DEF ipc_handle_sandbox_set_registrar
  <2>3. (o # Nobody) = TRUE /\ (IF o # Nobody THEN Granted(Nobody) ELSE Refused) = Granted(Nobody)
    BY <1>2
  <2> HIDE DEF o
  <2> QED
    BY <2>2, <2>3
<1> HIDE DEF o, c
<1>6. Granted(Nobody) \in Answer
  BY DEF Granted, Answer
<1>7. sb'.pc = "reply"
  BY <1>5, <1>6, AnswersEffect DEF IInv, Typed, Servers, sb
<1>8. SlotsSound'
  BY <1>2, <1>4, <1>5, <1>7, SlotsAssumption DEF SlotsSound
<1>9. RegistrarSound'
  BY <1>1, <1>5, <1>7 DEF RegistrarSound
<1>10. IInv' /\ \A d \in Clients, k \in Objects : Holds(d, k)' <=> Holds(d, k)
  BY <1>1, <1>3, <1>4, <1>5, <1>6, <1>8, <1>9, SandboxAnswersKeep DEF IInv, Typed, Caps
<1>11. Holds(c, o)
  BY <1>2, <1>3 DEF Holds, HasToken, Freed
<1> QED
  BY <1>1, <1>2, <1>3, <1>4, <1>5, <1>10, <1>11

LEMMA GetRegistrarKeeps ==
  ASSUME IInv, ipc_handle_sandbox_get_registrar
  PROVE  IInv' /\ Same
<1>1. /\ sb.pc = "handle" /\ sb.ask.label = "get_registrar" /\ loop = "registered"
      /\ UNCHANGED <<clientVars, queue, recv, sandboxVars, alive>>
  BY DEF ipc_handle_sandbox_get_registrar, Handles, sb
<1>2. hasReg /\ registrar \in {Nobody, registered} /\ registrar \in Caps
  BY <1>1 DEF IInv, RegistrarSound, Typed
<1>3. send["sandbox"] = Nobody
  BY <1>1, HandledRight
<1>4. PICK a \in Answer :
         /\ Answers("sandbox", a)
         /\ send' \in [Servers -> Caps] /\ send'["root"] = send["root"]
         /\ send'["sandbox"] \in {Nobody, registered}
  <2>1. Granted(Nobody) \in Answer
    BY DEF Granted, Answer
  <2>2. CASE registrar # Nobody
    <3>1. send' = [send EXCEPT !["sandbox"] = registrar] /\ Answers("sandbox", Granted(Nobody))
      BY <1>1, <1>2, <1>3, <2>2 DEF ipc_handle_sandbox_get_registrar
    <3> QED
      BY <1>2, <2>1, <3>1 DEF IInv, Typed, Servers
  <2>3. CASE registrar = Nobody
    <3>1. send' = send /\ Answers("sandbox", Refused)
      BY <1>1, <1>2, <1>3, <2>3 DEF ipc_handle_sandbox_get_registrar
    <3> QED
      BY <1>3, <3>1, Records DEF IInv, Typed
  <2> QED
    BY <2>2, <2>3
<1>5. sb'.pc = "reply"
  BY <1>4, AnswersEffect DEF IInv, Typed, Servers, sb
<1>6. SlotsSound' /\ RegistrarSound'
  BY <1>1, <1>5 DEF IInv, SlotsSound, RegistrarSound, sandboxVars
<1>7. IInv' /\ \A c \in Clients, o \in Objects : Holds(c, o)' <=> Holds(c, o)
  BY <1>1, <1>4, <1>6, SandboxAnswersKeep DEF IInv, Typed, sandboxVars
<1> QED
  BY <1>1, <1>7 DEF Same, sandboxVars

(***************************************************************************)
(* The sandbox calls the root server: for a new object with the slot it    *)
(* sends from as its receive path, for an object's end with a spare one.   *)
(***************************************************************************)
LEMMA SandboxCallsKeep ==
  ASSUME IInv, sb.pc = "handle",
         \/ sb.ask.label = "alloc" /\ path' = "send" /\ slots' = slots
         \/ sb.ask.label = "free" /\ path' = "spare" /\ slots' = slots - 1,
         queue' = [queue EXCEPT !["root"] = Append(@, "sandbox")],
         serving' = [serving EXCEPT !["sandbox"].pc = "calling"],
         UNCHANGED <<clientVars, recv, send, loop, registrar, hasReg, registered, alive>>
  PROVE  IInv' /\ Same
<1>1. /\ sb.from \in Clients /\ sb.ask = client[sb.from].ask /\ sb.answer = Refused
      /\ send["sandbox"] = Nobody /\ rt.pc \in {"recv", "turn"} /\ queue["root"] = <<>>
      /\ slots = SandboxSlots - 2 - (IF hasReg THEN 1 ELSE 0)
  BY HandledRight
<1>2. /\ queue'["root"] = <<"sandbox">> /\ queue'["sandbox"] = queue["sandbox"]
      /\ DOMAIN queue' = Servers
  BY <1>1 DEF IInv, Typed, Servers
<1>3. /\ sb'.pc = "calling" /\ sb'.from = sb.from /\ sb'.ask = sb.ask /\ sb'.answer = Refused
      /\ rt' = rt /\ serving' \in [Servers -> ServeStates]
  <2>1. serving \in [Servers -> ServeStates] /\ sb \in ServeStates
    BY DEF IInv, Typed, sb, Servers
  <2>2. serving' = [serving EXCEPT !["sandbox"] = [sb EXCEPT !.pc = "calling"]]
    BY DEF sb
  <2>3. [sb EXCEPT !.pc = "calling"] \in ServeStates
    BY <2>1 DEF ServeStates
  <2> QED
    BY <1>1, <2>1, <2>2, <2>3 DEF ServeStates, sb, rt, Servers
<1>4. client' = client /\ tokens' = tokens /\ received' = received
  BY DEF clientVars
<1>5. Typed'
  BY <1>2, <1>3, <1>4 DEF IInv, Typed
<1>6. Queues'
  <2>1. \A d : InService(d)' <=> InService(d)
    BY <1>3 DEF InService
  <2> QED
    BY <1>2, <1>4, <2>1 DEF IInv, Queues
<1>7. ClientsSound' /\ RegistrarSound'
  BY <1>3, <1>4 DEF IInv, ClientsSound, AskSound, AnswerSound, RegistrarSound
<1>8. SandboxSound' /\ RootSound'
  BY <1>1, <1>2, <1>3, <1>4 DEF IInv, SandboxSound, RootSound
<1>9. SlotsSound'
  BY <1>1, <1>3, SlotsAssumption DEF SlotsSound
<1>10. \A d \in Clients, o \in Objects :
          /\ Freed(d, o)' <=> Freed(d, o)
          /\ Coming(d, o)' <=> Coming(d, o)
  BY <1>1, <1>3, <1>4 DEF Freed, Coming
<1>11. \A d \in Clients, o \in Objects : HasToken(d, o)' <=> HasToken(d, o)
  BY <1>4, <1>10 DEF HasToken
<1>12. Same
  BY <1>10, <1>11 DEF Same, Holds
<1>13. Ownership'
  BY <1>4, <1>10, <1>11, <1>12, OwnershipKept DEF IInv, Typed, Ownership
<1>14. CapsMatchCookies'
  BY <1>4 DEF IInv, CapsMatchCookies
<1> QED
  BY <1>5, <1>6, <1>7, <1>8, <1>9, <1>12, <1>13, <1>14 DEF IInv

LEMMA SandboxAllocKeeps ==
  ASSUME IInv, SandboxAlloc
  PROVE  IInv' /\ Same
  BY SandboxCallsKeep DEF SandboxAlloc, Handles, sb

LEMMA SandboxFreeKeeps ==
  ASSUME IInv, SandboxFree
  PROVE  IInv' /\ Same
<1>1. sb.pc = "handle" /\ sb.ask.label = "free"
  BY DEF SandboxFree, Handles, sb
<1>2. slots > 0
  BY <1>1, HandledRight
<1> QED
  BY <1>1, <1>2, SandboxCallsKeep DEF SandboxFree

(***************************************************************************)
(* The root server makes an object for the client the sandbox serves.      *)
(***************************************************************************)
Made(c, o) == /\ o \notin alive /\ alive' = alive \cup {o} /\ registered' = registered
              /\ \A d \in Clients, k \in Objects :
                    Holds(d, k)' <=> Holds(d, k) \/ (d = c /\ k = o)

LEMMA AllocKeeps ==
  ASSUME IInv, ipc_handle_alloc
  PROVE  IInv' /\ (Same \/ \E c \in Clients, o \in Objects : Made(c, o))
<1> PICK c : c = sb.from
  OBVIOUS
<1>1. /\ rt.pc = "handle" /\ rt.ask.label = "alloc"
      /\ UNCHANGED <<clientVars, queue, recv, sandboxVars>>
  BY DEF ipc_handle_alloc, Handles, rt
<1>2. /\ sb.pc = "calling" /\ rt.ask = sb.ask /\ rt.from = "sandbox" /\ queue["root"] = <<>>
      /\ send["root"] = Nobody
  BY <1>1 DEF IInv, RootSound
<1>3. c \in Clients /\ sb.ask = client[c].ask /\ client[c].pc = "calling"
  BY <1>2 DEF IInv, SandboxSound, Queues, InService
<1>4. PICK a \in Answer, o \in Caps :
         /\ Answers("root", a)
         /\ \/ a = Refused /\ o = Nobody /\ alive' = alive /\ send' = send
            \/ /\ o \in Objects \ alive /\ alive' = alive \cup {o} /\ a.ok /\ a.cookie = o
               /\ send' = [send EXCEPT !["root"] = o]
  <2>1. ASSUME NEW o \in Objects PROVE Granted(o) \in Answer /\ Granted(o).ok /\ Granted(o).cookie = o
    BY DEF Granted, Answer
  <2> QED
    BY <1>2, <2>1, Records DEF ipc_handle_alloc, Caps
<1>5. /\ serving' \in [Servers -> ServeStates] /\ sb' = sb
      /\ rt'.pc = "reply" /\ rt'.answer = a /\ rt'.from = rt.from /\ rt'.ask = rt.ask
      /\ rt'.gives = (a.ok /\ rt.ask.label \in WithCapability)
      /\ client' = client /\ tokens' = tokens /\ received' = received
  BY <1>1, <1>4, AnswersEffect DEF IInv, Typed, Servers, sb, rt, clientVars
<1>6. /\ send' \in [Servers -> Caps] /\ send'["sandbox"] = send["sandbox"]
      /\ a.ok => send'["root"] = o
  BY <1>4, Records DEF IInv, Typed, Servers
<1>7. Typed'
  BY <1>1, <1>4, <1>5, <1>6 DEF IInv, Typed, sandboxVars
<1>8. Queues' /\ SlotsSound' /\ RegistrarSound'
  BY <1>1, <1>5 DEF IInv, Queues, InService, SlotsSound, RegistrarSound, sandboxVars
<1>9. ClientsSound'
  <2>1. alive \subseteq alive'
    BY <1>4
  <2> QED
    BY <1>1, <1>5, <2>1 DEF IInv, ClientsSound, AskSound, AnswerSound, sandboxVars
<1>10. SandboxSound'
  BY <1>1, <1>2, <1>5, <1>6 DEF IInv, SandboxSound, sandboxVars
<1>11. RootSound'
  <2>1. rt'.ask.label = "alloc"
    BY <1>1, <1>5
  <2>2. a.ok => rt'.gives /\ a.cookie \in alive' /\ send'["root"] = a.cookie
    BY <1>1, <1>4, <1>5, <1>6, Records DEF WithCapability
  <2>3. ~a.ok => a.cookie = Nobody
    BY <1>4, Records
  <2> QED
    BY <1>1, <1>2, <1>5, <2>1, <2>2, <2>3 DEF RootSound
<1>12. CapsMatchCookies'
  BY <1>1, <1>5 DEF IInv, CapsMatchCookies, sandboxVars
<1>13. \A d \in Clients, k \in Objects : Freed(d, k)' <=> Freed(d, k)
  BY <1>1, <1>2, <1>3, <1>5 DEF Freed
<1>14. \A d \in Clients, k \in Objects : HasToken(d, k)' <=> HasToken(d, k)
  BY <1>5, <1>13 DEF HasToken
<1>15. \A d \in Clients, k \in Objects :
          Coming(d, k)' <=> Coming(d, k) \/ (d = c /\ a.cookie = k)
  BY <1>1, <1>2, <1>3, <1>5 DEF Coming
<1>16. \A d \in Clients, k \in Objects : Freed(d, k) => client[d].pc # "calling"
  BY <1>1, <1>2 DEF Freed
<1>17. CASE alive' = alive
  <2>1. a = Refused /\ o = Nobody
    BY <1>4, <1>17
  <2>2. \A d \in Clients, k \in Objects : Coming(d, k)' <=> Coming(d, k)
    BY <1>15, <2>1, Records, NamesAssumption
  <2>3. Same
    BY <1>1, <1>14, <1>17, <2>2 DEF Same, Holds, sandboxVars
  <2>4. Ownership'
    BY <1>5, <1>13, <1>14, <2>2, <2>3, OwnershipKept DEF IInv, Typed, Ownership
  <2> QED
    BY <1>7, <1>8, <1>9, <1>10, <1>11, <1>12, <2>3, <2>4 DEF IInv
<1>18. CASE alive' # alive
  <2>1. o \in Objects /\ o \notin alive /\ alive' = alive \cup {o} /\ a.cookie = o
    BY <1>4, <1>18
  <2>2. Made(c, o)
    BY <1>1, <1>14, <1>15, <2>1 DEF Made, Holds, sandboxVars
  <2>3. \A d \in Clients : ~Holds(d, o)
    BY <2>1 DEF IInv, Ownership
  <2>4. \A d \in Clients, k \in Objects : ~(HasToken(d, k)' /\ Coming(d, k)')
    BY <1>14, <1>15, <2>1, <2>3 DEF IInv, Ownership, Holds
  <2>5. \A d \in Clients, k \in Objects : Holds(d, k)' => k \in alive'
    BY <2>1, <2>2 DEF Made, IInv, Ownership
  <2>6. \A k \in alive' : \E d \in Clients : Holds(d, k)'
    BY <1>3, <2>1, <2>2 DEF Made, IInv, Ownership, Typed
  <2>7. \A d, e \in Clients, k \in Objects : Holds(d, k)' /\ Holds(e, k)' => d = e
    BY <2>2, <2>3 DEF Made, IInv, Ownership
  <2>8. Ownership'
    BY <1>5, <1>13, <1>16, <2>4, <2>5, <2>6, <2>7 DEF Ownership
  <2> QED
    BY <1>3, <1>7, <1>8, <1>9, <1>10, <1>11, <1>12, <2>1, <2>2, <2>8 DEF IInv
<1> QED
  BY <1>17, <1>18

(***************************************************************************)
(* The root server frees an object: it is the client's, and no capability  *)
(* that is on its way to anybody is taken from under the message.          *)
(***************************************************************************)
Gone(c, o) == /\ Holds(c, o) /\ alive' = alive \ {o} /\ registered' = registered
              /\ \A d \in Clients, k \in Objects : Holds(d, k)' <=> Holds(d, k) /\ k # o

LEMMA FreeKeeps ==
  ASSUME IInv, ipc_handle_free
  PROVE  IInv' /\ \E c \in Clients, o \in Objects : Gone(c, o)
<1> PICK c : c = sb.from
  OBVIOUS
<1> PICK o : o = rt.ask.cookie
  OBVIOUS
<1>1. /\ rt.pc = "handle" /\ rt.ask.label = "free"
      /\ alive' = alive \ {o}
      /\ UNCHANGED <<cslots, queue, path, slots, loop, hasReg, registered>>
  BY DEF ipc_handle_free, Handles, rt
<1>2. /\ sb.pc = "calling" /\ rt.ask = sb.ask /\ rt.from = "sandbox" /\ queue["root"] = <<>>
      /\ send["root"] = Nobody /\ send["sandbox"] = Nobody
  BY <1>1 DEF IInv, RootSound, SandboxSound
<1>3. /\ c \in Clients /\ sb.ask = client[c].ask /\ client[c].pc = "calling"
      /\ o = client[c].ask.cookie /\ client[c].ask.label = "free"
  BY <1>1, <1>2 DEF IInv, SandboxSound, Queues, InService
<1>4. o \in DOMAIN tokens[c] /\ o \in Objects /\ o # Nobody
  BY <1>3, NamesAssumption DEF IInv, Typed, ClientsSound, AskSound
<1>5. HasToken(c, o) /\ Holds(c, o) /\ o \in alive
  <2>1. HasToken(c, o)
    BY <1>1, <1>2, <1>3, <1>4 DEF HasToken, Freed
  <2> QED
    BY <1>3, <1>4, <2>1 DEF Holds, IInv, Ownership
<1>6. \A d \in Clients : ~Coming(d, o) /\ (HasToken(d, o) => d = c)
  BY <1>3, <1>4, <1>5 DEF IInv, Ownership, Holds
<1>7. /\ Answers("root", Granted(Nobody))
      /\ tokens' = [d \in Clients |-> [k \in DOMAIN tokens[d] |-> Without(o, tokens[d][k])]]
      /\ received' = [d \in Clients |-> Without(o, received[d])]
      /\ client' = [d \in Clients |-> [client[d] EXCEPT !.slot = Without(o, @)]]
      /\ recv' = [s \in Servers |-> Without(o, recv[s])]
      /\ send' = [s \in Servers |-> Without(o, send[s])]
      /\ registrar' = Without(o, registrar)
  BY <1>5 DEF ipc_handle_free, rt
<1>8. Granted(Nobody) \in Answer /\ Granted(Nobody).ok /\ Granted(Nobody).cookie = Nobody
  BY DEF Granted, Answer
<1>9. /\ serving' \in [Servers -> ServeStates] /\ sb' = sb
      /\ rt'.pc = "reply" /\ rt'.answer = Granted(Nobody) /\ rt'.from = rt.from
      /\ rt'.ask = rt.ask /\ rt'.gives = FALSE
  BY <1>1, <1>7, <1>8, AnswersEffect DEF IInv, Typed, Servers, sb, rt, WithCapability
<1>10. /\ client' \in [Clients -> CallStates]
       /\ \A d \in Clients : /\ client'[d].pc = client[d].pc /\ client'[d].ask = client[d].ask
                             /\ client'[d].answer = client[d].answer
                             /\ client'[d].slot = Without(o, client[d].slot)
  <2>1. ASSUME NEW d \in Clients
        PROVE  client[d] \in CallStates /\ Without(o, client[d].slot) \in Caps
    BY DEF IInv, Typed, CallStates, Caps, Without
  <2>2. ASSUME NEW d \in Clients
        PROVE  /\ [client[d] EXCEPT !.slot = Without(o, @)] \in CallStates
               /\ client'[d] = [client[d] EXCEPT !.slot = Without(o, client[d].slot)]
    BY <1>7, <2>1 DEF CallStates
  <2>3. client' \in [Clients -> CallStates]
    BY <1>7, <2>2
  <2> QED
    BY <2>1, <2>2, <2>3 DEF CallStates
<1>11. /\ DOMAIN tokens' = Clients
       /\ \A d \in Clients : DOMAIN tokens'[d] = DOMAIN tokens[d]
       /\ \A d \in Clients : \A k \in DOMAIN tokens[d] : tokens'[d][k] = Without(o, tokens[d][k])
  BY <1>7
<1>12. Typed'
  <2>1. recv' \in [Servers -> Caps] /\ send' \in [Servers -> Caps] /\ registrar' \in Caps
        /\ received' \in [Clients -> Caps]
    BY <1>7 DEF IInv, Typed, Caps, Without
  <2> QED
    BY <1>1, <1>9, <1>10, <1>11, <2>1 DEF IInv, Typed
<1>13. Queues' /\ SlotsSound'
  BY <1>1, <1>9, <1>10 DEF IInv, Queues, InService, SlotsSound
<1>14. RegistrarSound'
  BY <1>1, <1>7, <1>9 DEF IInv, RegistrarSound, Without
<1>15. ASSUME NEW d \in Clients PROVE (AskSound(d) /\ AnswerSound(d))'
  <2>1. AskSound(d)'
    BY <1>10, <1>11 DEF IInv, ClientsSound, AskSound
  <2>2. CASE client[d].pc # "answered"
    BY <1>10, <2>1, <2>2 DEF IInv, ClientsSound, AnswerSound, Without
  <2>3. CASE client[d].pc = "answered"
    <3>1. (client[d].ask.label = "alloc" /\ client[d].answer.ok) =>
             client[d].answer.cookie \in alive /\ client[d].answer.cookie # o
      BY <1>6, <2>3 DEF IInv, ClientsSound, AnswerSound, Coming
    <3> QED
      BY <1>1, <1>10, <2>1, <2>3, <3>1 DEF IInv, ClientsSound, AnswerSound, Without
  <2> QED
    BY <2>2, <2>3, <2>1
<1>16. ClientsSound'
  BY <1>15 DEF ClientsSound, AskSound, AnswerSound
<1>17. send'["sandbox"] = Nobody /\ recv' \in [Servers -> Caps]
  BY <1>2, <1>7, <1>12 DEF Without, Typed, Servers
<1>18. SandboxSound'
  BY <1>1, <1>2, <1>3, <1>9, <1>10, <1>17 DEF IInv, SandboxSound
<1>19. RootSound'
  BY <1>1, <1>2, <1>8, <1>9 DEF IInv, RootSound
<1>20. \A d \in Clients, k \in Objects : Freed(d, k)' <=> Freed(d, k) \/ (d = c /\ k = o)
  BY <1>1, <1>2, <1>3, <1>9, <1>10 DEF Freed
<1>21. \A d \in Clients, k \in Objects : HasToken(d, k)' <=> HasToken(d, k) /\ k # o
  BY <1>6, <1>11, <1>20 DEF HasToken
<1>22. \A d \in Clients, k \in Objects : Coming(d, k)' <=> Coming(d, k)
  BY <1>1, <1>2, <1>9, <1>10 DEF Coming
<1>23. \A d \in Clients, k \in Objects : Holds(d, k)' <=> Holds(d, k) /\ k # o
  BY <1>6, <1>21, <1>22 DEF Holds
<1>24. Gone(c, o)
  BY <1>1, <1>5, <1>23 DEF Gone
<1>25. Ownership'
  <2>1. \A d \in Clients, k \in Objects : Holds(d, k)' => k \in alive'
    BY <1>1, <1>23 DEF IInv, Ownership
  <2>2. \A k \in alive' : \E d \in Clients : Holds(d, k)'
    BY <1>1, <1>23 DEF IInv, Ownership, Typed
  <2>3. \A d, e \in Clients, k \in Objects : Holds(d, k)' /\ Holds(e, k)' => d = e
    BY <1>23 DEF IInv, Ownership
  <2>4. \A d \in Clients, k \in Objects : ~(HasToken(d, k)' /\ Coming(d, k)')
    BY <1>21, <1>22 DEF IInv, Ownership
  <2>5. \A d \in Clients, k \in Objects :
           (Freed(d, k)' /\ client'[d].pc = "calling") => k \notin alive'
    BY <1>1, <1>10, <1>20 DEF IInv, Ownership
  <2> QED
    BY <2>1, <2>2, <2>3, <2>4, <2>5 DEF Ownership
<1>26. CapsMatchCookies'
  <2>1. ASSUME NEW d \in Clients, NEW k \in DOMAIN tokens'[d]
        PROVE  tokens'[d][k] = k \/ (client'[d].ask.label = "free" /\ client'[d].ask.cookie = k)
    <3>1. k \in DOMAIN tokens[d] /\ k \in Objects /\ tokens'[d][k] = Without(o, tokens[d][k])
      BY <1>11 DEF IInv, Typed
    <3>2. CASE client[d].ask.label = "free" /\ client[d].ask.cookie = k
      BY <1>10, <3>2
    <3>3. CASE ~(client[d].ask.label = "free" /\ client[d].ask.cookie = k)
      <4>1. tokens[d][k] = k
        BY <3>1, <3>3 DEF IInv, CapsMatchCookies
      <4>2. HasToken(d, k)
        BY <3>1, <3>3 DEF HasToken, Freed
      <4>3. k # o
        BY <1>3, <1>6, <3>3, <4>2
      <4> QED
        BY <3>1, <4>1, <4>3 DEF Without
    <3> QED
      BY <3>2, <3>3
  <2>2. \A d \in Clients : received'[d] \in {Nobody, registered'}
    BY <1>1, <1>7 DEF IInv, CapsMatchCookies, Without
  <2> QED
    BY <2>1, <2>2 DEF CapsMatchCookies
<1> QED
  BY <1>3, <1>4, <1>12, <1>13, <1>14, <1>16, <1>18, <1>19, <1>24, <1>25, <1>26 DEF IInv

(***************************************************************************)
(* Every step keeps the invariant, and does to the objects what one step   *)
(* of the service does, or nothing.                                        *)
(***************************************************************************)
Registers == /\ alive' = alive /\ registered = Nobody
             /\ \A c \in Clients, o \in Objects : Holds(c, o)' <=> Holds(c, o)
             /\ \E c \in Clients : \E o \in Objects : registered' = o /\ Holds(c, o)

Effect == \/ Same \/ Registers
          \/ \E c \in Clients, o \in Objects : Made(c, o) \/ Gone(c, o)

LEMMA StepKeeps ==
  ASSUME IInv, [Next]_vars
  PROVE  IInv' /\ Effect
<1>1. CASE UNCHANGED vars
  <2>1. /\ UNCHANGED <<client, tokens, received, queue, serving, recv, send, path, slots, loop,
                       registrar, hasReg, registered, alive>>
    BY <1>1 DEF vars
  <2>2. Typed' /\ Queues' /\ ClientsSound'
    BY <2>1 DEF IInv, Typed, Queues, InService, sb, ClientsSound, AskSound, AnswerSound
  <2>3. SandboxSound' /\ RootSound' /\ SlotsSound' /\ RegistrarSound' /\ CapsMatchCookies'
    BY <2>1
       DEF IInv, SandboxSound, RootSound, SlotsSound, RegistrarSound, CapsMatchCookies, sb, rt
  <2>4. \A d \in Clients, k \in Objects :
           /\ Freed(d, k)' <=> Freed(d, k)
           /\ HasToken(d, k)' <=> HasToken(d, k)
           /\ Coming(d, k)' <=> Coming(d, k)
    BY <2>1 DEF Freed, HasToken, Coming, sb, rt
  <2>5. Same
    BY <2>1, <2>4 DEF Same, Holds
  <2>6. Ownership'
    BY <2>1, <2>4, <2>5, OwnershipKept DEF IInv, Typed, Ownership
  <2> QED
    BY <2>2, <2>3, <2>5, <2>6 DEF IInv, Effect
<1>2. CASE Clients_Next
  BY <1>2, RequestsKeep, ReturnKeep DEF Clients_Next, Effect
<1>3. CASE \E s \in Servers : Recv(s) \/ Reply(s) \/ Turn(s)
  BY <1>3, RecvSandboxKeeps, RecvRootKeeps, ReplySandboxKeeps, ReplyRootKeeps,
     TurnSandboxKeeps, TurnRootKeeps DEF Servers, Effect
<1>4. CASE Sandbox
  <2>1. CASE ipc_handle_sandbox_set_registrar
    BY <2>1, SetRegistrarKeeps DEF Effect, Registers
  <2>2. CASE ~ipc_handle_sandbox_set_registrar
    BY <1>4, <2>2, SandboxRejectsKeeps, SandboxPingKeeps, SandboxAllocKeeps, SandboxFreeKeeps,
       SandboxReturnsKeeps, GetRegistrarKeeps DEF Sandbox, Effect
  <2> QED
    BY <2>1, <2>2
<1>5. CASE ipc_handle_alloc
  BY <1>5, AllocKeeps DEF Effect
<1>6. CASE ipc_handle_free
  BY <1>6, FreeKeeps DEF Effect
<1> QED
  BY <1>1, <1>2, <1>3, <1>4, <1>5, <1>6 DEF Next, Serve

\* Wherever a call is, the sandbox, the root server and the client agree on
\* what has been asked, granted and given; every object is at one place.
THEOREM CallsSound == Spec => []IInv
  BY InitIInv, StepKeeps, PTL DEF Spec

\* No client and no server runs into an assertion: what is freed is there, an
\* object made has a cookie, the registrar is set once and known when asked.
THEOREM RpcAssertionsHold == Spec => []AssertionsHold
<1>1. IInv => AssertionsHold
  BY DEF IInv, AssertionsHold, Typed, CallStates, ServeStates
<1> QED
  BY <1>1, CallsSound, PTL

\* A token holds the capability of the object its cookie names, and a server
\* that waits for a request has empty slots and all its spare ones.
THEOREM RpcCapabilitiesInPlace == Spec => []CapabilitiesInPlace
<1>1. ASSUME IInv PROVE CapabilitiesInPlace
  <2>1. CASE sb.pc = "recv"
    BY <1>1, <2>1, SlotsAssumption
       DEF IInv, SandboxSound, RootSound, SlotsSound, CapabilitiesInPlace, ReadyToReceive,
           Servers, sb, rt
  <2>2. CASE sb.pc # "recv"
    BY <1>1, <2>2
       DEF IInv, RootSound, CapabilitiesInPlace, ReadyToReceive, Servers, sb, rt
  <2> QED
    BY <2>1, <2>2
<1> QED
  BY <1>1, CallsSound, PTL

-----------------------------------------------------------------------------
(***************************************************************************)
(* The refinement: the owner of an object is the one client that holds it. *)
(***************************************************************************)
OwnerTold ==
    \A o \in Objects : /\ \A c \in Clients : Holds(c, o) => Holder(o) = c
                       /\ o \notin alive => Holder(o) = Nobody

LEMMA HolderIs ==
  ASSUME IInv, NEW o \in Objects
  PROVE  /\ \A c \in Clients : Holds(c, o) => Holder(o) = c
         /\ o \notin alive => Holder(o) = Nobody
<1> DEFINE has(c) ==
       \/ o \in DOMAIN tokens[c] /\ ~(client[c].pc = "answered" /\ client[c].ask.cookie = o)
       \/ client[c].ask.label = "alloc" /\ client[c].answer.cookie = o
       \/ /\ sb.from = c /\ sb.ask.label = "alloc"
          /\ sb.pc # "turn"
          /\ sb.answer.cookie = o \/ (rt.from = "sandbox" /\ rt.pc = "reply" /\ rt.answer.cookie = o)
<1>1. Holder(o) = IF o \in alive /\ \E c \in Clients : has(c)
                  THEN CHOOSE c \in Clients : has(c)
                  ELSE IF o \in alive THEN o ELSE Nobody
  BY Zenon DEF Holder, sb, rt
<1>2. ASSUME o \in alive, NEW c \in Clients PROVE has(c) <=> Holds(c, o)
  <2>1. o \in DOMAIN tokens[c] /\ ~(client[c].pc = "answered" /\ client[c].ask.cookie = o)
        <=> HasToken(c, o)
    <3>1. (client[c].ask.label # "free" => client[c].ask.cookie # o)
      BY NamesAssumption DEF IInv, ClientsSound, AskSound
    <3>2. Freed(c, o) => client[c].pc # "calling"
      BY <1>2 DEF IInv, Ownership
    <3>3. sb.from = c /\ sb.pc \in {"calling", "returned", "reply"} => client[c].pc = "calling"
      BY DEF IInv, Queues, InService
    <3> QED
      BY <3>1, <3>2, <3>3 DEF HasToken, Freed
  <2>2. client[c].ask.label = "alloc" /\ client[c].answer.cookie = o
        <=> client[c].pc = "answered" /\ client[c].ask.label = "alloc" /\ client[c].answer.cookie = o
    BY Records, NamesAssumption DEF IInv, ClientsSound, AnswerSound
  <2>3. ASSUME sb.from = c, sb.ask.label = "alloc"
        PROVE  (/\ sb.pc # "turn"
                /\ \/ sb.answer.cookie = o
                   \/ rt.from = "sandbox" /\ rt.pc = "reply" /\ rt.answer.cookie = o)
               <=> (\/ sb.pc \in {"returned", "reply"} /\ sb.answer.cookie = o
                    \/ sb.pc = "calling" /\ rt.pc = "reply" /\ rt.answer.cookie = o)
    <3>1. sb.pc \in {"recv", "handle", "calling"} => sb.answer.cookie # o
      BY Records, NamesAssumption DEF IInv, SandboxSound
    <3>2. rt.pc = "reply" => rt.from = "sandbox" /\ sb.pc = "calling"
      BY DEF IInv, RootSound
    <3>3. sb.pc \in {"recv", "handle", "calling", "returned", "reply", "turn"}
      BY DEF IInv, Typed, ServeStates, Servers, sb
    <3> QED
      BY <3>1, <3>2, <3>3
  <2> QED
    BY <2>1, <2>2, <2>3 DEF Holds, Coming
<1> HIDE DEF has
<1>3. ASSUME NEW c \in Clients, Holds(c, o) PROVE Holder(o) = c
  <2>1. o \in alive
    BY <1>3 DEF IInv, Ownership
  <2>2. has(c) /\ \A d \in Clients : has(d) => d = c
    BY <1>2, <1>3, <2>1 DEF IInv, Ownership
  <2> QED
    BY <1>1, <2>1, <2>2
<1>4. o \notin alive => Holder(o) = Nobody
  BY <1>1
<1> QED
  BY <1>3, <1>4

LEMMA OwnersTold == IInv => OwnerTold
  BY HolderIs DEF OwnerTold

LEMMA InitRefines == Init => Service!Init
<1> SUFFICES ASSUME Init PROVE Service!Init
  OBVIOUS
<1>1. \A o \in Objects : Holder(o) = Nobody
  BY InitIInv, HolderIs DEF Init
<1>2. registered = Nobody
  BY DEF Init
<1> QED
  BY <1>1, <1>2 DEF Service!Init

\* The owner after a step, from what has become of the objects.
LEMMA StepRefines ==
  ASSUME IInv, IInv', Effect, OwnerTold, OwnerTold'
  PROVE  [Service!Next]_Service!vars
<1>1. /\ \A c \in Clients, o \in Objects : Holds(c, o) => Holder(o) = c
      /\ \A o \in Objects : o \notin alive => Holder(o) = Nobody
      /\ \A c \in Clients, o \in Objects : Holds(c, o)' => Holder(o)' = c
      /\ \A o \in Objects : o \notin alive' => Holder(o)' = Nobody
  BY DEF OwnerTold
<1>2. ASSUME NEW o \in Objects, o \in alive <=> o \in alive',
             \A c \in Clients : Holds(c, o)' <=> Holds(c, o)
      PROVE  Holder(o)' = Holder(o)
  <2>1. CASE o \in alive
    <3>1. PICK c \in Clients : Holds(c, o)
      BY <2>1 DEF IInv, Ownership
    <3> QED
      BY <1>1, <1>2, <3>1
  <2>2. CASE o \notin alive
    BY <1>1, <1>2, <2>2
  <2> QED
    BY <2>1, <2>2
<1> DEFINE owner == [o \in Objects |-> Holder(o)]
<1>3. CASE Same
  <2>1. \A o \in Objects : Holder(o)' = Holder(o)
    BY <1>2, <1>3 DEF Same
  <2> QED
    BY <1>3, <2>1 DEF Same, Service!vars
<1>4. CASE Registers
  <2>1. \A o \in Objects : Holder(o)' = Holder(o)
    BY <1>2, <1>4 DEF Registers
  <2>2. PICK c \in Clients, o \in Objects : registered' = o /\ Holds(c, o)
    BY <1>4 DEF Registers
  <2>3. Service!Register(c, o)
    BY <1>1, <1>4, <2>1, <2>2 DEF Service!Register, Registers
  <2> QED
    BY <2>3 DEF Service!Next
<1>5. ASSUME NEW c \in Clients, NEW o \in Objects, Made(c, o) PROVE Service!Next
  <2>1. \A k \in Objects : k # o => Holder(k)' = Holder(k)
    BY <1>2, <1>5 DEF Made
  <2>2. Holder(o) = Nobody /\ Holder(o)' = c
    BY <1>1, <1>5 DEF Made
  <2>3. owner' = [owner EXCEPT ![o] = c]
    BY <2>1, <2>2
  <2>4. Service!Allocate(c, o)
    BY <1>5, <2>2, <2>3 DEF Service!Allocate, Made
  <2> QED
    BY <2>4 DEF Service!Next
<1>6. ASSUME NEW c \in Clients, NEW o \in Objects, Gone(c, o) PROVE Service!Next
  <2>1. \A k \in Objects : k # o => Holder(k)' = Holder(k)
    BY <1>2, <1>6 DEF Gone
  <2>2. Holder(o) = c /\ Holder(o)' = Nobody
    BY <1>1, <1>6 DEF Gone
  <2>3. owner' = [owner EXCEPT ![o] = Nobody]
    BY <2>1, <2>2
  <2>4. Service!Release(c, o)
    BY <1>6, <2>2, <2>3 DEF Service!Release, Gone
  <2> QED
    BY <2>4 DEF Service!Next
<1> QED
  BY <1>3, <1>4, <1>5, <1>6 DEF Effect

\* The messages between clients, sandbox and root server implement the service:
\* an object belongs to one client at a time, from the root server's step that
\* makes it to the one that frees it, and the registrar is registered once, by
\* the client that owns its endpoint.
THEOREM CallsImplementService == Spec => ImplementsService
<1>1. IInv /\ [Next]_vars => IInv' /\ Effect
  BY StepKeeps
<1>2. IInv /\ IInv' /\ Effect /\ OwnerTold /\ OwnerTold' => [Service!Next]_Service!vars
  BY StepRefines
<1> QED
  BY InitRefines, OwnersTold, CallsSound, <1>1, <1>2, PTL
     DEF Spec, ImplementsService, Service!Spec
=============================================================================
