-------------------------------- MODULE Chat --------------------------------
(***************************************************************************)
(* The chat of cw06: one server and several client processes that talk     *)
(* through System V message queues, one queue for the server and one for   *)
(* each client.                                                            *)
(*                                                                         *)
(* The server takes the requests by their type, one type after the other,  *)
(* and answers with blocking sends: while one of them waits for room in a  *)
(* client's queue, it does nothing else.  A client blocks in its own       *)
(* sends, and in LIST until every entry has come; messages from others     *)
(* stay in its queue until its user types INCOMING.  A signal ends a       *)
(* blocked msgsnd or msgrcv, and neither side looks at the result, except  *)
(* the client that waits for its id.                                       *)
(*                                                                         *)
(* Queues hold a number of messages instead of a number of bytes, two      *)
(* clients never draw the same queue key, and a user types a command with  *)
(* its arguments in one go.  A text is its author and its number.  The     *)
(* entry that operator[] makes up has process 0 and queue 0; no queue has  *)
(* this id here.                                                           *)
(***************************************************************************)
EXTENDS Integers, Sequences, SequencesExt, FiniteSets, FiniteSetsExt

CONSTANTS
  Client,        \* the client processes
  Nobody,        \* the owner of an entry that operator[] has made up
  MaxCommands,   \* bound: how many requests a user makes
  MaxId,         \* bound: the highest target a user types
  QueueSize,     \* msg_qbytes, as a number of messages
  MaySignal,     \* may the clients be signalled?
  MayStop        \* may the server be signalled?

ASSUME ChatAssumption ==
  /\ IsFiniteSet(Client) /\ Nobody \notin Client
  /\ {MaxCommands, MaxId} \subseteq Nat
  /\ QueueSize \in Nat \ {0}
  /\ {MaySignal, MayStop} \subseteq BOOLEAN

VARIABLES
  \* the server
  phase,          \* the handler of the main loop it is in
  server_flag,    \* its interrupt_flag
  client_data,    \* the registered clients: id -> process (and its queue)
  server_queue,
  outbox,         \* the messages its current handler has still to send
  \* the clients
  pc,
  this_id,
  interrupt_flag,
  num_clients,    \* struct MsgList's union, then the entries still to come
  request,        \* the message the client is about to send
  queue,          \* the clients' own queues
  typed,          \* how many requests the user has made so far
  pending,        \* the clients with a signal that is not delivered yet
  handled         \* the clients whose handler has run

serverVars == <<phase, server_flag, client_data, outbox>>
localVars == <<this_id, num_clients, request, typed>>
signalVars == <<interrupt_flag, pending, handled>>
clientVars == <<pc, localVars, signalVars>>
vars == <<serverVars, server_queue, clientVars, queue>>

NoMsg == [type |-> "none"]

Init ==
  /\ phase = "top"
  /\ server_flag = FALSE
  /\ client_data = <<>>
  /\ server_queue = <<>>
  /\ outbox = <<>>
  /\ pc = [c \in Client |-> "off"]
  /\ this_id = [c \in Client |-> -1]
  /\ interrupt_flag = [c \in Client |-> FALSE]
  /\ num_clients = [c \in Client |-> 0]
  /\ request = [c \in Client |-> NoMsg]
  /\ queue = [c \in Client |-> <<>>]
  /\ typed = [c \in Client |-> 0]
  /\ pending = {}
  /\ handled = {}

-----------------------------------------------------------------------------
(* Queues.                                                                 *)

HasRoom(q) == Len(q) < QueueSize

\* msgrcv with a type takes the first message of that type, if there is one.
FirstOf(q, type) == SelectInSeq(q, LAMBDA m : m.type = type)
Has(q, type) == FirstOf(q, type) # 0
Taken(q, type) == RemoveAt(q, FirstOf(q, type))

\* A client removes its queue when it stops; one that fails while it waits
\* for its id leaves it behind.
QueueExists(c) == c # Nobody /\ pc[c] # "stopped"

Alive(c) == pc[c] \notin {"off", "stopped", "crashed"}

-----------------------------------------------------------------------------
(* The registry.                                                           *)

Known == DOMAIN client_data

\* Mutant: the new id is the size of the registry.
NewIdBySize == Cardinality(Known)

NewId == IF Known = {} THEN 0 ELSE Max(Known) + 1

\* operator[] of std::map inserts an entry of zeros for an unknown id.
Touched(id) == [i \in Known \cup {id} |-> IF i \in Known THEN client_data[i] ELSE Nobody]

Without(id) == [i \in Known \ {id} |-> client_data[i]]

To(c, m) == [to |-> c, msg |-> m]

\* The ids of a registry in ascending order: the nth has n - 1 smaller ones.
InOrder(data) ==
  [n \in 1..Cardinality(DOMAIN data) |->
     CHOOSE i \in DOMAIN data : Cardinality({j \in DOMAIN data : j < i}) = n - 1]

\* Mutant: the made-up entries are counted but not sent.
ListingOfClients(id, data) ==
  LET ids == SelectSeq(InOrder(data), LAMBDA i : data[i] # Nobody)
  IN  <<To(data[id], [type |-> "LIST", num |-> Cardinality(Known)])>>
        \o [k \in 1..Len(ids) |-> To(data[id], [type |-> "LIST_ENTITY", id |-> ids[k]])]

\* The answer to LIST: the size of the registry, then its entries.
Listing(id, data) ==
  LET ids == InOrder(data)
  IN  <<To(data[id], [type |-> "LIST", num |-> Cardinality(Known)])>>
        \o [k \in 1..Len(ids) |-> To(data[id], [type |-> "LIST_ENTITY", id |-> ids[k]])]

Broadcast(m) ==
  LET ids == InOrder(client_data)
  IN  [k \in 1..Len(ids) |-> To(client_data[ids[k]], m)]

-----------------------------------------------------------------------------
(* The server.                                                             *)

\* Between two blocking sends the server takes the first message of the type
\* its current handler is for.
Takes(type) ==
  /\ phase = type
  /\ outbox = <<>>
  /\ Has(server_queue, type)
  /\ server_queue' = Taken(server_queue, type)
  /\ UNCHANGED <<phase, server_flag, clientVars, queue>>

Request == server_queue[FirstOf(server_queue, phase)]

registerNewClients ==
  /\ Takes("INIT")
  /\ client_data' = [i \in Known \cup {NewId} |->
                       IF i = NewId THEN Request.from ELSE client_data[i]]
  /\ outbox' = <<To(Request.from, [type |-> "INIT", id |-> NewId])>>

deregisterTerminatedClients ==
  /\ Takes("STOP")
  /\ client_data' = Without(Request.id)
  /\ UNCHANGED outbox

handleListing ==
  /\ Takes("LIST")
  /\ client_data' = Touched(Request.id)
  /\ outbox' = Listing(Request.id, client_data')

handleToOne ==
  /\ Takes("TO_ONE")
  /\ client_data' = Touched(Request.target)
  /\ outbox' = <<To(client_data'[Request.target], Request)>>

handleToAll ==
  /\ Takes("TO_ALL")
  /\ outbox' = Broadcast(Request)
  /\ UNCHANGED client_data

\* Mutant: a text for a full queue is put back into the server's queue.
SendOrPutBack ==
  /\ outbox # <<>>
  /\ outbox' = Tail(outbox)
  /\ LET c == Head(outbox).to
         m == Head(outbox).msg
     IN  \/ /\ QueueExists(c) /\ HasRoom(queue[c])
            /\ queue' = [queue EXCEPT ![c] = Append(@, m)]
            /\ UNCHANGED server_queue
         \/ /\ QueueExists(c) /\ ~HasRoom(queue[c]) /\ "text" \in DOMAIN m
            /\ HasRoom(server_queue)
            /\ server_queue' = Append(server_queue, m)
            /\ UNCHANGED queue
         \/ ~QueueExists(c) /\ UNCHANGED <<queue, server_queue>>
  /\ UNCHANGED <<phase, server_flag, client_data, clientVars>>

\* Mutant: IPC_NOWAIT, a message for a full queue is dropped.
SendNoWait ==
  /\ outbox # <<>>
  /\ LET c == Head(outbox).to
     IN  IF QueueExists(c) /\ HasRoom(queue[c])
         THEN queue' = [queue EXCEPT ![c] = Append(@, Head(outbox).msg)]
         ELSE UNCHANGED queue
  /\ outbox' = Tail(outbox)
  /\ UNCHANGED <<phase, server_flag, client_data, server_queue, clientVars>>

\* A send waits for room in the queue it is for, and is in vain when that
\* queue is gone.
Send ==
  /\ outbox # <<>>
  /\ LET c == Head(outbox).to
     IN  IF QueueExists(c)
         THEN /\ HasRoom(queue[c])
              /\ queue' = [queue EXCEPT ![c] = Append(@, Head(outbox).msg)]
         ELSE UNCHANGED queue
  /\ outbox' = Tail(outbox)
  /\ UNCHANGED <<phase, server_flag, client_data, server_queue, clientVars>>

\* Mutant: clients are registered once, before the main loop.
AfterFirst(p) ==
  CASE p = "top"    -> IF server_flag THEN "terminate" ELSE "INIT"
    [] p = "INIT"   -> "STOP"
    [] p = "STOP"   -> "LIST"
    [] p = "LIST"   -> "TO_ONE"
    [] p = "TO_ONE" -> "TO_ALL"
    [] p = "TO_ALL" -> "STOP"

After(p) ==
  CASE p = "top"    -> IF server_flag THEN "terminate" ELSE "INIT"
    [] p = "INIT"   -> "STOP"
    [] p = "STOP"   -> "LIST"
    [] p = "LIST"   -> "TO_ONE"
    [] p = "TO_ONE" -> "TO_ALL"
    [] p = "TO_ALL" -> "top"

\* A handler ends when there is no message of its type left.
NextHandler ==
  /\ phase \notin {"terminate", "remove", "down"}
  /\ outbox = <<>>
  /\ ~Has(server_queue, phase)
  /\ phase' = After(phase)
  /\ UNCHANGED <<server_flag, client_data, outbox, server_queue, clientVars, queue>>

\* kill() of the made-up process 0 goes to the server's process group, which
\* any client may belong to.
terminateClients ==
  /\ phase = "terminate"
  /\ phase' = "remove"
  /\ LET killed == {client_data[i] : i \in Known}
     IN  \E group \in IF Nobody \in killed THEN SUBSET Client ELSE {{}} :
           pending' = pending \cup {c \in killed \cup group : c # Nobody /\ Alive(c)}
  /\ UNCHANGED <<server_flag, client_data, outbox, server_queue, pc, localVars,
                 interrupt_flag, handled, queue>>

RemoveServerQueue ==
  /\ phase = "remove"
  /\ phase' = "down"
  /\ server_queue' = <<>>
  /\ UNCHANGED <<server_flag, client_data, outbox, clientVars, queue>>

\* The handler of the server's first signal.  When the signal ends a send that
\* waits for room, the message is lost.
InterruptServer ==
  /\ MayStop
  /\ phase # "down"
  /\ ~server_flag
  /\ server_flag' = TRUE
  /\ \/ UNCHANGED outbox
     \/ /\ outbox # <<>>
        /\ QueueExists(Head(outbox).to)
        /\ ~HasRoom(queue[Head(outbox).to])
        /\ outbox' = Tail(outbox)
  /\ UNCHANGED <<phase, client_data, server_queue, clientVars, queue>>

Server ==
  \/ registerNewClients
  \/ deregisterTerminatedClients
  \/ handleListing
  \/ handleToOne
  \/ handleToAll
  \/ Send
  \/ NextHandler
  \/ terminateClients
  \/ RemoveServerQueue

-----------------------------------------------------------------------------
(* A client.                                                               *)

Goto(c, l) == pc' = [pc EXCEPT ![c] = l]

\* The client is about to send m.
Ask(c, m) ==
  /\ Goto(c, "send")
  /\ request' = [request EXCEPT ![c] = m]

\* A new client finds the server's queue, or fails.
Start(c) ==
  /\ pc[c] = "off"
  /\ IF phase = "down"
     THEN Goto(c, "crashed") /\ UNCHANGED request
     ELSE Ask(c, [type |-> "INIT", from |-> c])
  /\ UNCHANGED <<serverVars, server_queue, this_id, num_clients, typed, signalVars, queue>>

\* What a client does after msgsnd, whatever this has returned.
AfterSend(type) ==
  CASE type = "INIT" -> "await_init"
    [] type = "LIST" -> "await_list"
    [] type = "STOP" -> "remove"
    [] type \in {"TO_ONE", "TO_ALL"} -> "top"

SendRequest(c) ==
  /\ pc[c] = "send"
  /\ IF phase = "down"
     THEN UNCHANGED server_queue
     ELSE /\ HasRoom(server_queue)
          /\ server_queue' = Append(server_queue, request[c])
  /\ Goto(c, AfterSend(request[c].type))
  /\ UNCHANGED <<serverVars, localVars, signalVars, queue>>

\* The client waits for a message of a type, and there is one.
Receive(c, type) ==
  /\ Has(queue[c], type)
  /\ queue' = [queue EXCEPT ![c] = Taken(@, type)]
  /\ UNCHANGED <<serverVars, server_queue, request, typed, signalVars>>

Received(c, type) == queue[c][FirstOf(queue[c], type)]

ReceiveId(c) ==
  /\ pc[c] = "await_init"
  /\ Receive(c, "INIT")
  /\ this_id' = [this_id EXCEPT ![c] = Received(c, "INIT").id]
  /\ Goto(c, "top")
  /\ UNCHANGED num_clients

Top(c) ==
  /\ pc[c] = "top"
  /\ IF interrupt_flag[c]
     THEN Ask(c, [type |-> "STOP", id |-> this_id[c]])
     ELSE Goto(c, "reading") /\ UNCHANGED request
  /\ UNCHANGED <<serverVars, server_queue, this_id, num_clients, typed, signalVars, queue>>

\* A command that makes the client send m.
Command(c, m) ==
  /\ pc[c] = "reading"
  /\ typed[c] < MaxCommands
  /\ typed' = [typed EXCEPT ![c] = @ + 1]
  /\ Ask(c, m)
  /\ UNCHANGED <<serverVars, server_queue, this_id, signalVars, queue>>

Text(c) == <<c, typed[c]>>

\* The sender's id and the number of clients share the same bytes.
list(c) ==
  /\ Command(c, [type |-> "LIST", id |-> this_id[c]])
  /\ num_clients' = [num_clients EXCEPT ![c] = this_id[c]]

to_one(c) ==
  /\ \E id \in 0..MaxId : Command(c, [type |-> "TO_ONE", target |-> id, text |-> Text(c)])
  /\ UNCHANGED num_clients

to_all(c) ==
  /\ Command(c, [type |-> "TO_ALL", text |-> Text(c)])
  /\ UNCHANGED num_clients

handleIncoming(c) ==
  /\ pc[c] = "reading"
  /\ Goto(c, "incoming_one")
  /\ UNCHANGED <<serverVars, server_queue, localVars, signalVars, queue>>

TypeStop(c) ==
  /\ pc[c] = "reading"
  /\ interrupt_flag' = [interrupt_flag EXCEPT ![c] = TRUE]
  /\ Goto(c, "top")
  /\ UNCHANGED <<serverVars, server_queue, localVars, pending, handled, queue>>

\* Mutant: the loop goes on while i <= num_clients.
ExpectOneMore(c, n) ==
  /\ num_clients' = [num_clients EXCEPT ![c] = n]
  /\ Goto(c, IF n >= 0 THEN "await_entity" ELSE "top")

\* The loop of list() over the entries, n of which are still to come.
Expect(c, n) ==
  /\ num_clients' = [num_clients EXCEPT ![c] = n]
  /\ Goto(c, IF n > 0 THEN "await_entity" ELSE "top")

ReceiveCount(c) ==
  /\ pc[c] = "await_list"
  /\ Receive(c, "LIST")
  /\ Expect(c, Received(c, "LIST").num)
  /\ UNCHANGED this_id

ReceiveEntity(c) ==
  /\ pc[c] = "await_entity"
  /\ Receive(c, "LIST_ENTITY")
  /\ Expect(c, num_clients[c] - 1)
  /\ UNCHANGED this_id

\* INCOMING prints what is there, first the unicasts, then the broadcasts.
ShowNext(c, l, type, next) ==
  /\ pc[c] = l
  /\ IF Has(queue[c], type)
     THEN Receive(c, type) /\ UNCHANGED pc
     ELSE /\ Goto(c, next)
          /\ UNCHANGED <<serverVars, server_queue, request, typed, signalVars, queue>>
  /\ UNCHANGED <<this_id, num_clients>>

PrintOne(c) == ShowNext(c, "incoming_one", "TO_ONE", "incoming_all")
PrintAll(c) == ShowNext(c, "incoming_all", "TO_ALL", "top")

RemoveQueue(c) ==
  /\ pc[c] = "remove"
  /\ queue' = [queue EXCEPT ![c] = <<>>]
  /\ Goto(c, "stopped")
  /\ UNCHANGED <<serverVars, server_queue, localVars, signalVars>>

\* Somebody presses Ctrl+C.
Interrupt(c) ==
  /\ MaySignal
  /\ Alive(c)
  /\ c \notin pending \cup handled
  /\ pending' = pending \cup {c}
  /\ UNCHANGED <<serverVars, server_queue, pc, localVars, interrupt_flag, handled, queue>>

\* What a blocked call does when the handler has interrupted it.
Interrupted(c) ==
  \/ /\ pc[c] = "send"
     /\ phase # "down"
     /\ ~HasRoom(server_queue)
     /\ Goto(c, AfterSend(request[c].type))
     /\ UNCHANGED num_clients
  \/ pc[c] = "await_init" /\ Goto(c, "crashed") /\ UNCHANGED num_clients
  \/ pc[c] = "await_list" /\ Expect(c, num_clients[c])
  \/ pc[c] = "await_entity" /\ Expect(c, num_clients[c] - 1)
  \/ pc[c] = "reading" /\ Goto(c, "top") /\ UNCHANGED num_clients

\* The handler of c runs.  The call may not have begun when the signal comes,
\* and a read of the terminal may be restarted.  sa_flags is never assigned:
\* it may hold SA_RESETHAND, and then the second signal kills the client.
HandleSignal(c) ==
  /\ c \in pending
  /\ Alive(c)
  /\ pending' = pending \ {c}
  /\ handled' = handled \cup {c}
  /\ interrupt_flag' = [interrupt_flag EXCEPT ![c] = TRUE]
  /\ \/ UNCHANGED <<pc, num_clients>>
     \/ Interrupted(c)
     \/ c \in handled /\ Goto(c, "crashed") /\ UNCHANGED num_clients
  /\ UNCHANGED <<serverVars, server_queue, this_id, request, typed, queue>>

\* The process of c goes on without its user.
Proceed(c) ==
  \/ SendRequest(c)
  \/ ReceiveId(c)
  \/ Top(c)
  \/ ReceiveCount(c)
  \/ ReceiveEntity(c)
  \/ PrintOne(c)
  \/ PrintAll(c)
  \/ RemoveQueue(c)

User(c) ==
  \/ Start(c)
  \/ list(c)
  \/ to_one(c)
  \/ to_all(c)
  \/ handleIncoming(c)
  \/ TypeStop(c)
  \/ Interrupt(c)

Next ==
  \/ Server
  \/ InterruptServer
  \/ \E c \in Client : Proceed(c) \/ User(c) \/ HandleSignal(c)

Spec == Init /\ [][Next]_vars

\* The server and the clients' processes are scheduled; users type as they like.
FairSpec ==
  /\ Spec
  /\ WF_vars(Server)
  /\ \A c \in Client : WF_vars(Proceed(c)) /\ WF_vars(HandleSignal(c))

-----------------------------------------------------------------------------
(* Properties.                                                             *)

\* bound: an id grows by one with every registration beyond the highest entry,
\* and a user can type an id up to MaxId.
Ids == 0..(MaxId + Cardinality(Client))

Texts == Client \X (0..MaxCommands)

Requests ==
  [type : {"INIT"}, from : Client]
    \cup [type : {"STOP", "LIST"}, id : Ids]
    \cup [type : {"TO_ONE"}, target : Ids, text : Texts]
    \cup [type : {"TO_ALL"}, text : Texts]

Answers ==
  [type : {"INIT", "LIST_ENTITY"}, id : Ids]
    \cup [type : {"LIST"}, num : 0..Cardinality(Ids)]
    \cup [type : {"TO_ONE"}, target : Ids, text : Texts]
    \cup [type : {"TO_ALL"}, text : Texts]

\* The values of the variables; no queue is ever longer than its capacity.
TypeOK ==
  /\ phase \in {"top", "INIT", "STOP", "LIST", "TO_ONE", "TO_ALL", "terminate", "remove", "down"}
  /\ server_flag \in BOOLEAN
  /\ Known \subseteq Ids
  /\ \A id \in Known : client_data[id] \in Client \cup {Nobody}
  /\ server_queue \in Seq(Requests)
  /\ Len(server_queue) <= QueueSize
  /\ outbox \in Seq([to : Client \cup {Nobody}, msg : Answers])
  /\ pc \in [Client -> {"off", "send", "await_init", "top", "reading", "await_list", "await_entity",
                       "incoming_one", "incoming_all", "remove", "stopped", "crashed"}]
  /\ this_id \in [Client -> Ids \cup {-1}]
  /\ interrupt_flag \in [Client -> BOOLEAN]
  /\ num_clients \in [Client -> 0..Cardinality(Ids)]
  /\ \A c \in Client : request[c] \in Requests \cup {NoMsg}
  /\ queue \in [Client -> Seq(Answers)]
  /\ \A c \in Client : Len(queue[c]) <= QueueSize
  /\ typed \in [Client -> 0..MaxCommands]
  /\ pending \subseteq Client
  /\ handled \subseteq Client

\* The client has its id and is not about to tell the server that it stops.
Registered(c) ==
  /\ pc[c] \in {"top", "send", "reading", "await_list", "await_entity", "incoming_one", "incoming_all"}
  /\ this_id[c] # -1
  /\ pc[c] = "send" => request[c].type # "STOP"

\* As long as a client runs, its id in the server's registry is its own, in spite
\* of the ids that are given out again after a STOP and of the entries that
\* requests to unknown ids make up: what is sent to it goes to its queue, and no
\* process has two ids.
RegistryFaithful ==
  /\ \A c \in Client : Registered(c) => this_id[c] \in Known /\ client_data[this_id[c]] = c
  /\ \A i, j \in Known : client_data[i] = client_data[j] /\ i # j => client_data[i] = Nobody

\* The messages of mail for c; a message to somebody else is none.
Addressed(c, mail) == [k \in 1..Len(mail) |-> IF mail[k].to = c THEN mail[k].msg ELSE NoMsg]

\* What is on its way to c: in its queue, then what the server is sending.
Mailbox(c) == queue[c] \o Addressed(c, outbox)

IsText(m) == m.type \in {"TO_ONE", "TO_ALL"}

\* If m and n are texts of one author and one kind, then m was written first.
Older(m, n) ==
  IsText(m) /\ m.type = n.type /\ m.text[1] = n.text[1] => m.text[2] < n.text[2]

\* The texts of one author reach a reader in the order they were written, each
\* once, the unicasts as well as the broadcasts: what is in the reader's queue is
\* older than what the server is sending, and that is older than what still
\* waits in the server's queue.
TextsInOrder ==
  \A d \in Client :
    LET m == Mailbox(d) \o server_queue
    IN  \A i, j \in 1..Len(m) : i < j => Older(m[i], m[j])

Count(q, type) == Cardinality({k \in 1..Len(q) : q[k].type = type})

\* LIST accounts for its answer: while a client that nobody has interrupted
\* waits for entries, as many are on their way to it as it expects, and while it
\* waits for their number, its request or one answer is on its way, complete
\* with as many entries as the answer says; at other times none are.
ListingComplete ==
  \A c \in Client :
    LET m == Mailbox(c)
        entries == Count(m, "LIST_ENTITY")
    IN  Registered(c) /\ ~interrupt_flag[c] /\ ~server_flag =>
          CASE pc[c] = "await_entity" -> Count(m, "LIST") = 0 /\ entries = num_clients[c]
            [] pc[c] = "await_list" ->
                 \/ Count(m, "LIST") = 1 /\ [type |-> "LIST", num |-> entries] \in ToSet(m)
                 \/ /\ Count(m, "LIST") = 0 /\ entries = 0
                    /\ [type |-> "LIST", id |-> this_id[c]] \in ToSet(server_queue)
            [] OTHER -> Count(m, "LIST") = 0 /\ entries = 0

\* A text that is on its way to a client leaves it only when the client reads
\* it with INCOMING or removes its queue, or when a signal to the server ends the
\* send: a full queue delays the texts and loses none.
NoTextLost ==
  [][\A c \in Client :
       pc[c] \notin {"incoming_one", "incoming_all", "remove", "stopped"} /\ server_flag' = server_flag =>
         \A m \in ToSet(Mailbox(c)) : IsText(m) => m \in ToSet(Mailbox(c)')]_vars

\* Without signals and with room in the queues, every client that asks for an id
\* gets one.
InitAnswered == \A c \in Client : pc[c] = "await_init" ~> this_id[c] # -1

\* Without signals and with room in the queues, LIST comes to its end.
ListCompletes == \A c \in Client : pc[c] = "await_list" ~> pc[c] = "top"

\* A client whose handler has run does not stay in list() for ever.  The code
\* violates it: the interrupted msgrcv leaves the client's own id in the bytes
\* of the number of clients, and the server that has sent the SIGTERM sends no
\* entries any more.
InterruptedListEnds ==
  \A c \in Client : pc[c] = "await_entity" /\ c \in handled ~> pc[c] # "await_entity"
=============================================================================
