# A TLA+ verification of the chat client and server

The repository is a chat system in C: a server (`src/chat_server.c`), a client
(`src/chatclient.c`), a library of PDUs (`src/PDU.c`, `src/pdu_validator.c`), a
socket library (`src/socket_lib.c`) and a message queue (`src/msgqueue.c`). A
name server, which is not in the repository, keeps the list of chat servers.
This directory holds TLA+ models of the parts with state, the TLC
configurations that check them, and theorems checked by TLAPS.

* `tlasany M.tla` parses a module,
* `tlc -workers 2 -config X.cfg M` checks a run (the runs are below),
* `tlapm M.tla` checks the proofs of a module whose name ends in `Proofs`.

`PROJECT.json` maps every definition that models code to the lines it models.

## 1. The system

| Component | State | Operations | Hard behaviour |
|---|---|---|---|
| Listening thread (`listenForClients`) | the listening socket | check the size of the list, `accept`, start a thread | reads the size, then blocks in `accept` |
| Client threads (`client_thread_func`, one per connection) | a `client` struct of its own: id, name, hasJoined, fd | read a PDU; JOIN, MESS, QUIT; end of connection | every operation is several sections of `clientList_LOCK` |
| Client list (`clientList`, `MAX_CLIENTS` = 255 slots) | a *copy* of each member's struct | `append_Clientlist`, `remove_Client`, `setHasJoined`, `clientHasJoined`, `userNameExists`, `size_ClientList` | two copies of one struct; id 0 stands for "no slot" and "free slot" |
| Message queue (`msgqueue.c`) | linked list with front, rear and length | add, peek, pop, destroy | nodes freed and reused, stale rear pointer |
| Sender thread (`sender_thread_func`) | the item taken out | pop an item, send it to all members | holds `messageQueue_LOCK` while it takes `clientList_LOCK` |
| Stream reader (`handleByteStream`, `readExactly`) | a byte buffer, two counters | read op code, header, body | TCP has no PDU borders; lengths computed in two ways |
| PDU formats (`PDU.c`, `pdu_validator.c`) | none | create, validate, parse | padding, `char` lengths, 16-bit checksum |
| Name-server link (`register_Server`, `server_Alive`) | id given by the name server | REG, ALIVE about every 4 s, wait 5 s for an answer | late or lost answers, UDP |
| Chat client (`chatclient.c`) | socket, list of servers | choose a server, join, read and print, write | one `recv` taken for one PDU; writer blocked in `fgets` while the reader closes the descriptor |
| Test client (`testClient.c`) | as the chat client | as the chat client, with a writer that sends five messages and leaves | as the chat client |

Interaction. A client connects by TCP; `listenForClients` starts a thread that
reads its PDUs. A JOIN is announced to the members directly (`sendMessage`
under `clientList_LOCK`), the new client is appended to the list and is sent
PARTICIPANTS. A MESS or a leave is put in the queue; the sender takes it out and
sends it to all members. So a member's socket is written by three kinds of
threads, and the order of joins, messages and leaves is what the locks make it.
The client list and the queue are the only shared state; the descriptor table of
the process is shared too, without anyone having meant it.

What makes each part correct:

* *client list* - a slot has one owner, which knows it, and both copies agree; a
  freed slot keeps nothing; a second JOIN never gets a second slot; names are
  unique and come free again;
* *descriptors* - nobody's socket is closed by another thread; a member's socket
  is closed when its thread ends;
* *messages* - each session is seen in its order, without gaps; departures reach
  everybody who was told of the session; what is queued is delivered; a JOIN is
  answered;
* *queue* - it is a first-in first-out queue, no freed node is reached, none leaks;
* *stream reader* - the PDUs handled are the PDUs written, a received PDU is
  handled, a closed connection ends the thread, and nothing is written outside the
  buffer (the code keeps the first three only until the rest of a PDU comes in
  pieces, and the last not at all: see 6);
* *PDU formats* - what one side creates the other validates and parses to the same
  identity;
* *name-server link* - an ACK answers the request it belongs to; a server that
  runs stays registered;
* *client* - what the server sends is what the user sees; the program ends when
  the connection does.

## 2. The modules

| Module | Models | State and actions |
|---|---|---|
| `ChatServer` | listening thread, client threads, list, descriptors, queue, sender | below |
| `ChatServerMC` | - | symmetry of connections and names for TLC |
| `ChatServerClaims` | - | a property that a comment states and the server does not keep |
| `ChatServerProofs` | - | theorems about the list, the descriptors and what members know of each other |
| `ChatRoom` | - | what the server promises those who are connected: a room, with one line of what was said and each person's log |
| `ChatServerRoomProofs` | - | theorems that `ChatServer` implements `ChatRoom`, and about order |
| `SendPath` | the same threads, seen from the locks and the sockets they send on | below |
| `SendPathProofs` | - | theorems about `SendPath` |
| `MsgQueue` | `msgqueue.c` | `front`, `rear`, `length`, the nodes' `next` and `data`, the set of allocated nodes; one action per function, `msgQueue_destroy` one action per node freed |
| `Fifo` | - | what the queue promises: a sequence, put, get and look |
| `MsgQueueProofs` | - | theorems about `MsgQueue`, and that it implements `Fifo` |
| `StreamReader` | `client_thread_func`'s loop, `handleByteStream`, `readExactly` | the peer's position, the bytes in the socket, the buffer and its counters; one action per call of `recv` and per decision |
| `StreamReaderMC` | - | the streams to check |
| `StreamReaderProofs` | - | theorems about `StreamReader` |
| `PduFormat` | create, validate and parse of JOIN, PJOIN, PLEAVE, REG, the server's MESS, PARTICIPANTS and SLIST | lengths, counts, pads, the length byte, the checksum; one action per create, validate and parse function |
| `PduFormatMC` | - | the lists of members and servers to check |
| `PduFormatProofs` | - | theorems about `PduFormat` |
| `NameServerLink` | `alive_thread_func`, `register_Server`, `server_Alive`, UDP and the name server | the thread's place and id; datagrams to and from the name server, and in the socket; the ids the name server knows; one action per send, per read and per time-out |
| `NameServerLinkProofs` | - | theorems about `NameServerLink` |
| `ChatClient` | `chatclient.c` and `testClient.c`, both threads from `main` to the end | below |
| `ChatClientProofs` | - | theorems about `ChatClient` |

Two modules are shown to implement an abstract one, which they take by
`INSTANCE ... WITH`: `MsgQueue` implements `Fifo`, `ChatServer` implements
`ChatRoom`. The components meet at three narrow places, and each model takes there
what the neighbour's model shows: `ChatServer` uses the queue as the sequence
that `IsFifo` says it is and gets the whole PDUs that `InSync` says the reader
cuts; `ChatClient` reads any stream of valid PDUs, and `PduFormat` says that what
the server creates is valid; `SendPath` and `ChatServer` are two views of one
set of threads, the first with sockets that block and break and without names,
the second the other way round.

### ChatServer

`Conn` names a connection, the thread that serves it and the session. A thread's
`pc` says which section of the code comes next; `cl` is its own `client` struct;
`clientList` the table with the copies; `files` the descriptor table, mapping a
descriptor to the connection it reaches, so that `close()` and `accept()` (the
lowest free descriptor) can be followed; `inbox` is all that was written to a
connection. Every section of `clientList_LOCK` is one action, because the code
holds no other lock across two of them. JOIN is eight actions: `RecvJOIN` (the
search of `clientHasJoined`), `clientHasJoined` (the flag, read after the
unlock), `checkUserName`, `AnnounceJoin`, `AppendClient`, `MarkJoined`,
`ComposeParticipants`, `sendParticipants`. MESS is `RecvMESS` and `handleMESS`.
The end of a session is `RecvQUIT`, `RecvBad`, `RecvEOF` or `BadFd`, then
`sendQUIT` where the code sends one, `handleQUIT` (remove and close) and
`QueueLeave`, or `killConnection` for a client that had not joined. The sender
is `msgQueue_pop` and `SendItem`; while `sending` is not empty it holds
`messageQueue_LOCK`, and `msgQueue_add` waits.

What is abstracted:

* sends do not block and fail only on a closed descriptor (`SendPath` is about
  the rest);
* PDUs name the session they are about instead of the identity string, and have
  no time stamp;
* the message of a MESS is its number within the session, and a PLEAVE has the
  number after the last message's, so order and gaps can be told;
* `accept` fails when there are no descriptors left; with `AcceptErrors` it may
  fail otherwise too (a connection aborted in the queue, no memory), in any state;
* descriptor 0 is open at the start (standard input); descriptors 1 and 2, the
  listening and the UDP socket are never closed by a thread and are left out;
* the name in a new `client` struct is uninitialised in the code; it is taken as
  empty, which only matters to the text of the PLEAVE of a client that never
  joined;
* `poll`, its time-out, and logging are left out; a `poll` error ends the process.

`AtRest` (and `Ended` in `StreamReader`) is the step of a system in which
everybody waits for a peer. It is a stutter, and makes TLC's deadlock check
report exactly those states in which a thread has work and nobody can move.

### ChatRoom

What is left of the server when slots, ids, descriptors, locks and the second
thread are forgotten. A person is away, outside, announced, in, leaving or left
(`standing`); what is said goes into one `line`; `Hear` takes the head of the
line and puts it into the log of everybody inside. Announcements, the list of
those inside and refusals do not wait in the line. `ChatServer` maps to it
(`StandingOf` and the definitions after it): a member is inside from
`AppendClient` until `handleQUIT`; the line is `sending \o messageQueue`; the
log is the inbox; a slot is nowhere to be seen. So a step of the server that
broadcasts over the table must reach exactly the persons inside, once each.

The room promises no more than the server keeps, and its weak points are the
room's too: announcing is one step and entering another; who found the table
full stays announced, may speak and is given the list (`Say`, `List`,
`Welcome`), but hears only what is sent to it alone; who was never inside may
leave with a word (`Bye`). The log is kept only of persons in `hearing`, those
whose descriptor is not 0: descriptor 0 may be closed under its owner, see 6.

### SendPath

A handler thread's `pc` follows the same handlers as in `ChatServer`; what is
added is who holds `clientList_LOCK` (`listLock`), where the holder's loop over
the slots is (`slot`), and that the sender holds `messageQueue_LOCK` from
`msgQueue_pop` to `EndItem` (`sender`). `sendMessage` is one action per turn of
its loop, since every turn may block: `sendto_TCPSocket` has no step towards a
client whose receive buffer (`Room`) is full. A client's end of a connection
(`life`) is open, ended in order, reset, or gone, which is after the reset has
been reported once; a send to one that is gone raises SIGPIPE, which nobody
ignores, and the server is killed. `Reads`, `Writes` and `Ends` are the
client's; a client may end at any time, also while a broadcast blocks on it.

A client writes what it likes, up to `MaxPdus` PDUs: a JOIN, a second one, a
message before it has joined, a QUIT. `clientHasJoined` and `checkUserName` are
sections of `clientList_LOCK` of their own, after which the thread answers with
no lock held (`SendAlone`): a refusal of the name, which is two sends
(`RefuseName`), or a QUIT before `handleQUIT` (`sendQUIT`), where every send may
block or break. A `recv` on a reset connection fails (`RecvFails`): the code does
not tell -1 from a byte, and acts on a pointer it has not set, so the server
crashes or goes on in any of the handlers.

What is abstracted: of messages only how many there are in the queue and in
each socket, and of names whether one is taken, which it may be if anybody is a
member. The table has room for all clients (the other case is `ChatServer`'s). A
section of a lock that sends nothing is one action.

### MsgQueue

Nodes are a finite heap: `malloc` takes any node that is not allocated, so TLC
tries every reuse. `chain` is a history variable, the nodes added and not taken.
`msgQueue_destroy` frees node by node, reading the next pointer before each free.
The `destructor` that `msgQueue_new` accepts is left out: the server passes NULL.

### StreamReader

A byte is known by its place: the number of the PDU in the stream and its offset
in that PDU; `Scripts` is the set of streams the peer may write. A segment ends
after any byte. `buf` is indexed from 0 as in the code; a place `readExactly` has
skipped is `Unset`; a byte written past the end of the allocation is kept as if
there were room (`StaysInBuffer` says whether there is). What follows a PDU with an
unknown op code is not followed (`handleByteStream` returns an uninitialised
pointer there). `recv()` of 0 bytes waits, as TCP sockets do on Linux; a `recv()`
that fails is `SendPath`'s.

`readExactly` may return more or fewer bytes than the field has, and from then on
the thread reads the stream at the wrong place. The history variable `lost` keeps
the number of the first PDU this happened to, or that had an unknown op code. The
loop itself is as in the code and knows nothing of `lost`; the properties use it
to say how far they go: all PDUs before it.

### PduFormat

A name and a text are their lengths; `sum` is the sum of a MESS's bytes before
the checksum is put in. A client list (`roster`) is where each member's name
ends when the names follow one another, which is what `PARTICIPANTS` is made of;
a list of servers is the lengths of their names. `Char` is the signed 8-bit
`char` of the length and count fields, `UnsignedChar` the cast back where the
code has one, `Checksum` the 16-bit sum of `checkSumCalculator`. `RecvSLIST` is
the one `recv` of the client's `readSLIST`: any part of the list from its
beginning.

From 128 on a length is negative. A PDU with such a length is `Made` as usual
where header and pads still find room, with the negative length in it; otherwise
it is "dead" (an allocation or copy of a negative size) or "garbled" (pads
written over the length). `ReadName` of a negative length is "dead". In a list of
servers, whose layout is the name server's (`EntryEnd`, names of up to 255 bytes),
`validate_SLIST` goes through the entries by the signed lengths: up to and
including the first long name (`FirstLong`) the model follows it, and behind that,
where the index has gone back into bytes already read, the rest may pass or not.
`parse_SLIST` then ends "garbled", with the names before the long one. A stage
ends at "read", "refused", "dead" or "garbled". REG has no validator and is parsed
as it comes.
The deadlock check is off in this run only: the way of one PDU ends.

### ChatClient

`main` is the first thread, which starts up (`setupClientConnection`,
`sendGETLIST`, `readSLIST`, `chooseServerConnection`, `sendJOIN`) and then runs
`whileOnline`; `writer` is the second, which runs `clientWriteEnd`; `robot` says
that it is `testClient`'s instead, which asks no user. `conn` is the descriptor
both use: open, shut down or closed; `peer` who it reaches. The k-th PDU of the
server is the pieces 2k-1 and 2k of the stream, so a segment may end inside a
PDU and run over its end: `Arrives` brings one piece, and `Recv` takes all there
is, up to the buffer. A buffer is `Valid` if it holds exactly one PDU, which is
what the validators' size checks come to. Which op code the PDU has matters
only to what happens after it (go on, shut down, close, exit), so there is one
action per case function and each may be the one.

`send()` does not block here. On a socket that was shut down, or never
connected because `connect()` failed and nobody looked, it raises SIGPIPE; after
a reset it does that or returns -1. The user types lines with text, empty lines
or ends the input (`fgets`), or falls silent. What the program prints, and the
reading of the command line, are left out.

## 3. The runs

| Run | Checks | Shows |
|---|---|---|
| `ChatServerTable` | `TypeOK`, `SlotOwnership`, `OwnSocket`, `SocketReleased`, `NameReuse` | three clients compete for two slots, four descriptors and one name, joining, leaving, failing and dropping their connections, with second JOINs while slots change hands |
| `ChatServerMessages` | `SenderFifo`, `DeparturesReachMembers`, `Acquainted`, `IsRoom` | the server is a room; order of what a member sees; no departure is lost; who knows of whom |
| `ChatServerLive` | `ItemsDelivered`, `JoinAnswered` | a message or a leave reaches every member that stays; a JOIN is answered |
| `SendPath` | `TypeOK`, `OnlyClientsBlock`, `ListStays`, `HandlersReturn`, `LocksReleased` | the threads never all wait for each other; sends that block under one lock or both hold nobody up for ever, as long as clients read or end |
| `MsgQueue` | `TypeOK`, `Linked`, `IsFifo` | the pointers are a list, the list is a queue |
| `StreamReader` | `TypeOK`, `InSync`, `PduHandled`, `EndsWhenClosed` | wherever segments end, the stream is cut into the PDUs that were written, until `readExactly` has lost its place |
| `PduFormat` | `TypeOK`, `RoundTrip`, `RosterCarried`, `ServersCarried` | names up to 127 bytes, lists up to 255 members and lists of servers survive create, validate and parse; longer names never come out as others |
| `NameServerLink` | `TypeOK`, `AnswersMatch`, `StaysRegistered` | late, lost and copied datagrams and forgotten ids do not keep the server unregistered |
| `ChatClient` | `TypeOK`, `SentInOrder`, `ShownInOrder`, `NothingLost`, `OnlyUserHoldsUp`, `EndsWithNextLine` | the two threads over one socket, with segments that end anywhere and a connection that ends anywhere |
| `ClaimUniqueNames` | `UniqueNames` | violated: see 6 |
| `ClaimStaysInBuffer` | `StaysInBuffer` | violated: see 6 |
| `ClaimSendReturns` | `SendReturns` | violated: see 6 |

Bounds. The interesting cases of the client list need a full table with a client
too many (three clients, two slots), a freed slot taken over by another client
while a third still acts on its number (three clients), a descriptor closed
and handed out again (`MaxFd` = 3: four descriptors, the first open at the start),
an append that finds the table full (the size check counts members, so a third
client is accepted before the first two have appended), a name wanted by more than
one, and a second JOIN (`MaxJoins` = 2) when all that has happened.
All of them occur in `ChatServerTable`, where clients also leave by QUIT, by an
invalid PDU or by dropping the connection, and `accept` fails in any state
(`AcceptErrors`; in the other runs it fails only when no descriptor is left, which
their bounds rule out, as a connection that was never made has no messages).
Messages are left out there, and states are told apart by
`TableView` only: what has been written to a connection, what the items in the queue
say and the roster being sent are never read by a step that changes the table, the
descriptors or a thread's place, and no property of that run but the types
speaks of them. (The types of those are checked in the states TLC keeps, and
proved for all.) Order, delivery and
acquaintance are about pairs (a session and the member that hears it), so two
clients are enough in the others; with one message and a leave a session has two
items, the fewest that can be out of order. `ChatServerLive` has one name: a
second client is refused, or passes the search together with the first, after
which its steps come in every order with the first one's (the first may even be
done with joining before the second goes on), which is what two names give.
`MaxMess`, `MaxJoins` and `MaxFd` bound what the peers do, and nothing in the
properties depends on their values; the theorems of section 5 hold for all of
them.

`SendPath` needs a client on which a broadcast blocks and another whose handler
waits for the lock meanwhile, and either of them to be the one that blocks: two
clients, a buffer of one PDU (`Room` = 1, so that the second already blocks) and
two PDUs each: a JOIN and what comes after it (a message, a leave, a second
JOIN), or what comes too early and a JOIN. A client may end after any of them. The queue needs three nodes for
a node that is neither first nor last. Streams have up to three PDUs, cut after
any byte: what `handleByteStream` keeps does not outlive a PDU, so a PDU before, one after and
the one in question are enough; `ClaimStaysInBuffer` takes PDUs whose
rest is longer than the 10 bytes the buffer has to spare. `PduFormat`'s lengths and sums are those next to
the boundaries of the pads (multiples of 4), of `char` (127, 128, 255) and of
the checksum (255, 65535 and their multiples); its client lists are all those of
up to three short names, empty ones included, and those with 126 to 129, 254 and
255 members; its lists of servers have up to two entries with names on both sides of
127 bytes, cut after every byte.
`NameServerLink` is bounded by what goes wrong only (`MaxTrouble` = 3: enough for
a late answer, a copy of another and an id forgotten while both are on their
way); datagrams, ids and registrations are then finite in number by themselves.
`ChatClient` has three PDUs of two pieces and a buffer of four pieces, so that
one `recv` may return part of a PDU, one, one and a half, or two of them, and
leave the rest; one line of text before the session's end; two messages of the
test client; a list of up to two servers.

Fairness. `FairSpec` of `ChatServer` assumes weak fairness of each thread's own
steps (`Handles`) and of the sender: threads are scheduled, the mutexes are not
held for ever. Weak fairness of a step that waits for `messageQueue_LOCK` is
enough because whoever holds that lock has a fair step that gives it back, and
because an instance has finitely many items: that a mutex is never refused for
ever to a thread that waits while others keep taking it is a property of the
pthread implementation which the instance does not depend on, and endless
traffic would. No fairness is assumed of the peers, `Arrives` and `Accept`: a
client may fall silent for ever. `SendPath` assumes the same of the threads, and
that a client that has not ended reads what it is sent (`Reads`), which the
client's `whileOnline` does without waiting for anything else; without it one
client stops the server, since `send()` has no time-out. That a client writes or
ends is not assumed. `StreamReader` assumes that the reader runs; the peer need
not write or close. `NameServerLink` assumes that the thread runs, that the name
server answers and that what is not lost arrives; since trouble is bounded,
`StaysRegistered` says what happens once it is over. `ChatClient` assumes that
both threads run and that what was written arrives (`Arrives`; a reset takes it
along). The user and the server owe nothing; only `EndsWithNextLine` is about a
user who does something in the end, and says so in its premise.

## 4. What the properties say

* `SlotOwnership`: see 5. It could be wrong at every place where a thread acts
  on a slot number after the lock was released.
* `OwnSocket`: `remove_Client` closes the descriptor it finds in the slot it
  clears, also for threads with id 0, which match a free slot: its descriptor is
  0, so only descriptor 0 is hit.
* `SenderFifo`: messages of one session pass two locks and a second thread, and
  arrive in order; its PLEAVE comes last.
* `IsRoom`: every member hears everything that is said while it is one, once, and
  all in one order; a client outside hears nothing of it. The table with its
  copies, the search for a free slot and the queue between two locks must
  together come to that.
* `DeparturesReachMembers`: the PARTICIPANTS PDU is composed under the lock and
  sent after it; whoever is in it and leaves in between is announced, because
  the new client is already in the list. A client whose first JOIN found the
  table full is left out (`njoin[k] = 1`): it has been sent the list of members
  but is not in it, so departures pass it by until a second JOIN finds a slot;
  see 6.
* `Acquainted`: PJOIN, append and PARTICIPANTS are three sections of the lock, so
  of two clients that join together one may never hear of the other; it takes
  the order of the three to make sure that this cannot happen to both.
* `NameReuse`: the search for a name looks at free slots too; it matters that
  clearing a slot clears the name.
* `InSync`, `PduHandled`, `EndsWhenClosed`: `handleByteStream` computes what is left
  of a PDU from its header, and several PDUs, or parts of them, may be in the
  socket at once. The PDUs handled are those written, one by one, and none that has
  arrived is left, until `readExactly` has returned more or fewer bytes than it
  should (`lost`). That it can is its own fault and not the network's, see 6: what
  the properties say is that this is the only way to go wrong.
* `AnswersMatch`, `StaysRegistered`: answers carry nothing that tells which
  request they belong to, and the thread never empties its socket, so one late
  answer shifts all later ones. The first property bounds the shift by the
  number of strays; the second says that the server nevertheless ends up with an
  id the name server knows, because each REG and ALIVE brings an answer, old
  ones run out, and a NOTREG about the present id is read in the end.
* `RoundTrip`: pads, length bytes and the checksum agree between `PDU.c` and
  `pdu_validator.c`, which compute them with code of their own. Beyond 127 bytes,
  where the length is negative on both sides, an identity is lost, but no other
  one comes out: the validator refuses the size, or an allocation of a negative
  size fails and is written to.
* `RosterCarried`, `ServersCarried`: the count of members passes through a
  `char`; names are told apart by the pads between them, so the list can be
  read only if none of them is empty, and the validator refuses it exactly then.
  A list of servers is taken from one `recv` and must be refused unless it is
  complete. It is, unless a name has more than 127 bytes, see 6; then what precedes
  that name is still right.
* `ListStays`: a broadcast reads a slot's descriptor and blocks on it. Were a
  slot freed or a descriptor closed meanwhile, it would write to another client.
* `OnlyClientsBlock`: handlers take `clientList_LOCK` with nothing held, the
  sender takes it inside `messageQueue_LOCK`, and a join and the sender send
  before they give it back. Whenever a thread has work, one of them can take its next step or is in
  a send to a client that does not read: what the deadlock check cannot tell,
  since the clients can always do something.
* `HandlersReturn`, `LocksReleased`: the sender takes the second lock with the
  first one held, handlers send with one lock held, and every one of these sends
  may block. What unblocks them is that clients read without the server's help,
  or end.
* `ShownInOrder`, `NothingLost`: the client takes what one `recv` returns for one
  PDU. Two together, or part of one, are refused whole, so what is lost is not
  one PDU but any number of them: the session must not go on after that. It does
  for a while, because a refused PJOIN or PLEAVE only shuts the socket down and
  what has arrived is still read; so PDUs can be missing in what is shown after
  that, but they are never out of order.
* `SentInOrder`: two threads send on one descriptor that one of them closes, and
  a connection to the chosen server that failed must not send the JOIN to the
  name server, which the descriptor reached before.
* `OnlyUserHoldsUp`, `EndsWithNextLine`: the program waits for its writer, which
  may be in `fgets` when the connection ends. It may wait for one more line, and
  for no other reason; the test client ends by itself.

## 5. What is proved

All for every value of the constants that the modules' assumptions allow:
`ServerAssumption` (slots are at least one; the special values are not
connections), `PathAssumption` (besides, as many slots as clients),
`FormatAssumption` and `ListAssumption` (lengths as the types of the code allow
them), `ReaderAssumption` (the streams are sequences of PDUs with any lengths),
`ClientAssumption` (the buffer holds one PDU at least), `QueueAssumption`
(`Null` is not a node, `NoData` not a datum) and `LinkAssumption` (the number of
strays is a natural number).

| Theorem | States |
|---|---|
| `TypeCorrect` | `Spec => []TypeOK` of the server |
| `SlotsOwned` | `Spec => []SlotOwnership` |
| `SocketsKept` | `Spec => []OwnSocket` |
| `SocketsReleased` | `Spec => []SocketReleased` |
| `NamesReusable` | `Spec => NameReuse` |
| `DeparturesArrive` | `Spec => []DeparturesReachMembers` |
| `ServerIsRoom` | the server implements `ChatRoom` |
| `SendersInOrder` | `Spec => []SenderFifo` |
| `MembersAcquainted` | `Spec => []Acquainted`, if no client has the empty name |
| `PathTypes`, `ListIsStable` | `Spec => []TypeOK` and `Spec => ListStays` of `SendPath` |
| `ThreadsGoOn` | `Spec => []OnlyClientsBlock` of `SendPath` |
| `QueueTypes`, `ListLinked` | `Spec => []TypeOK` and `Spec => []Linked` of the queue |
| `RefinesFifo` | the queue implements `Fifo` |
| `ReaderTyped` | `Spec => []TypeOK` of the stream reader |
| `ReadsInSync` | `Spec => []InSync` of the stream reader, wherever segments end |
| `FormatTyped`, `IdentityCarried` | `Spec => []TypeOK` and `Spec => []RoundTrip` of the PDU formats |
| `RosterRead`, `ServersRead` | `Spec => []RosterCarried` and `Spec => []ServersCarried` of the PDU formats |
| `LinkTypes`, `AnswersMatched` | `Spec => []TypeOK` and `Spec => []AnswersMatch` of the name-server link |
| `ClientTyped`, `ShowsInOrder`, `SendsInOrder` | `Spec => []TypeOK`, `Spec => ShownInOrder` and `Spec => []SentInOrder` of the client |

`SlotOwnership` is not inductive by itself: `AppendClient` copies the thread's
`hasJoined` into the table, so the entry is right only if the flag was set by
then. The invariant proved is `OwnershipInv`: `TypeOK`, `SlotOwnership` and
`FlagSetBeforeAppend` (a thread at the append has `hasJoined` set). `FreeSlotIsClean`
and the fact that a searching thread's `found` slot is its own if it has a
number (`NoSlotBeforeAppend`) are parts of `SlotOwnership` because each is
needed for the others: a second JOIN is refused because the member's own slot is
found and its flag is set. `OwnSocket` needs `OwnershipInv` (the descriptor in a
slot is its owner's) and, for a free slot, that its descriptor is 0; its
invariant `SocketInv` adds `Sockets`: besides `OwnSocket`, that no connection is
reached by two descriptors (`OneDescriptor`), and that a member's descriptor is
closed as soon as its slot is given back (`ReleasedWithSlot`), which gives
`SocketReleased`. `NameReuse` is an action
property that follows from `FreeSlotIsClean`.

`DeparturesReachMembers` needs `SocketInv` (a member's descriptor reaches its
own client, so that a broadcast writes to its inbox), `ThreadInv` (where a
thread can be with how many JOINs and with which fields of its own set) and
`Untold`: before a client's first append nothing in its inbox tells it of
anybody, so that what it is told is announced when it is in the list already.
`DepartureInv` is their conjunction with the property. The steps that matter
are three: a departure of a session in somebody's list (it is queued, or its
thread is about to), the sender's step (what leaves the queue goes to every
member's inbox, lemma `Broadcast`) and a member being told of a session (which
is in the list at that moment, or was when the roster was composed, which is
after the append).

`Acquainted` is strengthened to `Met`, which speaks of clients from the moment
their roster is composed instead of when it has been sent, and counts the
composed roster as told. The later of the two appends decides: its roster is
composed when both are in the list. Without a member of empty name every roster
is sent, which is where the theorem's assumption `NoName \notin Names` comes in
(`Named`); the run has no empty name either.

That the server is a room has one lemma per step of the server, which says which
step of the room it is or that nobody notices. The invariant is `RoomInv`: that
of `DeparturesReachMembers` with `Flagged` (a thread past its announcement has
its flag set, which is how an announced person is known) and `Fresh` (nothing has been written to a
connection that is not accepted yet). A broadcast reaches a member through its
slot (`ReachOnce`: through no other) and nobody else (`ReachOwner`), which is
`OwnershipInv` and `OwnSocket` again; a thread's own send reaches its person
because its descriptor is still its own.

`SendersInOrder` is then proved of the room and not of the server. Its invariant
`Order` says of each person that what somebody inside has heard, followed by the
line, is in order and ends with the last thing the person said; saying the next
extends it, hearing moves its border, and what is sent past the line is not part
of it (`SilentBetween`). Those who have not entered have heard nothing from the
line, and those who have left keep a beginning of it.

`ListStays` holds because `listLock` is held while `slot` is inside the table
(`LoopUnderLock`, with the types `PathInv`) and every action that changes the
table or closes a descriptor waits for that lock.

`OnlyClientsBlock` follows a lock that is held to its holder, who is in a loop
and sends or can take the next turn (`Holders`). If no lock is held, the only
thread that could still wait is one that is to append and finds the table full;
it is not in the table itself (`JoinsOnce`), the others have one slot each at
most (`OneSlot`), and there are slots for all, so one is free (`FreeSlot`, by the
pigeonhole principle). Together with `PathInv` this is `LockInv`.

`InSync` is about what is taken out of a stream of PDUs of any lengths, one behind
the other. No sum of lengths is needed: `Contiguous` says of each byte in the
socket only what follows it, up to the beginning of the next PDU, and is kept when
the peer writes (`ArriveContiguous`) and when the thread takes bytes from the
front (`Drop`). `ReaderAt` then says, as long as the thread has not lost its
place, that the buffer holds the beginning of one PDU, up to where the field being
read ends at most, and which byte comes next; `Ahead` turns that into the bytes a
`recv` returns. A turn of `readExactly` ends within the field, at its end, or
past it, and in the last case, or if the loop stops within the field, the place is
lost. `NextPdu` counts the PDUs: the one read is the one after those handled.

`Linked` is inductive together with `TypeOK` (`QueueInv`). The refinement maps
the queue to the data along the chain (`Contents`); each action is a `Fifo` step
or leaves the contents alone, `FreeFront` and `EndDestroy` included.

`RoundTrip`'s invariant `FormatInv` says what is on the wire from the creation
on (`Laid`: size, length byte and checksum as functions of the input) and that
of names up to 127 bytes only a MESS whose bytes sum up to 65535 is refused.
For longer ones it is the size that the validator compares with the negative
length. The only arithmetic is modulo 4, 255 and
65536, in lemmas of their own.

`RosterCarried`'s invariant `RosterInv` says what is on the wire and that a list
passed the validator exactly if no name in it is empty; the main lemma is that
the ends of the names are as many pad bytes as there are members, and no two of
them adjacent, exactly then. `FormatTyped` uses the same invariant.

`ServersCarried` compares how many bytes have come with `EntryEnd`, a recursive
function that sums up the sizes of the entries. That such a function exists and
increases is proved by way of a least counterexample (`LeastNatural`, from the
well-foundedness of finite sets, because an induction over a formula is not to be
had); then the bytes that have come reach the end of every entry, as
`validate_SLIST` requires, exactly if they reach the end of the last
(`EntriesInOrder`). Of a list with a long name the same is said of the entries
before the first such name, whose headers and names the index meets in their order.
The invariant is `ServersInv`.

`AnswersMatch` bounds how far behind its answers the thread can be. The proof's
`LinkInv` counts: what is on its way, to, from or in the socket, is at most the
strays and one more while the thread waits (`Behind`), and as long as there are
no strays everything on its way belongs to the present request (`Datagrams`).

`ShownInOrder` follows from `ReadInv`: the last PDU shown lies before the pieces
in the buffer (`Behind`), and as long as the connection was not given up the
pieces before the buffer are exactly the PDUs shown (`InStep`). `ClientTypes`
adds the rest of the types.

`SentInOrder` needs to know where the socket leads whenever something is about
to be sent (`Connected`), and what has been sent by the time the writer starts
and while it runs (`Progress`): the JOIN, unless the connection was reset
before, in which case nothing can be sent any more.

Only model-checked are the liveness properties (`ItemsDelivered`, `JoinAnswered`,
`HandlersReturn`, `LocksReleased`, `PduHandled`, `EndsWhenClosed`,
`StaysRegistered`, `NothingLost`, `OnlyUserHoldsUp`, `EndsWithNextLine`): fairness
and what a step enables are out of the prover's reach. Every invariant of the
runs and every property of single steps is proved, and so are both refinements.
One theorem has a hypothesis, `MembersAcquainted`; the constants of its run meet it,
and TLC refutes the property without it: two clients whose PJOINs go out before
either append, one of them under the empty name, never hear of each other, since
the PARTICIPANTS of the second is refused (four clients and two slots show it).

## 6. Divergences between comments and code

Shown by a run, with the trace TLC gives:

* `ClaimUniqueNames`: `checkUserName` searches the list in one section of the
  lock, `handleJOIN` appends in another; two clients join with one name.
* `ClaimStaysInBuffer`: `readExactly` allocates `bytes_to_read + 10` bytes and calls
  `recv` for all of `bytes_to_read` again when a part has come, at the index it has
  reached: two MESS PDUs of 20 bytes, the rest of the first in two segments, put 23
  bytes into 22, the last 3 of them the second PDU's (`socket_lib.c:212-217`; the
  comment at 196-199 says "exactly the specified nr of bytes"). The loop compares
  a counter that includes the header with a number that does not
  (`socket_lib.c:219`), so with other segments it returns before the PDU is
  complete; `lost` marks both.
* `ClaimSendReturns`: `sendto_TCPSocket` returns -1 on error, says its comment;
  a send to a client whose reset has already been reported raises SIGPIPE
  instead, and the server ends with it. In the trace a client ends with its
  PARTICIPANTS unread, the handler's `recv` reports the reset, and the QUIT the
  handler sends next raises the signal.

Allowed by the models as well, and met while writing them:

* PJOIN, append and PARTICIPANTS are three sections: of two clients that join
  together one may never be told of the other (`chat_server.c:401-412`);
  `Acquainted` is what remains true.
* A thread without a slot calls `remove_Client(0)`, which closes descriptor 0
  with the first free slot; `accept` may then give 0 to a later client, and the
  next such call closes that client's socket (`chat_server.c:106`).
* A client whose append failed because the table was full is sent the list of
  members nevertheless; departures pass it by, and it learns of them only by
  what a second JOIN tells it (`chat_server.c:408`).
* The client does not end when the connection does, but with the next line
  (`chatclient.c:550`; the comment at 266-267 says "connection is closed and
  program exists").
* The number of the chat server is compared with `>`, so one past the last is
  taken (`chatclient.c:483`); a letter makes the loop turn for good
  (`chatclient.c:481`); that `readSLIST` failed, or `connect()`, goes unnoticed.
* A PJOIN or PLEAVE that is refused shuts the socket down, of which the reading
  loop is not told; a message typed then raises SIGPIPE (`chatclient.c:392`).
* `parse_MSG` copies a text with `strcpy` from a buffer that has no room for the
  terminating zero (`PDU.c:597`, `613`); `PduFormat` takes the text as carried,
  as `testsuite.c` expects.
* `clientHasJoined` of a client that has not joined reads the flag of a slot
  that another client may have taken: a first JOIN is refused as a second one
  (`chat_server.c:41`; the comment at 28-32 promises thread safety).
* The size of the list is checked before `accept` and `handleJOIN` ignores a
  failed append: more than `MAX_CLIENTS` clients join, the last without a slot,
  who talk and hear nothing (`chat_server.c:313`, `408`; `PDU.h:35`).
* Clients that never joined are announced as leaving (`chat_server.c:433`).
* An empty identity is refused only while a slot is free, since a free slot has
  the empty name; once in, it makes every PARTICIPANTS invalid
  (`chat_server.c:361`).
* A refused client's socket is not closed by the server (`chat_server.c:522`).
* `msgQueue_peek` of an empty queue leaves the caller's pointer as it was
  (`msgqueue.c:57`; the comment at 42-46 says NULL).
* A JOIN without an identity is handled only when a further byte arrives, and a
  connection closed inside a PDU leaves the thread looping (`socket_lib.c:219`;
  `chat_server.c:571-573`).
* ALIVE goes to a fixed host and port, REG to the ones of the command line
  (`chat_server.c:217`, `225`; the comment at 250-253 says the registration is
  kept). `NameServerLink` takes both for one host.
* `recv` returning -1 is not told from a byte that was read: after a reset the
  thread goes on with a pointer `handleByteStream` has not set, and the server
  crashes or any handler runs (`chat_server.c:603-617`; `RecvFails`).
* The length of a server's name, 255 at most (`PDU.h:33`), is a signed `char` in
  `validate_SLIST` (`pdu_validator.c:70`) and in `parse_SLIST`: behind a name of 128
  bytes or more the index goes back, a part of the list may pass and the whole of
  it may be refused, and the name itself is read as empty. `ServersCarried` says
  what remains true.
* A MESS whose bytes sum up to 65535 is created with a checksum its own
  validator refuses (`PDU.c:712`; the comment at 702-704), and identities of 128
  to 255 bytes are not carried (`PDU.c:260`; `PDU.h:32`).

## 7. Plan

Done, in the order of importance: `ChatServer` with `ChatRoom`, `MsgQueue` with `Fifo`,
`StreamReader`, `SendPath`, `ChatClient`, `NameServerLink`, `PduFormat` for all
PDUs of variable length. Next:

1. `NameServerLink` with two name servers, the one of the command line and the
   fixed one of `server_Alive`.
2. Proofs: what `ChatServer` and `SendPath`, two views of one set of threads, have
   in common (an abstract specification that both implement).

Not modelled and why:

* the PDUs of a fixed four bytes (ACK, NOTREG, ALIVE, GETLIST, QUIT): they have
  no length to get wrong; their meaning is in `NameServerLink`, `ChatClient` and
  `ChatServer`;
* setting up sockets and resolving names (I/O without state of its own); whether
  it succeeds is a choice where it matters (`setupClientConnection`,
  `connectToSpecificServer`, `AcceptFails`);
* printing, colours, time stamps and the conversion of the command line;
* `testsuite.c`, which tests the PDU functions, build files and scripts;
* memory exhaustion: `calloc` and `malloc` do not fail, `realloc` keeps what was
  there.
