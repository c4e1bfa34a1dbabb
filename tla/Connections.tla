---------------------------- MODULE Connections ----------------------------
(***************************************************************************)
(* The client connections and the event loop around them: the listening    *)
(* socket (crates/lumalla_wayland_protocol/src/lib.rs), each client's      *)
(* Reader and Writer (buffer.rs, client.rs), and the iterations of         *)
(* run_event_loop: poll, handle the events, flush the clients (app.rs).    *)
(*                                                                         *)
(* mio registers everything with edge-triggered epoll: a token is reported *)
(* once after something happened to it, or after it was registered anew    *)
(* while it was ready.  Sockets and buffers hold words.  What a request    *)
(* does is left to the other modules: here it succeeds or fails, and       *)
(* handlers write events.                                                  *)
(***************************************************************************)
EXTENDS Naturals, SequencesExt

CONSTANTS
  Client,
  Listener,      \* WAYLAND_SOCKET_TOKEN
  Other,         \* the tokens whose handlers only write events: libinput, the channel
  NoToken,
  MaxMessage,    \* MAX_MESSAGE_SIZE, in words
  FlushFds,      \* descriptors that make the writer flush
  MaxFds,        \* MAX_FDS_IN_CMSG
  InSize,        \* words that a socket holds on the way to the compositor
  OutSize,       \* words that a socket holds on the way to the client
  MaxIn,         \* bound: words that a client sends
  MaxOut         \* bound: words of the events written for a client

BufferSize == 2 * MaxMessage

ASSUME TokenAssumption ==
  /\ Listener \notin Client /\ Other \notin Client \cup {Listener}
  /\ NoToken \notin Client \cup {Listener, Other}
ASSUME SizeAssumption ==
  /\ MaxMessage \in Nat \ {0} /\ InSize \in Nat \ {0} /\ OutSize \in Nat \ {0}
  /\ FlushFds \in Nat /\ MaxFds \in Nat /\ FlushFds <= MaxFds
ASSUME ConnBoundsAssumption == MaxIn \in [Client -> Nat] /\ MaxOut \in [Client -> Nat]

VARIABLES
  phase,       \* where the iteration of the event loop is
  ready,       \* epoll: the tokens to report
  events,      \* the reported tokens that are not handled
  handling,    \* the token whose handler runs
  toFlush,     \* the clients that flush_clients has not visited
  conn,        \* new, backlog (of the listener), open (in connected_clients) or gone
  hungUp,      \* the clients that have closed their end
  asked,       \* words that the client has sent
  inbox,       \* socket: words of requests, TRUE the last of a request
  unread,      \* Reader.buffer
  buffer,      \* Writer.buffer: words by their number
  fds,         \* Writer.fds: the number of the last word of the event they are for
  failed,      \* Writer.last_err is set
  watched,     \* the clients registered as WRITABLE
  outbox,      \* socket: words on the way to the client, with descriptors
  written,     \* history: words and descriptors of the events written
  got          \* history: words and descriptors that the client received

loopVars == <<phase, ready, events, handling, toFlush>>
inVars == <<asked, inbox, unread>>
outVars == <<buffer, fds, failed, watched, outbox, written, got>>
connVars == <<loopVars, conn, hungUp, inVars, outVars>>

Token == Client \cup {Listener, Other}
Phase == {"poll", "events", "flush", "crashed"}
Stream == [words : Seq(Nat), fds : Seq(Nat)]
Message == [word : Nat, fds : Seq(Nat)]

ConnTypeOK ==
  /\ phase \in Phase
  /\ ready \subseteq Token /\ events \subseteq Token
  /\ handling \in Client \cup {Other, NoToken}
  /\ toFlush \subseteq Client /\ hungUp \subseteq Client /\ watched \subseteq Client
  /\ conn \in [Client -> {"new", "backlog", "open", "gone"}]
  /\ failed \in [Client -> BOOLEAN]
  /\ asked \in [Client -> Nat] /\ \A c \in Client : asked[c] <= MaxIn[c]
  /\ inbox \in [Client -> Seq(BOOLEAN)] /\ \A c \in Client : Len(inbox[c]) <= InSize
  /\ unread \in [Client -> Seq(BOOLEAN)] /\ \A c \in Client : Len(unread[c]) <= BufferSize
  /\ buffer \in [Client -> Seq(Nat)] /\ \A c \in Client : Len(buffer[c]) <= BufferSize
  /\ fds \in [Client -> Seq(Nat)] /\ \A c \in Client : Len(fds[c]) <= MaxFds
  /\ outbox \in [Client -> Seq(Message)] /\ \A c \in Client : Len(outbox[c]) <= OutSize
  /\ written \in [Client -> Stream] /\ got \in [Client -> Stream]

Empty == [words |-> <<>>, fds |-> <<>>]

ConnInit ==
  /\ phase = "poll" /\ ready = {} /\ events = {} /\ handling = NoToken /\ toFlush = {}
  /\ conn = [c \in Client |-> "new"]
  /\ hungUp = {} /\ watched = {}
  /\ asked = [c \in Client |-> 0]
  /\ inbox = [c \in Client |-> <<>>] /\ unread = inbox
  /\ buffer = inbox /\ fds = inbox /\ outbox = inbox
  /\ failed = [c \in Client |-> FALSE]
  /\ written = [c \in Client |-> Empty] /\ got = written

Open == {c \in Client : conn[c] = "open"}

\* The edge of a socket that is registered.
Edge(c) == IF c \in Open THEN {c} ELSE {}

----------------------------------------------------------------------------
(* The clients.                                                            *)

Connect(c) ==
  /\ conn[c] = "new"
  /\ conn' = [conn EXCEPT ![c] = "backlog"]
  /\ ready' = ready \cup {Listener}
  /\ UNCHANGED <<phase, events, handling, toFlush, hungUp, inVars, outVars>>

\* No request is longer than MaxMessage.
MustEnd(words) ==
  /\ Len(words) >= MaxMessage - 1
  /\ \A n \in Len(words) - MaxMessage + 2 .. Len(words) : ~words[n]

\* A client sends the next word of a request.
Ask(c, last) ==
  /\ conn[c] \in {"backlog", "open"} /\ c \notin hungUp
  /\ asked[c] < MaxIn[c] /\ Len(inbox[c]) < InSize
  /\ MustEnd(unread[c] \o inbox[c]) => last
  /\ asked' = [asked EXCEPT ![c] = @ + 1]
  /\ inbox' = [inbox EXCEPT ![c] = Append(@, last)]
  /\ ready' = ready \cup Edge(c)
  /\ UNCHANGED <<phase, events, handling, toFlush, conn, hungUp, unread, outVars>>

HangUp(c) ==
  /\ conn[c] \in {"backlog", "open"} /\ c \notin hungUp
  /\ hungUp' = hungUp \cup {c}
  /\ outbox' = [outbox EXCEPT ![c] = <<>>]
  /\ ready' = ready \cup Edge(c)
  /\ UNCHANGED <<phase, events, handling, toFlush, conn, inVars>>
  /\ UNCHANGED <<buffer, fds, failed, watched, written, got>>

\* The descriptors of a message come with its first word.
Receive(c) ==
  /\ outbox[c] # <<>>
  /\ outbox' = [outbox EXCEPT ![c] = Tail(@)]
  /\ got' = [got EXCEPT ![c] = [words |-> Append(@.words, Head(outbox[c]).word),
                                fds |-> @.fds \o Head(outbox[c]).fds]]
  /\ ready' = IF c \in watched THEN ready \cup Edge(c) ELSE ready
  /\ UNCHANGED <<phase, events, handling, toFlush, conn, hungUp, inVars>>
  /\ UNCHANGED <<buffer, fds, failed, watched, written>>

\* A key, a message of the channel.
OtherReady ==
  /\ phase # "crashed"
  /\ ready' = ready \cup {Other}
  /\ UNCHANGED <<phase, events, handling, toFlush, conn, hungUp, inVars, outVars>>

----------------------------------------------------------------------------
(* Writer.                                                                 *)

Least(m, n) == IF m < n THEN m ELSE n

\* What sendmsg takes of a buffer, nothing when the socket is full.
Room(c) == Least(OutSize - Len(outbox[c]), Len(buffer[c]))

\* All the descriptors go with the first word.
Sent(c) ==
  outbox[c] \o [n \in 1..Room(c) |-> [word |-> buffer[c][n],
                                      fds |-> IF n = 1 THEN fds[c] ELSE <<>>]]

Unsent(c) == SubSeq(buffer[c], Room(c) + 1, Len(buffer[c]))

\* Mutation: the descriptors are kept until the whole buffer is sent.
FdsUnsentUntilEmpty(c) == IF Unsent(c) # <<>> THEN fds[c] ELSE <<>>

FdsUnsent(c) == IF Room(c) = 0 THEN fds[c] ELSE <<>>

\* The client is gone, and there is something to write.
Broken(c) == c \in hungUp /\ buffer[c] # <<>>

\* Mutation: writing goes on after an error.
CannotFlushBroken(c) == Broken(c)

\* ClientConnection.flush fails.
CannotFlush(c) == failed[c] \/ Broken(c)

FdsFull(list) == Len(list) = MaxFds

FlushNeeded(c) ==
  ~failed[c] /\ (Len(buffer[c]) >= MaxMessage \/ Len(fds[c]) >= FlushFds)

\* start_message, the writes of the arguments and write_message_length.  A string or an
\* array that is too long is refused.  With an error set nothing is flushed, and words
\* are still written, but not all: these are 0 here.  With the socket full a write may
\* go past the end of the buffer, and panics.
Write(c, size, withFd, refused) ==
  /\ phase = "events" /\ handling \in {c, Other} /\ c \in Open
  /\ Len(written[c].words) + size <= MaxOut[c]
  /\ LET flush == FlushNeeded(c) /\ ~Broken(c)
         error == failed[c] \/ refused \/ (FlushNeeded(c) /\ Broken(c))
         kept == IF flush THEN Unsent(c) ELSE buffer[c]
         keptFds == IF flush THEN FdsUnsent(c) ELSE fds[c]
         first == Len(written[c].words) + 1
         end == Len(written[c].words) + size
         full == withFd /\ FdsFull(keptFds)
         words == [n \in 1..size |-> IF error THEN 0 ELSE first + n - 1]
     IN /\ outbox' = IF flush THEN [outbox EXCEPT ![c] = Sent(c)] ELSE outbox
        /\ IF Len(kept) + size > BufferSize
           THEN /\ phase' = "crashed"
                /\ buffer' = [buffer EXCEPT ![c] = kept]
                /\ fds' = [fds EXCEPT ![c] = keptFds]
                /\ UNCHANGED <<failed, written>>
           ELSE /\ buffer' = [buffer EXCEPT ![c] = kept \o words]
                /\ fds' = [fds EXCEPT ![c] = IF withFd /\ ~full THEN Append(keptFds, end)
                                             ELSE keptFds]
                /\ failed' = [failed EXCEPT ![c] = error \/ full]
                /\ written' = [written EXCEPT
                                 ![c] = [words |-> @.words \o [n \in 1..size |-> first + n - 1],
                                         fds |-> IF withFd THEN Append(@.fds, end) ELSE @.fds]]
                /\ UNCHANGED phase
  /\ UNCHANGED <<ready, events, handling, toFlush, conn, hungUp, inVars, watched, got>>

----------------------------------------------------------------------------
(* An iteration of the event loop.                                         *)

Poll ==
  /\ phase = "poll" /\ ready # {}
  /\ events' = ready /\ ready' = {}
  /\ phase' = "events"
  /\ UNCHANGED <<handling, toFlush, conn, hungUp, inVars, outVars>>

\* A handler starts.
Handle(token) ==
  /\ phase = "events" /\ handling = NoToken /\ token \in events

\* A socket that is registered is reported when something is there to read.
Readable(c) == inbox[c] # <<>> \/ c \in hungUp

\* connect_client: one client of those that wait, in no order that is told here.
AcceptClient ==
  /\ Handle(Listener)
  /\ events' = events \ {Listener}
  /\ LET backlog == {c \in Client : conn[c] = "backlog"}
     IN IF backlog = {} THEN UNCHANGED <<conn, ready>>
        ELSE \E c \in backlog :
               /\ conn' = [conn EXCEPT ![c] = "open"]
               /\ ready' = IF Readable(c) THEN ready \cup {c} ELSE ready
  /\ UNCHANGED <<phase, handling, toFlush, hungUp, inVars, outVars>>

StartOther ==
  /\ Handle(Other)
  /\ handling' = Other
  /\ UNCHANGED <<phase, ready, events, toFlush, conn, hungUp, inVars, outVars>>

EndOther ==
  /\ phase = "events" /\ handling = Other
  /\ handling' = NoToken
  /\ events' = events \ {Other}
  /\ UNCHANGED <<phase, ready, toFlush, conn, hungUp, inVars, outVars>>

\* One recvmsg, which may return less than there is.
Read(c) ==
  /\ Handle(c) /\ inbox[c] # <<>> /\ Len(unread[c]) < BufferSize
  /\ \E n \in 1..Least(Len(inbox[c]), BufferSize - Len(unread[c])) :
       /\ unread' = [unread EXCEPT ![c] = @ \o SubSeq(inbox[c], 1, n)]
       /\ inbox' = [inbox EXCEPT ![c] = SubSeq(@, n + 1, Len(@))]
  /\ handling' = c
  /\ UNCHANGED <<phase, ready, events, toFlush, conn, hungUp, asked, outVars>>

ReadNothing(c) ==
  /\ Handle(c) /\ inbox[c] = <<>> /\ c \notin hungUp /\ Len(unread[c]) < BufferSize
  /\ events' = events \ {c}
  /\ UNCHANGED <<phase, ready, handling, toFlush, conn, hungUp, inVars, outVars>>

\* Deregistered and removed from connected_clients.
Removed(c) ==
  /\ conn' = [conn EXCEPT ![c] = "gone"]
  /\ inbox' = [inbox EXCEPT ![c] = <<>>] /\ unread' = [unread EXCEPT ![c] = <<>>]
  /\ buffer' = [buffer EXCEPT ![c] = <<>>] /\ fds' = [fds EXCEPT ![c] = <<>>]
  /\ failed' = [failed EXCEPT ![c] = FALSE]
  /\ watched' = watched \ {c}
  /\ ready' = ready \ {c} /\ events' = events \ {c} /\ toFlush' = toFlush \ {c}
  /\ UNCHANGED <<hungUp, asked, written, got>>

\* An error ends the client's handler: what can be is flushed, unless the writer failed.
Disconnect(c) ==
  /\ outbox' = IF CannotFlush(c) THEN outbox ELSE [outbox EXCEPT ![c] = Sent(c)]
  /\ handling' = NoToken
  /\ Removed(c)
  /\ UNCHANGED phase

\* The end of the stream, or a buffer without room.
ReadFails(c) ==
  /\ Handle(c)
  /\ (inbox[c] = <<>> /\ c \in hungUp) \/ Len(unread[c]) = BufferSize
  /\ Disconnect(c)

\* The client's handler stands before a request that is complete.
Requested(c) ==
  /\ phase = "events" /\ handling = c
  /\ Contains(unread[c], TRUE)

\* Mutation: one request for each event.
HandleOneRequest(c) ==
  /\ Requested(c)
  /\ \E n \in DOMAIN unread[c] :
       /\ unread[c][n] /\ \A m \in 1..n - 1 : ~unread[c][m]
       /\ unread' = [unread EXCEPT ![c] = SubSeq(@, n + 1, Len(@))]
  /\ handling' = NoToken /\ events' = events \ {c}
  /\ UNCHANGED <<phase, ready, toFlush, conn, hungUp, asked, inbox, outVars>>

HandleRequest(c) ==
  /\ Requested(c)
  /\ \E n \in DOMAIN unread[c] :
       /\ unread[c][n] /\ \A m \in 1..n - 1 : ~unread[c][m]
       /\ unread' = [unread EXCEPT ![c] = SubSeq(@, n + 1, Len(@))]
  /\ UNCHANGED <<loopVars, conn, hungUp, asked, inbox, outVars>>

\* An unknown object, a bad size, or an error of the handler.
FailRequest(c) == Requested(c) /\ Disconnect(c)

EndRequests(c) ==
  /\ phase = "events" /\ handling = c /\ ~Contains(unread[c], TRUE)
  /\ handling' = NoToken
  /\ events' = events \ {c}
  /\ UNCHANGED <<phase, ready, toFlush, conn, hungUp, inVars, outVars>>

StartFlush ==
  /\ phase = "events" /\ events = {}
  /\ phase' = "flush"
  /\ toFlush' = Open
  /\ UNCHANGED <<ready, events, handling, conn, hungUp, inVars, outVars>>

\* Mutation: interest() leaves the output out.
WantsNothing(c) == FALSE

\* ClientConnection.interest: more to write.
WantsWrite(c) == Unsent(c) # <<>>

\* Mutation: a client is registered once.
ReportedAsBefore(c) == ready

ReportedAnew(c) == IF Readable(c) THEN ready \cup {c} ELSE ready

\* Registered anew with the client's interest, the token is reported if it is ready.
FlushClient(c) ==
  /\ phase = "flush" /\ c \in toFlush /\ ~CannotFlush(c)
  /\ outbox' = [outbox EXCEPT ![c] = Sent(c)]
  /\ buffer' = [buffer EXCEPT ![c] = Unsent(c)]
  /\ fds' = [fds EXCEPT ![c] = FdsUnsent(c)]
  /\ watched' = IF WantsWrite(c) THEN watched \cup {c} ELSE watched \ {c}
  /\ ready' = ReportedAnew(c)
  /\ toFlush' = toFlush \ {c}
  /\ UNCHANGED <<phase, events, handling, conn, hungUp, inVars, failed, written, got>>

FlushFails(c) ==
  /\ phase = "flush" /\ c \in toFlush
  /\ CannotFlush(c)
  /\ Removed(c)
  /\ UNCHANGED <<phase, handling, outbox>>

FlushDone ==
  /\ phase = "flush" /\ toFlush = {}
  /\ phase' = "poll"
  /\ UNCHANGED <<ready, events, handling, toFlush, conn, hungUp, inVars, outVars>>

----------------------------------------------------------------------------

ClientStep ==
  \E c \in Client :
    \/ Connect(c)
    \/ \E last \in BOOLEAN : Ask(c, last)
    \/ HangUp(c)
    \/ Receive(c)

Handler ==
  \/ AcceptClient
  \/ StartOther
  \/ EndOther
  \/ \E c \in Client :
       \/ Read(c)
       \/ ReadNothing(c)
       \/ ReadFails(c)
       \/ HandleRequest(c)
       \/ FailRequest(c)
       \/ EndRequests(c)

Flush ==
  \/ StartFlush
  \/ \E c \in Client : FlushClient(c) \/ FlushFails(c)
  \/ FlushDone

ConnNext ==
  \/ ClientStep
  \/ OtherReady
  \/ \E c \in Client, size \in 1..MaxMessage, withFd, refused \in BOOLEAN :
       Write(c, size, withFd, refused)
  \/ Poll
  \/ Handler
  \/ Flush

ConnSpec == ConnInit /\ [][ConnNext]_connVars

\* The main thread goes on, and a client reads what is sent to it.
FairConnSpec ==
  /\ ConnSpec
  /\ WF_connVars(Poll)
  /\ WF_connVars(Handler)
  /\ WF_connVars(Flush)
  /\ \A c \in Client : WF_connVars(Receive(c))

----------------------------------------------------------------------------
(* What the connections promise.                                           *)

\* Words of events, by their numbers.
WordsUpTo(n) == [i \in 1..n |-> i]

OnTheWay(c) == [n \in DOMAIN outbox[c] |-> outbox[c][n].word]

\* Every word of an event reaches the client once and in order, whatever part of it a
\* flush could send, and nothing that was written after an error does.
OutputInOrder ==
  \A c \in Client :
    LET sent == got[c].words \o OnTheWay(c)
    IN /\ c \notin hungUp => sent = WordsUpTo(Len(sent))
       /\ c \in Open \ hungUp /\ ~failed[c] =>
            sent \o buffer[c] = WordsUpTo(Len(written[c].words))

\* A descriptor is there when its event has arrived, and in the order of the events.
FdsInTime ==
  \A c \in Client \ hungUp :
    /\ IsPrefix(got[c].fds, written[c].fds)
    /\ \A fd \in ToSet(written[c].fds) :
         Contains(got[c].words, fd) => Contains(got[c].fds, fd)

\* While the loop waits in poll, an edge is there or will come for all that waits: a
\* request, the end of a stream, output that did not fit.  The edges that were consumed
\* by a poll are made up for by registering each client anew (flush_clients).
NothingForgotten ==
  phase = "poll" =>
    \A c \in Open :
      /\ ~Contains(unread[c], TRUE)
      /\ Readable(c) => c \in ready
      /\ buffer[c] # <<>> => c \in ready \/ (c \in watched /\ outbox[c] # <<>>)

Crashed == phase = "crashed"

\* A request that has arrived, or the end of the stream, is dealt with: although a read
\* takes only a part, each iteration registers the socket anew.
RequestsHandled ==
  \A c \in Client :
    LET waiting == c \in Open /\ (c \in hungUp \/ Contains(unread[c] \o inbox[c], TRUE))
    IN waiting ~> ~waiting \/ Crashed

\* What is written for a client that reads reaches it, or the client is disconnected.
OutputDelivered ==
  \A c \in Client :
    LET pending == c \in Open /\ Len(got[c].words) < Len(written[c].words)
    IN pending ~> ~pending \/ Crashed

\* A client that connects is accepted.
ClientsAccepted == \A c \in Client : conn[c] = "backlog" ~> conn[c] # "backlog" \/ Crashed
=============================================================================
