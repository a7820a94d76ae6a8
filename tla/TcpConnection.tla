---------------------------- MODULE TcpConnection ----------------------------
(***************************************************************************)
(* net::Tcp_connection with its Channel, its registration in the Poller    *)
(* and the part of net::Tcp_server that owns it: the life of one           *)
(* connection, from new_connection() to its destructor.                    *)
(*                                                                         *)
(* Three kinds of threads act: the connection's own loop, the server's     *)
(* loop, and others that hold a shared_ptr and call the public functions.  *)
(* A failed assertion is noted in `failed`, and the model goes on like a   *)
(* build without assertions.                                               *)
(***************************************************************************)
EXTENDS Integers, Sequences, FiniteSets

CONSTANTS Caller,      \* threads other than the two loops
          Msg,         \* messages, each sent once
          Parts,       \* units of a message that write(2) may separate
          LoopCalls,   \* what user code on the connection's loop calls
          OtherCalls,  \* what the other threads call
          Races,       \* whether another step may fall into a call of theirs
          SameLoop,    \* whether the server's loop is the connection's
          ServerEnds   \* whether the server may be destroyed

Calls == {"send", "shutdown", "force_close", "stop_read", "start_read"}

ASSUME ConnectionAssumption ==
  /\ Parts \in Nat \ {0} /\ "loop" \notin Caller
  /\ LoopCalls \subseteq Calls /\ OtherCalls \subseteq Calls
  /\ Races \in BOOLEAN /\ SameLoop \in BOOLEAN /\ ServerEnds \in BOOLEAN

VARIABLES
  state,             \* state_
  events, index,     \* channel_: events_, and index_ (what epoll knows of it)
  reading,           \* reading_
  output,            \* output_buffer_
  sent, wrShut,      \* what was written to the socket; SHUT_WR
  room,              \* the socket has room to write, which epoll reports as POLLOUT
  peer, error,       \* what the peer did; an error waits in the socket
  ioq,               \* functors of the connection's loop
  baseq,             \* remove_connection_in_loop functors of the server's loop
  inMap, server,     \* it is in connections_; the Tcp_server exists
  cpc, called,       \* what each caller is doing; calls made (each is made once)
  used, accepted,    \* history: messages send() took, units send_in_loop() took
  up, down,          \* history: connection_callback_ calls
  failed,            \* history: assertions that failed
  dead               \* the destructor has run

vars == <<state, events, index, reading, output, sent, wrShut, room, peer, error, ioq,
          baseq, inMap, server, cpc, called, used, accepted, up, down, failed, dead>>
channel == <<events, index>>
stream == <<output, sent, room, accepted>>
callers == <<cpc, called, used>>
owner == <<baseq, inMap, server>>

Units(m) == [i \in 1 .. Parts |-> <<m, i>>]
F(op) == [op |-> op]
Send(m) == [op |-> "send", msg |-> m]

\* Defect for Owning: connect_destroyed is bound to the raw connection.
OwningButDestroyed == {"established", "force_close", "complete"}

\* functors bound to a shared_ptr; the others are bound to a raw `this`
Owning == {"established", "force_close", "complete", "destroyed"}
Raw == {"shutdown", "stop_read", "start_read"}
Functors == [op : Owning \cup Raw] \cup [op : {"send"}, msg : Msg]

Holders == {c \in Caller : cpc[c] \notin {"none", "gone"}}
Alive == \/ inMap \/ Holders # {} \/ baseq > 0
         \/ \E i \in DOMAIN ioq : ioq[i].op \in Owning

TypeOK ==
  /\ state \in {"connecting", "connected", "disconnecting", "disconnected"}
  /\ events \subseteq {"read", "write"} /\ index \in {"new", "added", "deleted"}
  /\ reading \in BOOLEAN /\ wrShut \in BOOLEAN /\ room \in BOOLEAN /\ error \in BOOLEAN
  /\ output \in Seq(Msg \X (1 .. Parts)) /\ sent \in Seq(Msg \X (1 .. Parts))
  /\ accepted \in Seq(Msg \X (1 .. Parts))
  /\ peer \in {"open", "fin", "rst"}
  /\ ioq \in Seq(Functors) /\ baseq \in Nat
  /\ inMap \in BOOLEAN /\ server \in BOOLEAN /\ (inMap => server)
  /\ cpc \in [Caller -> {"none", "idle", "gone", "send", "shutdown", "force_close",
                         "shutdown_set", "force_close_set"}]
  /\ called \subseteq (Caller \cup {"loop"}) \X Calls /\ used \subseteq Msg
  /\ up \in Nat /\ down \in Nat
  /\ failed \subseteq {"handle_close", "remove", "erase", "server"}
  /\ dead \in BOOLEAN

\* new_connection(): in the map, connect_established handed to the loop
Init ==
  /\ state = "connecting" /\ events = {} /\ index = "new" /\ reading = TRUE
  /\ output = <<>> /\ sent = <<>> /\ wrShut = FALSE /\ room = TRUE
  /\ peer = "open" /\ error = FALSE
  /\ ioq = <<F("established")>> /\ baseq = 0 /\ inMap = TRUE /\ server = TRUE
  /\ cpc = [c \in Caller |-> "none"] /\ called = {} /\ used = {} /\ accepted = <<>>
  /\ up = 0 /\ down = 0 /\ failed = {} /\ dead = FALSE

-----------------------------------------------------------------------------
(* Channel and Poller. *)

\* Channel::update(), Poller::update_channel(): a channel that epoll does not know
\* is added whatever its events are, one that it knows is deleted without any
SetEvents(E) ==
  /\ events' = E
  /\ index' = IF index = "added" /\ E = {} THEN "deleted" ELSE "added"

\* Defect for enable_write: the rest of a message is buffered and nothing more.
enable_write_not == UNCHANGED channel

enable_write == IF "write" \in events THEN UNCHANGED channel
                                      ELSE SetEvents(events \cup {"write"})

Fails(name, condition) == IF condition THEN {} ELSE {name}

-----------------------------------------------------------------------------
(* What the connection does on its loop.  q is the loop's queue without    *)
(* the functor that is running.                                            *)

Broken == peer = "rst" \/ wrShut

\* Defect for buffer: the new units go before those that wait.
bufferInFront(m) == output' = Units(m) \o output

buffer(m) == output' = output \o Units(m)

\* nothing is queued for the socket, so write(2) may be tried at once
Idle == "write" \notin events /\ output = <<>>

\* write(2) takes k of n units: at least one if the socket has room, and all unless that
\* fills it
Takes(k, n) == (room => k > 0) /\ room' \in IF k = n THEN {room, FALSE} ELSE {FALSE}

send_in_loop(m, q) ==
  \/ /\ state = "disconnected"
     /\ ioq' = q /\ UNCHANGED <<stream, channel>>
  \/ /\ state # "disconnected" /\ ~Idle              \* buffered
     /\ accepted' = accepted \o Units(m)
     /\ buffer(m) /\ enable_write
     /\ ioq' = q /\ UNCHANGED <<sent, room>>
  \/ /\ state # "disconnected" /\ Idle /\ ~Broken     \* written, in part, or would block
     /\ accepted' = accepted \o Units(m)
     /\ \E k \in 0 .. Parts :
          /\ Takes(k, Parts)
          /\ sent' = sent \o SubSeq(Units(m), 1, k)
          /\ output' = output \o SubSeq(Units(m), k + 1, Parts)
          /\ IF k = Parts THEN ioq' = Append(q, F("complete")) /\ UNCHANGED channel
                          ELSE ioq' = q /\ enable_write
  \/ /\ state # "disconnected" /\ Idle /\ Broken      \* EPIPE: given up
     /\ accepted' = accepted \o Units(m)
     /\ ioq' = q /\ UNCHANGED <<output, sent, room, channel>>

\* Defect for shutdown_in_loop: SHUT_WR while units wait.
shutdown_in_loop_now == wrShut' = TRUE

shutdown_in_loop == wrShut' = (wrShut \/ "write" \notin events)

\* Defect for remove_connection: the server is not told.
remove_connection_forgotten(q) == ioq' = q /\ UNCHANGED <<baseq, inMap>>

\* close_callback_: Tcp_server::remove_connection()
remove_connection(q) ==
  IF SameLoop THEN inMap' = FALSE /\ ioq' = Append(q, F("destroyed")) /\ UNCHANGED baseq
              ELSE baseq' = baseq + 1 /\ ioq' = q /\ UNCHANGED inMap

\* Defect for handle_close: the channel stays registered.
handle_close_keeps_channel(q) ==
  /\ state' = "disconnected" /\ UNCHANGED channel
  /\ down' = down + 1
  /\ remove_connection(q)
  /\ UNCHANGED failed

handle_close(q) ==
  /\ failed' = failed \cup Fails("handle_close", state \in {"connected", "disconnecting"})
                      \cup Fails("server", server)
                      \cup Fails("erase", SameLoop => inMap)
  /\ state' = "disconnected" /\ SetEvents({})
  /\ down' = down + 1
  /\ remove_connection(q)

connect_established(q) ==
  /\ state' = "connected" /\ SetEvents(events \cup {"read"}) /\ up' = up + 1
  /\ ioq' = q
  /\ UNCHANGED <<reading, stream, wrShut, owner, down, failed>>

\* connect_destroyed(), and Channel::remove() with its assertion
connect_destroyed(q) ==
  LET live == state = "connected" IN
  /\ state' = IF live THEN "disconnected" ELSE state
  /\ events' = IF live THEN {} ELSE events
  /\ down' = IF live THEN down + 1 ELSE down
  /\ failed' = failed \cup Fails("remove", events' = {})
  /\ index' = "new" /\ ioq' = q
  /\ UNCHANGED <<reading, stream, wrShut, up>>

start_read_in_loop(q) ==
  /\ IF ~reading \/ "read" \notin events THEN SetEvents(events \cup {"read"}) /\ reading' = TRUE
                                         ELSE UNCHANGED <<channel, reading>>
  /\ ioq' = q

stop_read_in_loop(q) ==
  /\ IF reading \/ "read" \in events THEN SetEvents(events \ {"read"}) /\ reading' = FALSE
                                     ELSE UNCHANGED <<channel, reading>>
  /\ ioq' = q

\* Defect for force_close_in_loop: the state is not looked at again.
force_close_in_loop_anyway(q) == handle_close(q)

force_close_in_loop(q) ==
  IF state \in {"connected", "disconnecting"} THEN handle_close(q)
  ELSE ioq' = q /\ UNCHANGED <<state, channel, down, failed, baseq, inMap>>

-----------------------------------------------------------------------------
(* The connection's loop: functors in order, and events of the socket. *)

Functor(op) == ~dead /\ ioq # <<>> /\ Head(ioq).op = op

RunEstablished == /\ Functor("established") /\ connect_established(Tail(ioq))
                  /\ UNCHANGED <<peer, error, callers>>

RunSend == /\ Functor("send") /\ send_in_loop(Head(ioq).msg, Tail(ioq))
           /\ UNCHANGED <<state, reading, wrShut, peer, error, owner, callers, up, down, failed>>

RunShutdown ==
  /\ Functor("shutdown") /\ shutdown_in_loop /\ ioq' = Tail(ioq)
  /\ UNCHANGED <<state, channel, reading, stream, peer, error, owner, callers, up, down, failed>>

RunForceClose == /\ Functor("force_close") /\ force_close_in_loop(Tail(ioq))
                 /\ UNCHANGED <<reading, stream, wrShut, peer, error, server, callers, up>>

RunReading ==
  /\ \/ Functor("start_read") /\ start_read_in_loop(Tail(ioq))
     \/ Functor("stop_read") /\ stop_read_in_loop(Tail(ioq))
  /\ UNCHANGED <<state, stream, wrShut, peer, error, owner, callers, up, down, failed>>

\* write_complete_callback_ is user code
RunComplete ==
  /\ Functor("complete") /\ ioq' = Tail(ioq)
  /\ UNCHANGED <<state, channel, reading, stream, wrShut, peer, error, owner, callers,
                 up, down, failed>>

RunDestroyed == /\ Functor("destroyed") /\ connect_destroyed(Tail(ioq))
                /\ UNCHANGED <<peer, error, owner, callers>>

Event(e) == ~dead /\ index = "added" /\ e \in events

\* handle_read(): an error is logged, the end of the stream closes (messages go to
\* message_callback_, which is user code)
HandleRead ==
  /\ Event("read") /\ peer # "open"
  /\ IF error THEN UNCHANGED <<state, channel, ioq, baseq, inMap, down, failed>>
              ELSE handle_close(ioq)
  /\ error' = FALSE
  /\ UNCHANGED <<reading, stream, wrShut, peer, server, callers, up>>

\* POLLHUP without POLLIN, which epoll reports of every descriptor it knows
HandleHangup ==
  /\ ~dead /\ index = "added" /\ "read" \notin events
  /\ peer = "rst" \/ (peer = "fin" /\ wrShut)
  /\ handle_close(ioq)
  /\ UNCHANGED <<reading, stream, wrShut, peer, error, server, callers, up>>

\* POLLOUT, handle_write(): when the buffer is empty, no more writing, and the half-close
\* that shutdown() left.  (On a broken socket the error is logged and nothing changes.)
HandleWrite ==
  /\ Event("write") /\ ~Broken /\ room
  /\ \E k \in 1 .. Len(output) :
       /\ Takes(k, Len(output))
       /\ sent' = sent \o SubSeq(output, 1, k)
       /\ output' = SubSeq(output, k + 1, Len(output))
       /\ IF k = Len(output)
          THEN /\ SetEvents(events \ {"write"})
               /\ ioq' = Append(ioq, F("complete"))
               /\ wrShut' = (wrShut \/ state = "disconnecting")
          ELSE UNCHANGED <<channel, ioq, wrShut>>
  /\ UNCHANGED <<state, reading, accepted, peer, error, owner, callers, up, down, failed>>

\* User code on this loop, once the connection is up
LoopCall(call) == ~dead /\ up = 1 /\ call \in LoopCalls
Once(call) == <<"loop", call>> \notin called /\ called' = called \cup {<<"loop", call>>}

\* a message is left for one more call of send()
Unclaimed == Cardinality({c \in Caller : cpc[c] = "send"}) < Cardinality(Msg \ used)

LoopSend(m) ==
  /\ LoopCall("send") /\ state = "connected" /\ m \notin used /\ Unclaimed
  /\ used' = used \cup {m} /\ send_in_loop(m, ioq)
  /\ UNCHANGED <<state, reading, wrShut, peer, error, owner, cpc, called, up, down, failed>>

LoopShutdown ==
  /\ LoopCall("shutdown") /\ state = "connected" /\ Once("shutdown")
  /\ state' = "disconnecting" /\ shutdown_in_loop
  /\ UNCHANGED <<channel, reading, stream, peer, error, ioq, owner, cpc, used, up, down, failed>>

LoopForceClose ==
  /\ LoopCall("force_close") /\ state \in {"connected", "disconnecting"} /\ Once("force_close")
  /\ state' = "disconnecting" /\ ioq' = Append(ioq, F("force_close"))
  /\ UNCHANGED <<channel, reading, stream, wrShut, peer, error, owner, cpc, used, up, down, failed>>

LoopReading ==
  /\ \/ LoopCall("start_read") /\ Once("start_read") /\ start_read_in_loop(ioq)
     \/ LoopCall("stop_read") /\ Once("stop_read") /\ stop_read_in_loop(ioq)
  /\ UNCHANGED <<state, stream, wrShut, peer, error, owner, cpc, used, up, down, failed>>

-----------------------------------------------------------------------------
(* The server's loop. *)

\* remove_connection_in_loop(), bound to the raw server and a shared_ptr
Remove ==
  /\ baseq > 0 /\ baseq' = baseq - 1
  /\ failed' = failed \cup Fails("server", server) \cup Fails("erase", server => inMap)
  /\ inMap' = FALSE /\ ioq' = Append(ioq, F("destroyed"))
  /\ UNCHANGED <<state, channel, reading, stream, wrShut, peer, error, server, callers, up, down>>

\* ~Tcp_server(): run_in_loop(connect_destroyed) for what is in the map
DestroyServer ==
  /\ ServerEnds /\ server /\ server' = FALSE
  /\ SameLoop => state # "connecting"
  /\ inMap' = FALSE
  /\ CASE inMap /\ SameLoop -> connect_destroyed(ioq)
       [] inMap /\ ~SameLoop -> /\ ioq' = Append(ioq, F("destroyed"))
                                /\ UNCHANGED <<state, channel, reading, stream, wrShut,
                                               up, down, failed>>
       [] OTHER -> UNCHANGED <<state, channel, reading, stream, wrShut, ioq, up, down, failed>>
  /\ UNCHANGED <<peer, error, baseq, callers>>

-----------------------------------------------------------------------------
(* Other threads: a call reads state_, may write it, and queues a functor. *)

loops == <<channel, reading, stream, wrShut, peer, error, owner, up, down, failed>>
At(c, from, to) == cpc[c] = from /\ cpc' = [cpc EXCEPT ![c] = to]

\* user code gives c a shared_ptr
HandOver(c) == /\ ~dead /\ up = 1 /\ At(c, "none", "idle")
               /\ UNCHANGED <<state, ioq, called, used, loops>>
Release(c) == At(c, "idle", "gone") /\ UNCHANGED <<state, ioq, called, used, loops>>

MayCall(c, call) == call \in OtherCalls /\ <<c, call>> \notin called

StartSend(c) ==
  /\ "send" \in OtherCalls /\ state = "connected" /\ Unclaimed
  /\ At(c, "idle", "send")
  /\ UNCHANGED <<state, ioq, called, used, loops>>

QueueSend(c) ==
  /\ At(c, "send", "idle")
  /\ \E m \in Msg \ used : used' = used \cup {m} /\ ioq' = Append(ioq, Send(m))
  /\ UNCHANGED <<state, called, loops>>

StartShutdown(c) ==
  /\ MayCall(c, "shutdown") /\ state = "connected"
  /\ At(c, "idle", "shutdown") /\ called' = called \cup {<<c, "shutdown">>}
  /\ UNCHANGED <<state, ioq, used, loops>>

StartForceClose(c) ==
  /\ MayCall(c, "force_close") /\ state \in {"connected", "disconnecting"}
  /\ At(c, "idle", "force_close") /\ called' = called \cup {<<c, "force_close">>}
  /\ UNCHANGED <<state, ioq, used, loops>>

SetDisconnecting(c) ==
  /\ At(c, "shutdown", "shutdown_set") \/ At(c, "force_close", "force_close_set")
  /\ state' = "disconnecting"
  /\ UNCHANGED <<ioq, called, used, loops>>

QueueClose(c) ==
  /\ \/ At(c, "shutdown_set", "idle") /\ ioq' = Append(ioq, F("shutdown"))
     \/ At(c, "force_close_set", "idle") /\ ioq' = Append(ioq, F("force_close"))
  /\ UNCHANGED <<state, called, used, loops>>

QueueReading(c) ==
  /\ cpc[c] = "idle"
  /\ \E call \in {"start_read", "stop_read"} :
       /\ MayCall(c, call) /\ called' = called \cup {<<c, call>>}
       /\ ioq' = Append(ioq, F(call))
  /\ UNCHANGED <<state, cpc, used, loops>>

-----------------------------------------------------------------------------
(* The peer, which may read what it is sent, or not. *)

PeerReads == /\ ~dead /\ up = 1 /\ peer # "rst" /\ ~room /\ room' = TRUE
             /\ UNCHANGED <<state, channel, reading, output, sent, accepted, wrShut, peer, error,
                            ioq, owner, callers, up, down, failed>>

PeerCloses == /\ up = 1 /\ peer = "open" /\ peer' = "fin"
              /\ UNCHANGED <<state, channel, reading, stream, wrShut, error, ioq, owner,
                             callers, up, down, failed>>
PeerResets == /\ up = 1 /\ peer # "rst" /\ peer' = "rst" /\ error' = TRUE
              /\ UNCHANGED <<state, channel, reading, stream, wrShut, ioq, owner,
                             callers, up, down, failed>>

RunFunctor == \/ RunEstablished \/ RunSend \/ RunShutdown \/ RunForceClose \/ RunReading
              \/ RunComplete \/ RunDestroyed
HandleEvent == HandleRead \/ HandleHangup \/ HandleWrite
UserStep == (\E m \in Msg : LoopSend(m)) \/ LoopShutdown \/ LoopForceClose \/ LoopReading
BaseStep == Remove \/ DestroyServer
StartCall(c) == \/ HandOver(c) \/ Release(c) \/ StartSend(c) \/ StartShutdown(c)
                \/ StartForceClose(c) \/ QueueReading(c)
FinishCall(c) == QueueSend(c) \/ SetDisconnecting(c) \/ QueueClose(c)

Uninterrupted == Races \/ \A c \in Caller : cpc[c] \in {"none", "idle", "gone"}

Step == \/ \E c \in Caller : FinishCall(c)
        \/ /\ Uninterrupted
           /\ \/ RunFunctor \/ HandleEvent \/ UserStep \/ BaseStep
              \/ PeerReads \/ PeerCloses \/ PeerResets
              \/ \E c \in Caller : StartCall(c)

\* The last shared_ptr that goes takes the connection with it.
Destructor == dead' = (dead \/ ~Alive')

Next == Step /\ Destructor

Spec == Init /\ [][Next]_vars

\* Both loops run, a poll reports what is ready, callers finish their calls and
\* let go of the connection.  Nothing makes the peer read, close or answer.
FairSpec == /\ Spec
            /\ WF_vars(RunFunctor /\ Uninterrupted /\ Destructor)
            /\ WF_vars(HandleRead /\ Uninterrupted /\ Destructor)
            /\ WF_vars(HandleHangup /\ Uninterrupted /\ Destructor)
            /\ WF_vars(HandleWrite /\ Uninterrupted /\ Destructor)
            /\ WF_vars(Remove /\ Uninterrupted /\ Destructor)
            /\ \A c \in Caller : /\ WF_vars(Release(c) /\ Uninterrupted /\ Destructor)
                                 /\ WF_vars(FinishCall(c) /\ Destructor)

-----------------------------------------------------------------------------
\* The bytes of the messages reach the socket in the order in which the loop took
\* them, none twice, and none is missing as long as the socket can be written to.
StreamIntact ==
  LET all == sent \o output IN
  /\ Len(all) <= Len(accepted) /\ all = SubSeq(accepted, 1, Len(all))
  /\ ~Broken => all = accepted

\* Every connection that came up goes down once, and before its destructor.
UpThenDown == down <= up /\ (dead => down = up)

\* When the last reference goes, the connection is down and its channel out of the poller
\* (what the destructors assert), and no functor is left that would run on a raw `this`.
CleanDeath == dead => state = "disconnected" /\ index = "new" /\ ioq = <<>>

\* No assertion of handle_close, Channel::remove and remove_connection_in_loop fails.
AssertionsHold == failed = {}

\* Half-close is graceful: when the write side is shut down, by shutdown_in_loop()
\* or later by handle_write(), all that the loop took before has been written, while
\* the peer reads and the connection has not been taken down.  (A message of another
\* thread may still be a functor; that one is lost.)
HalfClose == ~wrShut /\ wrShut'
GracefulShutdown == [][HalfClose /\ peer = "open" /\ down = 0 => sent' = accepted']_vars

\* A connection whose peer is gone is destroyed.
PeerGoneEnds == (peer # "open") ~> dead

\* POLLOUT is waited for only while something is to be written, so that the loop does not
\* spin; and unless the peer has stopped reading for good, what waits is written or the
\* connection goes down.
PeerKeepsReading == []<>(room \/ peer = "rst")
BufferDrains ==
  /\ []("write" \in events => output # <<>>)
  /\ PeerKeepsReading =>
       ((output # <<>>) ~> (output = <<>> \/ state = "disconnected" \/ dead))

\* assert(state_ == kConnected || state_ == kDisconnecting) in handle_close()
CloseAssertion == "handle_close" \notin failed
=============================================================================
