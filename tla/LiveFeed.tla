------------------------------ MODULE LiveFeed ------------------------------
(***************************************************************************)
(* The live feed of the API: one task reads the ends of two streams and    *)
(* broadcasts to the set _connections, one task per client keeps its       *)
(* connection.  They take turns at every await.  broadcast awaits inside   *)
(* its loop over the set, while clients come and go.                       *)
(*                                                                         *)
(* Python checks at each step of such a loop that the set has the size it  *)
(* began with, and raises otherwise.  One that lost a member and gained    *)
(* another passes, and the loop goes on wherever the hash table leads.     *)
(***************************************************************************)
EXTENDS Integers, Sequences, FiniteSets, Functions

CONSTANTS
    Clients,     \* WebSocket connections, each of which is made once
    Channels,    \* the streams of crawl events and of documents
    Unreported,  \* <<channel, position>> of failed crawls and malformed entries
    ReadCount,   \* count of the read
    MaxEntries,  \* bound: entries of the streams together
    MaxErrors    \* bound: failing calls to Redis

ASSUME LiveFeedAssumption ==
    /\ Unreported \subseteq Channels \X Nat
    /\ ReadCount \in Nat \ {0} /\ MaxEntries \in Nat /\ MaxErrors \in Nat

VARIABLES
    connections, \* _connections
    handler,     \* [Clients -> state of websocket_feed]
    link,        \* [Clients -> BOOLEAN]: the client is there
    entries,     \* [Channels -> Nat]: how many were ever added
    lastIds,     \* [Channels -> Int]: last_ids
    streamer,    \* stream_pipeline_events: [pc, from, batch]
    cast,        \* broadcast: [then, to, todo, size, dead]
    changed,     \* history: connections changed since the last broadcast began
    missing,     \* history: if not, the members it has not reached
    errors

clientVars == <<connections, handler, link>>
castVars == <<cast, changed, missing>>
feedVars == <<clientVars, entries, lastIds, streamer, castVars, errors>>

-----------------------------------------------------------------------------
Latest == -1          \* "$": whatever is added after the call
NoClient == "none"
NoCast == [then |-> "top", to |-> NoClient, todo |-> {}, size |-> 0, dead |-> {}]

Streamer(pc) == streamer' = [streamer EXCEPT !.pc = pc]
NoPositions == [s \in Channels |-> 0]
\* The histories speak of a broadcast until the next step of the loop.
Forget == missing' = {} /\ changed' = FALSE
Sending == streamer.pc = "send"

InitFeed ==
    /\ connections = {}
    /\ handler = [c \in Clients |-> "away"]
    /\ link = [c \in Clients |-> TRUE]
    /\ entries = NoPositions
    /\ lastIds = [s \in Channels |-> Latest]
    /\ streamer = [pc |-> "top", from |-> NoPositions, batch |-> <<>>]
    /\ cast = NoCast
    /\ changed = FALSE /\ missing = {}
    /\ errors = 0

-----------------------------------------------------------------------------
(* Clients. *)

\* In a loop of broadcast, what is left of it becomes any members.
SetConnections(new) ==
    /\ connections' = new
    /\ IF Sending /\ new # connections
       THEN /\ changed' = TRUE /\ missing' = {}
            /\ \E todo \in IF Cardinality(new) = cast.size THEN SUBSET new ELSE {{}} :
                   cast' = [cast EXCEPT !.todo = todo]
       ELSE UNCHANGED castVars

\* accept() raises outside of the try block when the client has gone already.
Accept(c) ==
    /\ handler[c] = "away"
    /\ \/ SetConnections(connections \cup {c}) /\ handler' = [handler EXCEPT ![c] = "served"]
       \/ handler' = [handler EXCEPT ![c] = "gone"] /\ UNCHANGED <<connections, castVars>>
    /\ UNCHANGED <<link, entries, lastIds, streamer, errors>>

\* Mutant of Leave: the client is removed on a clean disconnect only.
LeaveWithoutFinally(c) ==
    /\ handler[c] = "served" /\ ~link[c]
    /\ handler' = [handler EXCEPT ![c] = "gone"]
    /\ \/ SetConnections(connections \ {c})
       \/ UNCHANGED <<connections, castVars>>
    /\ UNCHANGED <<link, entries, lastIds, streamer, errors>>

\* The greeting, the wait for a message, or the ping after half a minute without
\* one raises: finally discards the client.
Leave(c) ==
    /\ handler[c] = "served" /\ ~link[c]
    /\ handler' = [handler EXCEPT ![c] = "gone"]
    /\ SetConnections(connections \ {c})
    /\ UNCHANGED <<link, entries, lastIds, streamer, errors>>

Disconnect(c) ==
    /\ link[c] /\ handler[c] = "served"
    /\ link' = [link EXCEPT ![c] = FALSE]
    /\ UNCHANGED <<connections, handler, entries, lastIds, streamer, castVars, errors>>

-----------------------------------------------------------------------------
(* The streams, and reading them. *)

Add(s) ==
    /\ FoldFunction(+, 0, entries) < MaxEntries
    /\ entries' = [entries EXCEPT ![s] = @ + 1]
    /\ UNCHANGED <<clientVars, lastIds, streamer, castVars, errors>>

\* XREAD is sent: Redis looks up what "$" stands for now.
Read ==
    /\ streamer.pc = "top"
    /\ streamer' = [streamer EXCEPT !.pc = "read",
                        !.from = [s \in Channels |-> IF lastIds[s] = Latest THEN entries[s] ELSE lastIds[s]]]
    /\ Forget
    /\ UNCHANGED <<clientVars, entries, lastIds, cast, errors>>

\* The positions that XREAD answers for a stream.
Fresh(s) ==
    LET left == entries[s] - streamer.from[s]
    IN  [i \in 1..(IF left < ReadCount THEN left ELSE ReadCount) |-> <<s, streamer.from[s] + i>>]

\* It answers as soon as there is an entry, the streams in either order.
Answer ==
    /\ streamer.pc = "read"
    /\ \E s, t \in Channels :
        /\ Channels = {s, t} /\ s # t /\ Fresh(s) \o Fresh(t) # <<>>
        /\ streamer' = [streamer EXCEPT !.pc = "handle", !.batch = Fresh(s) \o Fresh(t),
                                                !.from = NoPositions]
    /\ UNCHANGED <<clientVars, entries, lastIds, castVars, errors>>

\* After a second without entries: _send_stats_event, unless nobody listens.
AnswerEmpty ==
    /\ streamer.pc = "read" /\ \A s \in Channels : Fresh(s) = <<>>
    /\ Streamer(IF connections = {} THEN "top" ELSE "count")
    /\ UNCHANGED <<clientVars, entries, lastIds, castVars, errors>>

RedisFails == /\ errors < MaxErrors
              /\ errors' = errors + 1

\* Mutant of ReadFails: the error is not caught, and the task is over.
ReadFailsForGood ==
    /\ streamer.pc = "read" /\ RedisFails
    /\ Streamer("over")
    /\ UNCHANGED <<clientVars, entries, lastIds, castVars>>

ReadFails ==
    /\ streamer.pc = "read" /\ RedisFails
    /\ Streamer("sleep")
    /\ UNCHANGED <<clientVars, entries, lastIds, castVars>>

WakeUp ==
    /\ streamer.pc = "sleep"
    /\ Streamer("top")
    /\ UNCHANGED <<clientVars, entries, lastIds, castVars, errors>>

-----------------------------------------------------------------------------
(* Broadcasting. *)

\* The loop begins with some member of the set; without members there is
\* nothing to do.
Begin(then, batch) ==
    IF connections = {}
    THEN /\ streamer' = [streamer EXCEPT !.pc = then, !.batch = batch]
         /\ Forget /\ UNCHANGED cast
    ELSE /\ \E c \in connections :
               cast' = [then |-> then, to |-> c, todo |-> connections \ {c},
                        size |-> Cardinality(connections), dead |-> {}]
         /\ streamer' = [streamer EXCEPT !.pc = "send", !.batch = batch]
         /\ missing' = connections /\ changed' = FALSE

\* The queue's length, and then the broadcast; an error is swallowed.
CountQueue ==
    /\ streamer.pc = "count"
    /\ \/ Begin("top", <<>>) /\ UNCHANGED errors
       \/ RedisFails /\ Streamer("top") /\ UNCHANGED castVars
    /\ UNCHANGED <<clientVars, entries, lastIds>>

\* A record moves the stream's position before it is handled; not all are told.
HandleRecord ==
    /\ streamer.pc = "handle"
    /\ IF streamer.batch = <<>>
       THEN Streamer("top") /\ Forget /\ UNCHANGED <<lastIds, cast>>
       ELSE LET record == Head(streamer.batch)
                s == record[1]
                rest == Tail(streamer.batch)
            IN  /\ lastIds' = [lastIds EXCEPT ![s] = record[2]]
                /\ IF record \notin Unreported THEN Begin("handle", rest)
                   ELSE streamer' = [streamer EXCEPT !.batch = rest] /\ Forget /\ UNCHANGED cast
    /\ UNCHANGED <<clientVars, entries, errors>>

\* broadcast returns, or its exception is caught by _handle_stream_event or
\* _send_stats_event.
Return == Streamer(cast.then) /\ cast' = NoCast

\* The next step of the loop, after the send to cast.to ended as dead or not.
Advance(dead) ==
    IF Cardinality(connections) # cast.size
    THEN Return /\ UNCHANGED connections   \* RuntimeError
    ELSE IF cast.todo = {}
    THEN Return /\ connections' = connections \ dead
    ELSE /\ \E c \in cast.todo : cast' = [cast EXCEPT !.to = c, !.todo = @ \ {c}, !.dead = dead]
         /\ UNCHANGED <<connections, streamer>>

\* Mutant of SendEnds: an exception ends the loop.
SendEndsLoop ==
    /\ Sending
    /\ IF link[cast.to]
       THEN Advance(cast.dead) /\ missing' = missing \ {cast.to}
       ELSE Return /\ UNCHANGED <<connections, missing>>
    /\ UNCHANGED <<handler, link, changed, entries, lastIds, errors>>

\* A send to a client that is gone raises, or is swallowed.
SendEnds ==
    /\ Sending
    /\ IF link[cast.to]
       THEN Advance(cast.dead) /\ missing' = missing \ {cast.to}
       ELSE (Advance(cast.dead) \/ Advance(cast.dead \cup {cast.to})) /\ UNCHANGED missing
    /\ UNCHANGED <<handler, link, changed, entries, lastIds, errors>>

\* The API shuts down; CancelledError passes every handler but the outermost.
Cancel ==
    /\ streamer.pc # "cancelled"
    /\ streamer' = [streamer EXCEPT !.pc = "cancelled", !.batch = <<>>, !.from = NoPositions]
    /\ cast' = NoCast /\ Forget
    /\ UNCHANGED <<clientVars, entries, lastIds, errors>>

-----------------------------------------------------------------------------
FeedStep == Read \/ Answer \/ AnswerEmpty \/ ReadFails \/ WakeUp \/ CountQueue \/ HandleRecord \/ SendEnds
FeedNext ==
    \/ FeedStep \/ Cancel
    \/ \E c \in Clients : Accept(c) \/ Leave(c) \/ Disconnect(c)
    \/ \E s \in Channels : Add(s)

\* The event loop runs the task on, and the server's own pings end a send to a
\* client that does not read.  It also wakes the handler of a broken connection.
FeedFairness == WF_feedVars(FeedStep) /\ \A c \in Clients : WF_feedVars(Leave(c))
FeedSpec == InitFeed /\ [][FeedNext]_feedVars /\ FeedFairness

-----------------------------------------------------------------------------
\* Every variable has its type.
FeedTypeOK ==
    /\ connections \subseteq Clients
    /\ handler \in [Clients -> {"away", "served", "gone"}]
    /\ link \in [Clients -> BOOLEAN]
    /\ entries \in [Channels -> Nat]
    /\ lastIds \in [Channels -> {Latest} \cup Nat]
    /\ streamer \in [pc : {"top", "read", "handle", "count", "send", "sleep", "cancelled"},
                     from : [Channels -> Nat], batch : Seq(Channels \X Nat)]
    /\ cast \in [then : {"top", "handle"}, to : Clients \cup {NoClient},
              todo : SUBSET Clients, size : Nat, dead : SUBSET Clients]
    /\ changed \in BOOLEAN /\ missing \subseteq Clients /\ errors \in 0..MaxErrors

\* A broadcast that nobody joined or left reaches every client it began with
\* whose connection still works: a dead client costs the others nothing
\* (websocket.py:57-61).
UndisturbedReachesAll ==
    ~Sending /\ ~changed => \A c \in missing : ~link[c]

\* broadcast removes clients as well as their handlers do: whoever is served
\* over a working connection is registered, and nobody stays registered whose
\* handler has returned (websocket.py:62, 78, 106).
ServedIsRegistered ==
    \A c \in Clients :
        /\ handler[c] = "served" /\ link[c] => c \in connections
        /\ c \in connections => handler[c] = "served"

\* Failing reads and interrupted broadcasts do not stop the feed: once an entry
\* has made a stream's position known, every later one is handled in the end
\* (websocket.py:147, 152, 199).
FeedGoesOn ==
    \A s \in Channels, n \in 2..MaxEntries :
        (lastIds[s] # Latest /\ entries[s] >= n) ~> (lastIds[s] >= n \/ streamer.pc = "cancelled")
=============================================================================
