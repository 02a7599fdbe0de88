-------------------------------- MODULE Channel --------------------------------
(***************************************************************************)
(* The connection between a client and the daemon.                         *)
(*                                                                         *)
(* One Client holds one Unix socket behind a mutex, shared by all threads  *)
(* of its process (the eight threads of the mount, for one).  A call sends *)
(* one request and reads its answer: a single frame, or for the streaming  *)
(* operations any number of data frames and then SearchDone or an error.   *)
(* The daemon serves each connection with a thread of its own, and lets    *)
(* the database run one operation per request.                             *)
(*                                                                         *)
(* A frame is a record: the call it answers, its kind, and for data the    *)
(* first and last unit of that call's output it carries.  The call is      *)
(* written down for the properties; no end of the connection sees it.      *)
(* Whether a frame is over MAX_FRAME_SIZE is left to chance.               *)
(***************************************************************************)
EXTENDS Naturals, Sequences

CONSTANTS
    Calls,      \* calls of the client library, each made once
    Streaming,  \* those that read a stream of frames
    FrameUnits, \* STREAM_FRAME_BYTES, in units of output
    MaxUnits,   \* bound of the model: units of output of one operation
    Room,       \* frames the socket holds before a writer waits
    None

ASSUME CallsAssumption == Streaming \subseteq Calls /\ None \notin Calls

ASSUME SizesAssumption ==
    FrameUnits \in Nat \ {0} /\ MaxUnits \in Nat \ {0} /\ Room \in Nat \ {0}

VARIABLES
    stage,      \* how far each call is
    outcome,    \* what it returned
    answer,     \* the data frames it handed to its caller
    holder,     \* the call that holds Client.stream's mutex
    client,     \* the client's end of the socket: open or shut down
    up,         \* requests in the socket
    down,       \* frames in the socket
    server,     \* what the daemon's thread for the connection is doing
    serving,    \* the request it has read and not answered
    reply,      \* the last frame of its answer, once known
    buffer,     \* units in its ResponseBuffer
    effect,     \* what the database did with each call's operation
    produced,   \* units of output that the operation gave so far
    compatible  \* both ends were built with the same protocol VERSION

clientVars == <<stage, outcome, answer, holder, client>>
serverVars == <<server, serving, reply, buffer>>
databaseVars == <<effect, produced>>
vars == <<clientVars, up, down, serverVars, databaseVars, compatible>>

Data(c, m, n) == [call |-> c, kind |-> "data", first |-> m, last |-> n]
Done(c) == [call |-> c, kind |-> "done", first |-> 0, last |-> 0]
Error(c) == [call |-> c, kind |-> "error", first |-> 0, last |-> 0]

Init ==
    /\ stage = [c \in Calls |-> "idle"]
    /\ outcome = [c \in Calls |-> "none"]
    /\ answer = [c \in Calls |-> <<>>]
    /\ holder = None /\ client = "open"
    /\ up = <<>> /\ down = <<>>
    /\ server = "reading" /\ serving = None /\ reply = None /\ buffer = 0
    /\ effect = [c \in Calls |-> "none"]
    /\ produced = [c \in Calls |-> 0]
    /\ compatible \in BOOLEAN

-----------------------------------------------------------------------------
(* The client: call and stream_output.                                     *)

Call(c) ==
    /\ stage[c] = "idle"
    /\ stage' = [stage EXCEPT ![c] = "waiting"]
    /\ UNCHANGED <<outcome, answer, holder, client, up, down, serverVars, databaseVars, compatible>>

Lock(c) ==
    /\ stage[c] = "waiting" /\ holder = None
    /\ holder' = c
    /\ stage' = [stage EXCEPT ![c] = "sending"]
    /\ UNCHANGED <<outcome, answer, client, up, down, serverVars, databaseVars, compatible>>

\* Leave call or stream_output with outcome o, which drops the mutex guard.
Return(c, o) ==
    /\ stage' = [stage EXCEPT ![c] = "returned"]
    /\ outcome' = [outcome EXCEPT ![c] = o]
    /\ holder' = None

\* write_frame of the request.
Send(c) ==
    /\ stage[c] = "sending"
    /\ client = "open" /\ server # "closed"
    /\ up' = Append(up, c)
    /\ stage' = [stage EXCEPT ![c] = "reading"]
    /\ UNCHANGED <<outcome, answer, holder, client, down, serverVars, databaseVars, compatible>>

SendFails(c) ==
    /\ stage[c] = "sending"
    /\ client = "shut" \/ server = "closed"
    /\ Return(c, "lost")
    /\ UNCHANGED <<answer, client, up, down, serverVars, databaseVars, compatible>>

\* write_frame refuses the frame before it writes any of it.
RequestTooLarge(c) ==
    /\ stage[c] = "sending"
    /\ Return(c, "too_large")
    /\ UNCHANGED <<answer, client, up, down, serverVars, databaseVars, compatible>>

\* read_frame: take the next frame off the socket.  A Version or Remote error
\* ends the call, whatever it reads.
Read(c) ==
    /\ stage[c] = "reading" /\ down # <<>>
    /\ down' = Tail(down)
    /\ UNCHANGED <<up, serverVars, databaseVars, compatible>>

ReadError(c) ==
    /\ Read(c)
    /\ \/ ~compatible /\ Return(c, "version")
       \/ compatible /\ Head(down).kind = "error" /\ Return(c, "remote")
    /\ UNCHANGED <<answer, client>>

\* call, and the match on its result by the operation's method.
ReadAnswer(c) ==
    /\ Read(c) /\ c \notin Streaming
    /\ compatible /\ Head(down).kind # "error"
    /\ answer' = [answer EXCEPT ![c] = Append(@, Head(down))]
    /\ Return(c, IF Head(down).kind = "data" THEN "ok" ELSE "unexpected")
    /\ UNCHANGED client

\* stream_output: hand the data to the caller's writer and read on.
ReadData(c) ==
    /\ Read(c) /\ c \in Streaming
    /\ compatible /\ Head(down).kind = "data"
    /\ answer' = [answer EXCEPT ![c] = Append(@, Head(down))]
    /\ UNCHANGED <<stage, outcome, holder, client>>

\* Without the shutdown.
BrokenBreakPipe(c) ==
    /\ Read(c) /\ c \in Streaming
    /\ compatible /\ Head(down).kind = "data"
    /\ Return(c, "broken_pipe")
    /\ UNCHANGED <<answer, client>>

\* The caller's writer fails: shut the socket down, for what is left of the
\* answer would be read as the next call's.
BreakPipe(c) ==
    /\ Read(c) /\ c \in Streaming
    /\ compatible /\ Head(down).kind = "data"
    /\ client' = "shut"
    /\ Return(c, "broken_pipe")
    /\ UNCHANGED answer

ReadDone(c) ==
    /\ Read(c) /\ c \in Streaming
    /\ compatible /\ Head(down).kind = "done"
    /\ Return(c, "ok")
    /\ UNCHANGED <<answer, client>>

\* read_frame meets the end of the file.
LostReply(c) ==
    /\ stage[c] = "reading" /\ down = <<>> /\ server = "closed"
    /\ Return(c, "lost")
    /\ UNCHANGED <<answer, client, up, down, serverVars, databaseVars, compatible>>

-----------------------------------------------------------------------------
(* The daemon: serve_connection and ResponseBuffer.                        *)

\* serve_connection returns and its stream is dropped, or the daemon dies.
Hangup ==
    /\ server' = "closed"
    /\ serving' = None /\ reply' = None /\ buffer' = 0
    /\ UNCHANGED <<clientVars, up, down, databaseVars, compatible>>

ReadRequest ==
    /\ server = "reading" /\ up # <<>>
    /\ up' = Tail(up)
    /\ server' = "serving" /\ serving' = Head(up)
    /\ UNCHANGED <<clientVars, down, reply, buffer, databaseVars, compatible>>

\* A request of another version may not decode.
Undecodable == server = "reading" /\ up # <<>> /\ ~compatible /\ Hangup

ServerSeesEnd == server = "reading" /\ up = <<>> /\ client = "shut" /\ Hangup

\* The last frame of the answer is known.
Answer(f) ==
    /\ server' = "replying" /\ reply' = f /\ buffer' = 0
    /\ UNCHANGED <<clientVars, up, down, serving, databaseVars, compatible>>

\* The version differs, the volume does not resolve, the pattern is malformed,
\* the pool has no connection.
Refuse == server = "serving" /\ effect[serving] = "none" /\ Answer(Error(serving))

\* A failed operation is tried again.
BrokenBegin ==
    /\ server = "serving" /\ effect[serving] \in {"none", "failed"}
    /\ compatible
    /\ effect' = [effect EXCEPT ![serving] = "running"]
    /\ UNCHANGED <<clientVars, up, down, serverVars, produced, compatible>>

\* The database starts the operation.
Begin ==
    /\ server = "serving" /\ effect[serving] = "none"
    /\ compatible
    /\ effect' = [effect EXCEPT ![serving] = "running"]
    /\ UNCHANGED <<clientVars, up, down, serverVars, produced, compatible>>

\* Its callback adds a unit to the response buffer.
Produce ==
    /\ server = "serving" /\ serving \in Streaming /\ effect[serving] = "running"
    /\ buffer < FrameUnits /\ produced[serving] < MaxUnits
    /\ produced' = [produced EXCEPT ![serving] = @ + 1]
    /\ buffer' = buffer + 1
    /\ UNCHANGED <<clientVars, up, down, server, serving, reply, effect, compatible>>

\* ResponseBuffer.flush: of a full buffer, or of what is left at the end.
Flushing ==
    /\ server = "serving"
    /\ buffer = FrameUnits \/ (buffer > 0 /\ effect[serving] = "committed")

Flush ==
    /\ Flushing
    /\ client = "open" /\ Len(down) < Room
    /\ down' = Append(down,
                      Data(serving, produced[serving] - buffer + 1, produced[serving]))
    /\ buffer' = 0
    /\ UNCHANGED <<clientVars, up, server, serving, reply, databaseVars, compatible>>

\* An operation waits in the callback while its buffer is full.  Once the
\* daemon's end is gone the database ends it alone, either way.
End(c, e) ==
    /\ effect[c] = "running"
    /\ serving = c => buffer < FrameUnits
    /\ effect' = [effect EXCEPT ![c] = e]
    /\ UNCHANGED <<clientVars, up, down, serverVars, compatible>>

Commit(c) ==
    /\ End(c, "committed")
    /\ produced' = [produced EXCEPT ![c] = IF c \in Streaming THEN @ ELSE 1]

Abort(c) == End(c, "failed") /\ UNCHANGED produced

\* The daemon's connection to the database breaks before it hears the end.
Orphan(c) == End(c, "unknown") /\ UNCHANGED produced

\* The database call failed: an error follows what was flushed, the rest is
\* dropped.
AnswerError ==
    /\ server = "serving" /\ effect[serving] \in {"failed", "unknown"}
    /\ Answer(Error(serving))

AnswerData ==
    /\ server = "serving" /\ effect[serving] = "committed" /\ serving \notin Streaming
    /\ Answer(Data(serving, 1, produced[serving]))

\* Without the last flush.
BrokenAnswerDone ==
    /\ server = "serving" /\ effect[serving] = "committed"
    /\ serving \in Streaming
    /\ Answer(Done(serving))

AnswerDone ==
    /\ server = "serving" /\ effect[serving] = "committed"
    /\ serving \in Streaming /\ buffer = 0
    /\ Answer(Done(serving))

\* write_frame of the last frame, and the next request.
Reply ==
    /\ server = "replying"
    /\ client = "open" /\ Len(down) < Room
    /\ down' = Append(down, reply)
    /\ server' = "reading" /\ serving' = None /\ reply' = None
    /\ UNCHANGED <<clientVars, up, buffer, databaseVars, compatible>>

\* The error of write_frame is ignored and the next request awaited.
BrokenReplyTooLarge ==
    /\ server = "replying" /\ reply.kind = "data"
    /\ server' = "reading" /\ serving' = None /\ reply' = None
    /\ UNCHANGED <<clientVars, up, down, buffer, databaseVars, compatible>>

\* write_frame refuses the frame, after the operation has run.
ReplyTooLarge ==
    /\ server = "replying" /\ reply.kind = "data"
    /\ Hangup

\* A write to a socket that the client has shut down.
WriteFails ==
    /\ client = "shut"
    /\ server = "replying" \/ Flushing
    /\ Hangup

Crash == server # "closed" /\ Hangup

-----------------------------------------------------------------------------
ClientStep(c) ==
    \/ Lock(c) \/ Send(c) \/ SendFails(c) \/ RequestTooLarge(c)
    \/ ReadError(c) \/ ReadAnswer(c) \/ ReadData(c) \/ BreakPipe(c) \/ ReadDone(c)
    \/ LostReply(c)

DaemonStep ==
    \/ ReadRequest \/ Undecodable \/ ServerSeesEnd \/ Refuse \/ Begin \/ Flush
    \/ AnswerError \/ AnswerData \/ AnswerDone \/ Reply \/ ReplyTooLarge \/ WriteFails

DatabaseStep(c) == Commit(c) \/ Abort(c) \/ Orphan(c)

Next ==
    \/ \E c \in Calls : Call(c) \/ ClientStep(c) \/ DatabaseStep(c)
    \/ DaemonStep \/ Produce \/ Crash

\* Each thread that can go on does, and the database ends what it runs: no call
\* of the model has endless output.  Nothing makes a caller call, or a daemon die.
Fairness ==
    /\ \A c \in Calls : WF_vars(ClientStep(c)) /\ WF_vars(DatabaseStep(c))
    /\ WF_vars(DaemonStep)

Spec == Init /\ [][Next]_vars /\ Fairness

-----------------------------------------------------------------------------
Frames ==
    [call : Calls, kind : {"data", "done", "error"}, first : 0..MaxUnits, last : 0..MaxUnits]

ClientTypes ==
    /\ stage \in [Calls -> {"idle", "waiting", "sending", "reading", "returned"}]
    /\ outcome \in [Calls -> {"none", "ok", "remote", "version", "too_large",
                              "lost", "broken_pipe"}]
    /\ answer \in [Calls -> Seq(Frames)]
    /\ holder \in Calls \cup {None} /\ client \in {"open", "shut"}

SocketTypes == up \in Seq(Calls) /\ down \in Seq(Frames)

ServerTypes ==
    /\ server \in {"reading", "serving", "replying", "closed"}
    /\ serving \in Calls \cup {None} /\ reply \in Frames \cup {None}
    /\ buffer \in 0..FrameUnits

DatabaseTypes ==
    /\ effect \in [Calls -> {"none", "running", "committed", "failed", "unknown"}]
    /\ produced \in [Calls -> 0..MaxUnits]

TypeOK ==
    /\ ClientTypes /\ SocketTypes /\ ServerTypes /\ DatabaseTypes
    /\ compatible \in BOOLEAN

\* "One connection carries ordered request/response pairs" (client.rs:137): while
\* the socket is usable, whatever is in it or in the daemon's hands belongs to
\* the call that holds the mutex, and a call that is about to send finds the
\* socket empty and the daemon reading.
OneConversation ==
    client = "open" /\ server # "closed" =>
        /\ \A n \in DOMAIN up : up[n] = holder
        /\ \A n \in DOMAIN down : down[n].call = holder
        /\ serving \in {holder, None}
        /\ holder = None \/ stage[holder] = "sending" =>
            up = <<>> /\ down = <<>> /\ server = "reading"

\* What a call hands to its caller is its own operation's output, in order and
\* without a gap from its first unit; and when it returns success, all of it.
OwnAnswers ==
    \A c \in Calls :
        /\ \A n \in DOMAIN answer[c] :
            /\ answer[c][n].call = c
            /\ answer[c][n].first = IF n = 1 THEN 1 ELSE answer[c][n - 1].last + 1
            /\ answer[c][n].last <= produced[c]
        /\ outcome[c] = "ok" =>
            IF answer[c] = <<>> THEN produced[c] = 0
                                ELSE answer[c][Len(answer[c])].last = produced[c]

\* A call that is made returns: no thread waits for ever for the mutex or for a
\* frame, though the daemon may die, refuse to write a frame, or find the
\* client's end shut down in the middle of an answer.
Returns == \A c \in Calls : stage[c] = "waiting" ~> stage[c] = "returned"

\* An operation runs at most once, only for a caller that waits, and its caller
\* is told the truth: success is a committed operation, a remote error one that
\* changed nothing or whose end the daemon could not learn, "too large" and "version" one that was never run.
Remote ==
    INSTANCE RemoteCall WITH
        open <- {c \in Calls : stage[c] \notin {"idle", "returned"}}

Implements == Remote!Spec

=============================================================================
