----------------------------- MODULE ChannelProofs -----------------------------
(* Theorems about one connection, for any calls and any sizes.             *)
EXTENDS Channel, SequenceTheorems, TLAPS

(***************************************************************************)
(* The strengthening.  A frame that is not the last of its answer carries  *)
(* data of a streaming call; every other frame ends the call that reads it.*)
(***************************************************************************)
IsMiddle(f) == f.kind = "data" /\ f.call \in Streaming /\ compatible

\* What a frame says of its operation.
IsTrue(f) ==
    /\ f.kind = "error" => effect[f.call] \in {"none", "failed", "unknown"}
    /\ f.kind = "done" => f.call \in Streaming /\ effect[f.call] = "committed"
    /\ f.kind = "data" => effect[f.call] # "none"
    /\ f.kind = "data" /\ f.call \notin Streaming => effect[f.call] = "committed"

\* The mutex is held by the call that sends or reads; nothing ran for a call that
\* has not sent.
Holding ==
    /\ \A c \in Calls : stage[c] \in {"sending", "reading"} <=> holder = c
    /\ \A c \in Calls : effect[c] # "none" => stage[c] \in {"reading", "returned"}
    /\ \A c \in Calls : outcome[c] # "none" => stage[c] = "returned"
    /\ ~compatible => \A c \in Calls : effect[c] = "none"

\* The daemon keeps a reply only to send it, and a buffer only while it serves.
Serving ==
    /\ serving = None <=> server \in {"reading", "closed"}
    /\ server = "replying" =>
        /\ reply \in Frames /\ reply.call = serving
        /\ IsTrue(reply) /\ ~IsMiddle(reply)
    /\ buffer > 0 =>
        /\ server = "serving" /\ serving \in Streaming
        /\ buffer <= produced[serving] /\ effect[serving] # "none"

\* While the client's end is open, what is in the socket belongs to the holder.
FramesOpen ==
    client = "open" =>
        \A n \in DOMAIN down : down[n].call = holder /\ IsTrue(down[n])

\* Only the last frame in the socket can end an answer,
MiddlesOpen ==
    client = "open" => \A n \in DOMAIN down : n < Len(down) => IsMiddle(down[n])

\* there are frames only for a call that reads,
ReadingOpen ==
    client = "open" /\ down # <<>> => holder \in Calls /\ stage[holder] = "reading"

\* a request is alone in the socket and the daemon waits for it,
RequestOpen ==
    client = "open" /\ server # "closed" /\ up # <<>> =>
        /\ Len(up) = 1 /\ Head(up) = holder /\ stage[holder] = "reading"
        /\ server = "reading" /\ down = <<>>

\* the daemon serves the holder, which has no final frame yet,
ServingOpen ==
    client = "open" /\ serving # None =>
        /\ holder = serving /\ stage[holder] = "reading"
        /\ \A n \in DOMAIN down : IsMiddle(down[n])

\* and a daemon that reads again has sent the final frame.
EndOpen ==
    client = "open" /\ server = "reading" =>
        \A n \in DOMAIN down : n = Len(down) => ~IsMiddle(down[n])

\* Once the client's end is shut nobody reads or asks, and no operation begins.
Shut ==
    client = "shut" =>
        /\ \A c \in Calls : stage[c] # "reading"
        /\ server # "closed" => up = <<>>
        /\ serving # None => effect[serving] # "none"

\* The inductive invariant.
Conversation ==
    /\ TypeOK /\ Holding /\ Serving
    /\ FramesOpen /\ MiddlesOpen /\ ReadingOpen
    /\ RequestOpen /\ ServingOpen /\ EndOpen
    /\ Shut

-----------------------------------------------------------------------------
(* Sequences of frames.                                                    *)

LEMMA TailFacts ==
    ASSUME NEW S, NEW s \in Seq(S), s # <<>>
    PROVE  /\ Head(s) \in S /\ Head(s) = s[1] /\ 1 \in DOMAIN s
           /\ Tail(s) \in Seq(S)
           /\ Len(s) \in Nat /\ Len(Tail(s)) = Len(s) - 1
           /\ \A n \in DOMAIN Tail(s) :
                n \in Nat /\ n + 1 \in DOMAIN s /\ Tail(s)[n] = s[n + 1]
           /\ Tail(s) # <<>> => 1 < Len(s)
  BY SMT

LEMMA AppendFacts ==
    ASSUME NEW S, NEW s \in Seq(S), NEW x \in S
    PROVE  /\ Append(s, x) \in Seq(S)
           /\ Len(s) \in Nat /\ Len(Append(s, x)) = Len(s) + 1
           /\ Append(s, x) # <<>>
           /\ \A n \in DOMAIN Append(s, x) :
                \/ n = Len(s) + 1 /\ Append(s, x)[n] = x
                \/ n \in DOMAIN s /\ n < Len(s) + 1 /\ Append(s, x)[n] = s[n]
  BY SMT


\* What a call finds when it reads a frame.
ReadFinds(c) ==
    /\ holder = c /\ client = "open" /\ outcome[c] = "none"
    /\ Head(down) \in Frames /\ Head(down).call = c /\ IsTrue(Head(down))
    /\ down' \in Seq(Frames)
    /\ ~IsMiddle(Head(down)) => down' = <<>>
    /\ \A n \in DOMAIN down' :
        /\ down'[n] = down[n + 1] /\ n + 1 \in DOMAIN down
        /\ n + 1 = Len(down) <=> n = Len(down')
        /\ n + 1 < Len(down) <=> n < Len(down')

LEMMA ReadFacts ==
    ASSUME Conversation, NEW c \in Calls, Read(c)
    PROVE  ReadFinds(c)
<1>1. down \in Seq(Frames) /\ down # <<>>
  BY DEF Conversation, TypeOK, SocketTypes, Read
<1>2. holder = c /\ client = "open" /\ outcome[c] = "none"
  BY DEF Conversation, TypeOK, ClientTypes, Holding, Shut, Read
<1>3. Head(down) \in Frames /\ Head(down) = down[1] /\ 1 \in DOMAIN down
  BY <1>1, TailFacts
<1>4. Head(down).call = c /\ IsTrue(Head(down))
  BY <1>2, <1>3 DEF Conversation, FramesOpen
<1>5. ~IsMiddle(Head(down)) => Tail(down) = <<>>
  BY <1>1, <1>2, <1>3, TailFacts DEF Conversation, MiddlesOpen
<1>6. /\ Tail(down) \in Seq(Frames)
      /\ \A n \in DOMAIN Tail(down) :
            /\ Tail(down)[n] = down[n + 1] /\ n + 1 \in DOMAIN down
            /\ n + 1 = Len(down) <=> n = Len(Tail(down))
            /\ n + 1 < Len(down) <=> n < Len(Tail(down))
  BY <1>1, SMT
<1>. QED  BY <1>2, <1>3, <1>4, <1>5, <1>6 DEF Read, ReadFinds

LEMMA CallKeeps ==
    ASSUME Conversation, NEW c \in Calls, Call(c)
    PROVE  Conversation'
<1> USE DEF Conversation, TypeOK, Call, clientVars, serverVars, databaseVars
<1>1. (SocketTypes /\ ServerTypes /\ DatabaseTypes /\ Serving /\ FramesOpen
      /\ MiddlesOpen /\ EndOpen)'
  BY DEF SocketTypes, ServerTypes, DatabaseTypes, Serving, FramesOpen, MiddlesOpen,
     EndOpen, IsTrue, IsMiddle
<1>2. ClientTypes'
  BY DEF ClientTypes
<1>3. Holding'
  BY DEF Holding
<1>4. ReadingOpen'
  BY DEF ReadingOpen
<1>5. RequestOpen'
  BY DEF RequestOpen
<1>6. ServingOpen'
  BY DEF ServingOpen, IsMiddle
<1>7. Shut'
  BY DEF Shut
<1>. QED  BY <1>1, <1>2, <1>3, <1>4, <1>5, <1>6, <1>7

LEMMA LockKeeps ==
    ASSUME Conversation, NEW c \in Calls, Lock(c)
    PROVE  Conversation'
<1> USE DEF Conversation, TypeOK, Lock, clientVars, serverVars, databaseVars
<1>1. (SocketTypes /\ ServerTypes /\ DatabaseTypes /\ Serving /\ MiddlesOpen
      /\ EndOpen)'
  BY DEF SocketTypes, ServerTypes, DatabaseTypes, Serving, MiddlesOpen, EndOpen,
     IsTrue, IsMiddle
<1>2. ClientTypes'
  BY DEF ClientTypes
<1>3. Holding'
  BY CallsAssumption DEF ClientTypes, Holding
<1>4. FramesOpen'
  BY CallsAssumption DEF FramesOpen, ReadingOpen
<1>5. ReadingOpen'
  BY CallsAssumption DEF ReadingOpen
<1>6. RequestOpen'
  BY CallsAssumption DEF SocketTypes, RequestOpen
<1>7. ServingOpen'
  BY DEF ServingOpen
<1>8. Shut'
  BY DEF Shut
<1>. QED  BY <1>1, <1>2, <1>3, <1>4, <1>5, <1>6, <1>7, <1>8

LEMMA SendKeeps ==
    ASSUME Conversation, NEW c \in Calls, Send(c)
    PROVE  Conversation'
<1> USE DEF Conversation, TypeOK, Send, clientVars, serverVars, databaseVars
<1>1. (ServerTypes /\ DatabaseTypes /\ Serving /\ FramesOpen /\ MiddlesOpen
      /\ EndOpen)'
  BY DEF ServerTypes, DatabaseTypes, Serving, FramesOpen, MiddlesOpen, EndOpen,
     IsTrue, IsMiddle
<1>2. ClientTypes'
  BY DEF ClientTypes
<1>3. SocketTypes'
  BY DEF SocketTypes
<1>4. Holding'
  BY DEF Holding
<1>5. ReadingOpen'
  BY DEF ReadingOpen
<1>6. RequestOpen'
  BY DEF ClientTypes, Holding, RequestOpen, ReadingOpen, Serving, ServingOpen
<1>7. ServingOpen'
  BY DEF Holding, ServingOpen
<1>8. Shut'
  BY DEF Shut
<1>. QED  BY <1>1, <1>2, <1>3, <1>4, <1>5, <1>6, <1>7, <1>8

LEMMA SendFailsKeeps ==
    ASSUME Conversation, NEW c \in Calls, SendFails(c)
    PROVE  Conversation'
<1> USE DEF Conversation, TypeOK, SendFails, Return, clientVars, serverVars,
   databaseVars
<1>1. (SocketTypes /\ ServerTypes /\ DatabaseTypes /\ Serving /\ MiddlesOpen
      /\ EndOpen)'
  BY DEF SocketTypes, ServerTypes, DatabaseTypes, Serving, MiddlesOpen, EndOpen,
     IsTrue, IsMiddle
<1>2. ClientTypes'
  BY DEF ClientTypes
<1>3. Holding'
  BY CallsAssumption DEF ClientTypes, Holding
<1>4. FramesOpen'
  BY DEF Holding, FramesOpen, ReadingOpen
<1>5. ReadingOpen'
  BY DEF Holding, ReadingOpen
<1>6. RequestOpen'
  BY DEF RequestOpen
<1>7. ServingOpen'
  BY DEF Holding, ServingOpen
<1>8. Shut'
  BY DEF Shut
<1>. QED  BY <1>1, <1>2, <1>3, <1>4, <1>5, <1>6, <1>7, <1>8

LEMMA RequestTooLargeKeeps ==
    ASSUME Conversation, NEW c \in Calls, RequestTooLarge(c)
    PROVE  Conversation'
<1> USE DEF Conversation, TypeOK, RequestTooLarge, Return, clientVars, serverVars,
   databaseVars
<1>1. (SocketTypes /\ ServerTypes /\ DatabaseTypes /\ Serving /\ MiddlesOpen
      /\ EndOpen)'
  BY DEF SocketTypes, ServerTypes, DatabaseTypes, Serving, MiddlesOpen, EndOpen,
     IsTrue, IsMiddle
<1>2. ClientTypes'
  BY DEF ClientTypes
<1>3. Holding'
  BY CallsAssumption DEF ClientTypes, Holding
<1>4. FramesOpen'
  BY DEF Holding, FramesOpen, ReadingOpen
<1>5. ReadingOpen'
  BY DEF Holding, ReadingOpen
<1>6. RequestOpen'
  BY DEF Holding, RequestOpen
<1>7. ServingOpen'
  BY DEF Holding, ServingOpen
<1>8. Shut'
  BY DEF Shut
<1>. QED  BY <1>1, <1>2, <1>3, <1>4, <1>5, <1>6, <1>7, <1>8

LEMMA ReadErrorKeeps ==
    ASSUME Conversation, NEW c \in Calls, ReadError(c)
    PROVE  Conversation'
<1>a. ReadFinds(c)
  BY ReadFacts DEF ReadError
<1> USE DEF Conversation, TypeOK, ReadError, Read, Return, clientVars, serverVars,
   databaseVars
<1>b. down' = <<>>
  BY <1>a DEF ReadFinds, IsMiddle
<1>c. PICK o \in {"version", "remote"} : Return(c, o)
  OBVIOUS
<1>1. (ServerTypes /\ DatabaseTypes /\ Serving)'
  BY DEF ServerTypes, DatabaseTypes, Serving, IsTrue, IsMiddle
<1>2. ClientTypes'
  BY <1>c DEF ClientTypes
<1>3. SocketTypes'
  BY DEF SocketTypes
<1>4. Holding'
  BY <1>a, <1>c, CallsAssumption DEF ReadFinds, Holding, ClientTypes
<1>5. FramesOpen'
  BY <1>b DEF FramesOpen
<1>6. MiddlesOpen'
  BY DEF MiddlesOpen, IsMiddle
<1>7. ReadingOpen'
  BY DEF SocketTypes, MiddlesOpen, ReadingOpen, IsMiddle
<1>8. RequestOpen'
  BY DEF RequestOpen
<1>9. ServingOpen'
  BY DEF SocketTypes, ServingOpen, IsMiddle
<1>10. EndOpen'
  BY <1>b DEF EndOpen
<1>11. Shut'
  BY DEF Shut
<1>. QED  BY <1>1, <1>2, <1>3, <1>4, <1>5, <1>6, <1>7, <1>8, <1>9, <1>10, <1>11

LEMMA ReadAnswerKeeps ==
    ASSUME Conversation, NEW c \in Calls, ReadAnswer(c)
    PROVE  Conversation'
<1>a. ReadFinds(c)
  BY ReadFacts DEF ReadAnswer
<1> USE DEF Conversation, TypeOK, ReadAnswer, Read, Return, clientVars, serverVars,
   databaseVars
<1>b. down' = <<>>
  BY <1>a DEF ReadFinds, IsMiddle
<1>c. Head(down).kind = "data"
  BY <1>a DEF ReadFinds, Frames, IsTrue
<1>1. (ServerTypes /\ DatabaseTypes /\ Serving)'
  BY DEF ServerTypes, DatabaseTypes, Serving, IsTrue, IsMiddle
<1>2. ClientTypes'
  BY <1>a, <1>c DEF ClientTypes, ReadFinds
<1>3. SocketTypes'
  BY DEF SocketTypes
<1>4. Holding'
  BY CallsAssumption DEF ClientTypes, Holding
<1>5. FramesOpen'
  BY <1>b DEF FramesOpen
<1>6. MiddlesOpen'
  BY DEF MiddlesOpen, IsMiddle
<1>7. ReadingOpen'
  BY <1>b DEF ReadingOpen
<1>8. RequestOpen'
  BY DEF RequestOpen
<1>9. ServingOpen'
  BY <1>a DEF ServingOpen, IsMiddle, ReadFinds
<1>10. EndOpen'
  BY <1>b DEF EndOpen
<1>11. Shut'
  BY DEF Shut
<1>. QED  BY <1>1, <1>2, <1>3, <1>4, <1>5, <1>6, <1>7, <1>8, <1>9, <1>10, <1>11

LEMMA ReadDataKeeps ==
    ASSUME Conversation, NEW c \in Calls, ReadData(c)
    PROVE  Conversation'
<1>a. ReadFinds(c)
  BY ReadFacts DEF ReadData
<1> USE DEF Conversation, TypeOK, ReadData, Read, clientVars, serverVars,
   databaseVars
<1>1. (ServerTypes /\ DatabaseTypes /\ Holding /\ Serving /\ Shut)'
  BY DEF ServerTypes, DatabaseTypes, Holding, Serving, Shut, IsTrue, IsMiddle
<1>2. ClientTypes'
  BY DEF ClientTypes, SocketTypes
<1>3. SocketTypes'
  BY DEF SocketTypes
<1>4. FramesOpen'
  <2> SUFFICES ASSUME client' = "open", NEW n \in DOMAIN down'
               PROVE  (down[n].call = holder /\ IsTrue(down[n]))'
    BY DEF FramesOpen
  <2>1. down[n + 1].call = holder /\ IsTrue(down[n + 1])
    BY <1>a DEF ReadFinds, FramesOpen
  <2>. QED  BY <1>a, <2>1 DEF ReadFinds, IsTrue
<1>5. MiddlesOpen'
  BY DEF MiddlesOpen, IsMiddle
<1>6. ReadingOpen'
  BY DEF ReadingOpen
<1>7. RequestOpen'
  BY DEF RequestOpen
<1>8. ServingOpen'
  BY DEF SocketTypes, ServingOpen, IsMiddle
<1>9. EndOpen'
  <2> SUFFICES ASSUME server = "reading", NEW n \in DOMAIN down', n = Len(down')
               PROVE  ~IsMiddle(down[n + 1])
    BY <1>a DEF EndOpen, IsMiddle, ReadFinds
  <2>. QED  BY <1>a DEF EndOpen, ReadFinds
<1>. QED  BY <1>1, <1>2, <1>3, <1>4, <1>5, <1>6, <1>7, <1>8, <1>9

LEMMA BreakPipeKeeps ==
    ASSUME Conversation, NEW c \in Calls, BreakPipe(c)
    PROVE  Conversation'
<1>a. ReadFinds(c)
  BY ReadFacts DEF BreakPipe
<1> USE DEF Conversation, TypeOK, BreakPipe, Read, Return, clientVars, serverVars,
   databaseVars
<1>1. (ServerTypes /\ DatabaseTypes /\ Serving)'
  BY DEF ServerTypes, DatabaseTypes, Serving, IsTrue, IsMiddle
<1>2. ClientTypes'
  BY DEF ClientTypes
<1>3. SocketTypes'
  BY DEF SocketTypes
<1>4. Holding'
  BY CallsAssumption DEF ClientTypes, Holding
<1>5. FramesOpen'
  BY DEF FramesOpen
<1>6. MiddlesOpen'
  BY DEF MiddlesOpen
<1>7. ReadingOpen'
  BY DEF ReadingOpen
<1>8. RequestOpen'
  BY DEF RequestOpen
<1>9. ServingOpen'
  BY DEF ServingOpen
<1>10. EndOpen'
  BY DEF EndOpen
<1>11. Shut'
  BY <1>a DEF ClientTypes, Holding, Shut, RequestOpen, IsTrue, ServingOpen,
     ReadFinds
<1>. QED  BY <1>1, <1>2, <1>3, <1>4, <1>5, <1>6, <1>7, <1>8, <1>9, <1>10, <1>11

LEMMA ReadDoneKeeps ==
    ASSUME Conversation, NEW c \in Calls, ReadDone(c)
    PROVE  Conversation'
<1>a. ReadFinds(c)
  BY ReadFacts DEF ReadDone
<1> USE DEF Conversation, TypeOK, ReadDone, Read, Return, clientVars, serverVars,
   databaseVars
<1>b. down' = <<>>
  BY <1>a DEF ReadFinds, IsMiddle
<1>1. (ServerTypes /\ DatabaseTypes /\ Serving)'
  BY DEF ServerTypes, DatabaseTypes, Serving, IsTrue, IsMiddle
<1>2. ClientTypes'
  BY DEF ClientTypes
<1>3. SocketTypes'
  BY DEF SocketTypes
<1>4. Holding'
  BY CallsAssumption DEF ClientTypes, Holding
<1>5. FramesOpen'
  BY <1>b DEF FramesOpen
<1>6. MiddlesOpen'
  BY DEF MiddlesOpen, IsMiddle
<1>7. ReadingOpen'
  BY <1>b DEF ReadingOpen
<1>8. RequestOpen'
  BY DEF RequestOpen
<1>9. ServingOpen'
  BY DEF SocketTypes, ServingOpen, IsMiddle
<1>10. EndOpen'
  BY <1>b DEF EndOpen
<1>11. Shut'
  BY DEF Shut
<1>. QED  BY <1>1, <1>2, <1>3, <1>4, <1>5, <1>6, <1>7, <1>8, <1>9, <1>10, <1>11

LEMMA LostReplyKeeps ==
    ASSUME Conversation, NEW c \in Calls, LostReply(c)
    PROVE  Conversation'
<1> USE DEF Conversation, TypeOK, LostReply, Return, clientVars, serverVars,
   databaseVars
<1>1. (SocketTypes /\ ServerTypes /\ DatabaseTypes /\ Serving /\ MiddlesOpen
      /\ EndOpen)'
  BY DEF SocketTypes, ServerTypes, DatabaseTypes, Serving, MiddlesOpen, EndOpen,
     IsTrue, IsMiddle
<1>2. ClientTypes'
  BY DEF ClientTypes
<1>3. Holding'
  BY CallsAssumption DEF ClientTypes, Holding
<1>4. FramesOpen'
  BY DEF FramesOpen
<1>5. ReadingOpen'
  BY DEF ReadingOpen
<1>6. RequestOpen'
  BY DEF RequestOpen
<1>7. ServingOpen'
  BY DEF Serving, ServingOpen
<1>8. Shut'
  BY DEF Shut
<1>. QED  BY <1>1, <1>2, <1>3, <1>4, <1>5, <1>6, <1>7, <1>8

\* Also Undecodable, ServerSeesEnd, ReplyTooLarge, WriteFails and Crash.
LEMMA HangupKeeps ==
    ASSUME Conversation, Hangup
    PROVE  Conversation'
<1> USE DEF Conversation, TypeOK, Hangup, clientVars, serverVars, databaseVars
<1>1. (ClientTypes /\ SocketTypes /\ DatabaseTypes /\ Holding /\ FramesOpen
      /\ MiddlesOpen /\ ReadingOpen)'
  BY DEF ClientTypes, SocketTypes, DatabaseTypes, Holding, FramesOpen, MiddlesOpen,
     ReadingOpen, IsTrue, IsMiddle
<1>2. ServerTypes'
  BY SizesAssumption DEF ServerTypes
<1>3. Serving'
  BY DEF Serving
<1>4. RequestOpen'
  BY DEF RequestOpen
<1>5. ServingOpen'
  BY DEF ServingOpen
<1>6. EndOpen'
  BY DEF EndOpen
<1>7. Shut'
  BY DEF Shut
<1>. QED  BY <1>1, <1>2, <1>3, <1>4, <1>5, <1>6, <1>7

LEMMA ReadRequestKeeps ==
    ASSUME Conversation, ReadRequest
    PROVE  Conversation'
<1> USE DEF Conversation, TypeOK, ReadRequest, clientVars, serverVars, databaseVars
<1>1. (ClientTypes /\ DatabaseTypes /\ Holding /\ FramesOpen /\ MiddlesOpen
      /\ ReadingOpen)'
  BY DEF ClientTypes, DatabaseTypes, Holding, FramesOpen, MiddlesOpen, ReadingOpen,
     IsTrue, IsMiddle
<1>2. SocketTypes'
  BY DEF SocketTypes
<1>3. ServerTypes'
  BY DEF ServerTypes, SocketTypes
<1>4. Serving'
  BY CallsAssumption DEF SocketTypes, Serving
<1>5. RequestOpen'
  <2>1. client = "open" => Len(up) = 1
    BY DEF RequestOpen
  <2>2. client = "open" => up' = <<>>
    BY <2>1, TailFacts DEF SocketTypes
  <2>. QED  BY <2>2 DEF RequestOpen
<1>6. ServingOpen'
  BY DEF RequestOpen, ServingOpen
<1>7. EndOpen'
  BY DEF EndOpen
<1>8. Shut'
  BY DEF Shut
<1>. QED  BY <1>1, <1>2, <1>3, <1>4, <1>5, <1>6, <1>7, <1>8

LEMMA RefuseKeeps ==
    ASSUME Conversation, Refuse
    PROVE  Conversation'
<1> USE DEF Conversation, TypeOK, Refuse, Answer, Error, clientVars, serverVars,
   databaseVars
<1>1. (ClientTypes /\ SocketTypes /\ DatabaseTypes /\ Holding /\ FramesOpen
      /\ MiddlesOpen /\ ReadingOpen /\ ServingOpen)'
  BY DEF ClientTypes, SocketTypes, DatabaseTypes, Holding, FramesOpen, MiddlesOpen,
     ReadingOpen, ServingOpen, IsTrue, IsMiddle
<1>2. ServerTypes'
  BY SizesAssumption DEF ServerTypes, Serving, Frames
<1>3. Serving'
  BY SizesAssumption DEF ServerTypes, Frames, Serving, IsTrue, IsMiddle
<1>4. RequestOpen'
  BY DEF RequestOpen
<1>5. EndOpen'
  BY DEF EndOpen
<1>6. Shut'
  BY DEF Shut
<1>. QED  BY <1>1, <1>2, <1>3, <1>4, <1>5, <1>6

LEMMA BeginKeeps ==
    ASSUME Conversation, Begin
    PROVE  Conversation'
<1> USE DEF Conversation, TypeOK, Begin, clientVars, serverVars, databaseVars
<1>1. (ClientTypes /\ SocketTypes /\ ServerTypes /\ MiddlesOpen /\ ReadingOpen
      /\ RequestOpen /\ ServingOpen /\ EndOpen)'
  BY DEF ClientTypes, SocketTypes, ServerTypes, MiddlesOpen, ReadingOpen,
     RequestOpen, ServingOpen, EndOpen, IsMiddle
<1>2. DatabaseTypes'
  BY DEF ServerTypes, DatabaseTypes, Serving
<1>3. Holding'
  BY DEF ClientTypes, Holding, Serving, Shut, ServingOpen
<1>4. Serving'
  BY DEF Serving
<1>5. FramesOpen'
  BY CallsAssumption, SizesAssumption DEF Holding, Serving, FramesOpen,
     MiddlesOpen, ReadingOpen, ServingOpen, RequestOpen, IsTrue, IsMiddle
<1>6. Shut'
  BY DEF Shut
<1>. QED  BY <1>1, <1>2, <1>3, <1>4, <1>5, <1>6

LEMMA ProduceKeeps ==
    ASSUME Conversation, Produce
    PROVE  Conversation'
<1> USE DEF Conversation, TypeOK, Produce, clientVars, serverVars, databaseVars
<1>1. (ClientTypes /\ SocketTypes /\ Holding /\ FramesOpen /\ MiddlesOpen
      /\ ReadingOpen /\ RequestOpen /\ ServingOpen /\ EndOpen /\ Shut)'
  BY DEF ClientTypes, SocketTypes, Holding, FramesOpen, MiddlesOpen, ReadingOpen,
     RequestOpen, ServingOpen, EndOpen, Shut, IsTrue, IsMiddle
<1>2. ServerTypes'
  BY SizesAssumption DEF ServerTypes
<1>3. DatabaseTypes'
  BY SizesAssumption DEF ServerTypes, DatabaseTypes, Serving
<1>4. Serving'
  BY DEF ServerTypes, DatabaseTypes, Holding, Serving
<1>. QED  BY <1>1, <1>2, <1>3, <1>4

LEMMA FlushKeeps ==
    ASSUME Conversation, Flush
    PROVE  Conversation'
<1> USE DEF Conversation, TypeOK, Flush, Flushing, Data, clientVars, serverVars,
   databaseVars
<1>1. (ClientTypes /\ DatabaseTypes /\ Holding /\ Shut)'
  BY DEF ClientTypes, DatabaseTypes, Holding, Shut
<1>2. SocketTypes'
  BY SizesAssumption DEF SocketTypes, Frames, Serving, ServerTypes, DatabaseTypes
<1>3. ServerTypes'
  BY SizesAssumption DEF ServerTypes
<1>4. Serving'
  BY DEF Serving
<1>5. FramesOpen'
  <2> SUFFICES ASSUME client' = "open", NEW n \in DOMAIN down'
               PROVE  (down[n].call = holder /\ IsTrue(down[n]))'
    BY DEF FramesOpen
  <2> DEFINE f == Data(serving, produced[serving] - buffer + 1, produced[serving])
  <2>1. serving \in Calls /\ holder = serving /\ effect[serving] # "none" /\ serving \in Streaming
    BY CallsAssumption, SizesAssumption DEF ServerTypes, Serving, ServingOpen
  <2>2. f \in Frames /\ down \in Seq(Frames)
    BY <2>1, SizesAssumption DEF ServerTypes, SocketTypes, DatabaseTypes, Serving, Frames
  <2>3. f.call = holder /\ IsTrue(f)
    BY <2>1 DEF IsTrue
  <2>4. down' = Append(down, f)
    OBVIOUS
  <2> HIDE DEF f
  <2>5. CASE down'[n] = f
    BY <2>3, <2>5 DEF IsTrue
  <2>6. CASE n \in DOMAIN down /\ down'[n] = down[n]
    BY <2>6 DEF FramesOpen, IsTrue
  <2>. QED  BY <2>2, <2>4, <2>5, <2>6, AppendFacts
<1>6. MiddlesOpen'
  BY DEF MiddlesOpen, ServingOpen, IsMiddle, Serving
<1>7. ReadingOpen'
  BY DEF ClientTypes, Serving, ReadingOpen, ServingOpen
<1>8. RequestOpen'
  BY DEF RequestOpen
<1>9. ServingOpen'
  BY SizesAssumption DEF ClientTypes, DatabaseTypes, Holding, Serving, ServingOpen,
     IsMiddle
<1>10. EndOpen'
  BY DEF EndOpen
<1>. QED  BY <1>1, <1>2, <1>3, <1>4, <1>5, <1>6, <1>7, <1>8, <1>9, <1>10

LEMMA CommitKeeps ==
    ASSUME Conversation, NEW c \in Calls, Commit(c)
    PROVE  Conversation'
<1> USE DEF Conversation, TypeOK, Commit, End, clientVars, serverVars, databaseVars
<1>1. (ClientTypes /\ SocketTypes /\ ServerTypes /\ MiddlesOpen /\ ReadingOpen
      /\ RequestOpen /\ ServingOpen /\ EndOpen)'
  BY DEF ClientTypes, SocketTypes, ServerTypes, MiddlesOpen, ReadingOpen,
     RequestOpen, ServingOpen, EndOpen, IsMiddle
<1>2. DatabaseTypes'
  BY SizesAssumption DEF DatabaseTypes
<1>3. Holding'
  BY DEF Holding
<1>4. Serving'
  BY DEF Serving, IsTrue, IsMiddle
<1>5. FramesOpen'
  <2> SUFFICES ASSUME client' = "open", NEW n \in DOMAIN down'
               PROVE  (down[n].call = holder /\ IsTrue(down[n]))'
    BY DEF FramesOpen
  <2>1. n \in DOMAIN down /\ down[n].call = holder /\ IsTrue(down[n]) /\ down[n] \in Frames
    BY DEF FramesOpen, SocketTypes
  <2>. QED  BY <2>1 DEF IsTrue, Frames, DatabaseTypes
<1>6. Shut'
  BY DEF Shut
<1>. QED  BY <1>1, <1>2, <1>3, <1>4, <1>5, <1>6

LEMMA AbortKeeps ==
    ASSUME Conversation, NEW c \in Calls, Abort(c)
    PROVE  Conversation'
<1> USE DEF Conversation, TypeOK, Abort, End, clientVars, serverVars, databaseVars
<1>1. (ClientTypes /\ SocketTypes /\ ServerTypes /\ MiddlesOpen /\ ReadingOpen
      /\ RequestOpen /\ ServingOpen /\ EndOpen)'
  BY DEF ClientTypes, SocketTypes, ServerTypes, MiddlesOpen, ReadingOpen,
     RequestOpen, ServingOpen, EndOpen, IsMiddle
<1>2. DatabaseTypes'
  BY DEF DatabaseTypes
<1>3. Holding'
  BY DEF Holding
<1>4. Serving'
  BY DEF Serving, IsTrue, IsMiddle
<1>5. FramesOpen'
  <2> SUFFICES ASSUME client' = "open", NEW n \in DOMAIN down'
               PROVE  (down[n].call = holder /\ IsTrue(down[n]))'
    BY DEF FramesOpen
  <2>1. n \in DOMAIN down /\ down[n].call = holder /\ IsTrue(down[n]) /\ down[n] \in Frames
    BY DEF FramesOpen, SocketTypes
  <2>. QED  BY <2>1 DEF IsTrue, Frames, DatabaseTypes
<1>6. Shut'
  BY DEF Shut
<1>. QED  BY <1>1, <1>2, <1>3, <1>4, <1>5, <1>6

LEMMA OrphanKeeps ==
    ASSUME Conversation, NEW c \in Calls, Orphan(c)
    PROVE  Conversation'
<1> USE DEF Conversation, TypeOK, Orphan, End, clientVars, serverVars, databaseVars
<1>1. (ClientTypes /\ SocketTypes /\ ServerTypes /\ MiddlesOpen /\ ReadingOpen
      /\ RequestOpen /\ ServingOpen /\ EndOpen)'
  BY DEF ClientTypes, SocketTypes, ServerTypes, MiddlesOpen, ReadingOpen,
     RequestOpen, ServingOpen, EndOpen, IsMiddle
<1>2. DatabaseTypes'
  BY DEF DatabaseTypes
<1>3. Holding'
  BY DEF Holding
<1>4. Serving'
  BY DEF Serving, IsTrue, IsMiddle
<1>5. FramesOpen'
  <2> SUFFICES ASSUME client' = "open", NEW n \in DOMAIN down'
               PROVE  (down[n].call = holder /\ IsTrue(down[n]))'
    BY DEF FramesOpen
  <2>1. n \in DOMAIN down /\ down[n].call = holder /\ IsTrue(down[n]) /\ down[n] \in Frames
    BY DEF FramesOpen, SocketTypes
  <2>. QED  BY <2>1 DEF IsTrue, Frames, DatabaseTypes
<1>6. Shut'
  BY DEF Shut
<1>. QED  BY <1>1, <1>2, <1>3, <1>4, <1>5, <1>6

LEMMA AnswerErrorKeeps ==
    ASSUME Conversation, AnswerError
    PROVE  Conversation'
<1> USE DEF Conversation, TypeOK, AnswerError, Answer, Error, clientVars,
   serverVars, databaseVars
<1>1. (ClientTypes /\ SocketTypes /\ DatabaseTypes /\ Holding /\ FramesOpen
      /\ MiddlesOpen /\ ReadingOpen /\ ServingOpen)'
  BY DEF ClientTypes, SocketTypes, DatabaseTypes, Holding, FramesOpen, MiddlesOpen,
     ReadingOpen, ServingOpen, IsTrue, IsMiddle
<1>2. ServerTypes'
  BY SizesAssumption DEF ServerTypes, Serving, Frames
<1>3. Serving'
  BY SizesAssumption DEF ServerTypes, Frames, Serving, IsTrue, IsMiddle
<1>4. RequestOpen'
  BY DEF RequestOpen
<1>5. EndOpen'
  BY DEF EndOpen
<1>6. Shut'
  BY DEF Shut
<1>. QED  BY <1>1, <1>2, <1>3, <1>4, <1>5, <1>6

LEMMA AnswerDataKeeps ==
    ASSUME Conversation, AnswerData
    PROVE  Conversation'
<1> USE DEF Conversation, TypeOK, AnswerData, Answer, Data, clientVars, serverVars,
   databaseVars
<1>1. (ClientTypes /\ SocketTypes /\ DatabaseTypes /\ Holding /\ FramesOpen
      /\ MiddlesOpen /\ ReadingOpen /\ ServingOpen)'
  BY DEF ClientTypes, SocketTypes, DatabaseTypes, Holding, FramesOpen, MiddlesOpen,
     ReadingOpen, ServingOpen, IsTrue, IsMiddle
<1>2. ServerTypes'
  BY SizesAssumption DEF ServerTypes, DatabaseTypes, Serving, Frames
<1>3. Serving'
  BY SizesAssumption DEF ServerTypes, DatabaseTypes, Frames, Serving, IsTrue,
     IsMiddle
<1>4. RequestOpen'
  BY DEF RequestOpen
<1>5. EndOpen'
  BY DEF EndOpen
<1>6. Shut'
  BY DEF Shut
<1>. QED  BY <1>1, <1>2, <1>3, <1>4, <1>5, <1>6

LEMMA AnswerDoneKeeps ==
    ASSUME Conversation, AnswerDone
    PROVE  Conversation'
<1> USE DEF Conversation, TypeOK, AnswerDone, Answer, Done, clientVars, serverVars,
   databaseVars
<1>1. (ClientTypes /\ SocketTypes /\ DatabaseTypes /\ Holding /\ FramesOpen
      /\ MiddlesOpen /\ ReadingOpen /\ ServingOpen)'
  BY DEF ClientTypes, SocketTypes, DatabaseTypes, Holding, FramesOpen, MiddlesOpen,
     ReadingOpen, ServingOpen, IsTrue, IsMiddle
<1>2. ServerTypes'
  BY SizesAssumption DEF ServerTypes, Serving, Frames
<1>3. Serving'
  BY SizesAssumption DEF ServerTypes, Frames, Serving, IsTrue, IsMiddle
<1>4. RequestOpen'
  BY DEF RequestOpen
<1>5. EndOpen'
  BY DEF EndOpen
<1>6. Shut'
  BY DEF Shut
<1>. QED  BY <1>1, <1>2, <1>3, <1>4, <1>5, <1>6

LEMMA ReplyKeeps ==
    ASSUME Conversation, Reply
    PROVE  Conversation'
<1> USE DEF Conversation, TypeOK, Reply, clientVars, serverVars, databaseVars
<1>1. (ClientTypes /\ DatabaseTypes /\ Holding)'
  BY DEF ClientTypes, DatabaseTypes, Holding
<1>2. SocketTypes'
  BY DEF SocketTypes, Serving
<1>3. ServerTypes'
  BY DEF ServerTypes
<1>4. Serving'
  BY DEF Serving
<1>5. FramesOpen'
  <2> SUFFICES ASSUME client' = "open", NEW n \in DOMAIN down'
               PROVE  (down[n].call = holder /\ IsTrue(down[n]))'
    BY DEF FramesOpen
  <2>1. reply \in Frames /\ down \in Seq(Frames) /\ reply.call = holder /\ IsTrue(reply)
    BY DEF SocketTypes, Serving, ServingOpen
  <2>5. CASE down'[n] = reply
    BY <2>1, <2>5 DEF IsTrue
  <2>6. CASE n \in DOMAIN down /\ down'[n] = down[n]
    BY <2>6 DEF FramesOpen, IsTrue
  <2>. QED  BY <2>1, <2>5, <2>6, AppendFacts
<1>6. MiddlesOpen'
  BY DEF MiddlesOpen, ServingOpen, IsMiddle, Serving
<1>7. ReadingOpen'
  BY DEF ClientTypes, Serving, ReadingOpen, ServingOpen
<1>8. RequestOpen'
  BY DEF RequestOpen
<1>9. ServingOpen'
  BY DEF ServingOpen
<1>10. EndOpen'
  BY DEF Serving, EndOpen, IsMiddle
<1>11. Shut'
  BY DEF Shut
<1>. QED  BY <1>1, <1>2, <1>3, <1>4, <1>5, <1>6, <1>7, <1>8, <1>9, <1>10, <1>11

-----------------------------------------------------------------------------
(* The invariant.                                                          *)

LEMMA InitConversation == Init => Conversation
<1> SUFFICES ASSUME Init PROVE Conversation
  OBVIOUS
<1> USE DEF Init
<1>1. TypeOK
  BY SizesAssumption
  DEF TypeOK, ClientTypes, SocketTypes, ServerTypes, DatabaseTypes, Frames
<1>2. Holding /\ Serving /\ Shut
  BY CallsAssumption DEF Holding, Serving, Shut
<1>3. FramesOpen /\ MiddlesOpen /\ ReadingOpen /\ RequestOpen /\ ServingOpen /\ EndOpen
  BY DEF FramesOpen, MiddlesOpen, ReadingOpen, RequestOpen, ServingOpen, EndOpen
<1>. QED  BY <1>1, <1>2, <1>3 DEF Conversation

LEMMA NextConversation == Conversation /\ [Next]_vars => Conversation'
<1> SUFFICES ASSUME Conversation, [Next]_vars PROVE Conversation'
  OBVIOUS
<1>1. ASSUME NEW c \in Calls, Call(c) \/ ClientStep(c) \/ DatabaseStep(c)
      PROVE  Conversation'
  BY <1>1, CallKeeps, LockKeeps, SendKeeps, SendFailsKeeps, RequestTooLargeKeeps,
     ReadErrorKeeps, ReadAnswerKeeps, ReadDataKeeps, BreakPipeKeeps, ReadDoneKeeps,
     LostReplyKeeps, CommitKeeps, AbortKeeps, OrphanKeeps
  DEF ClientStep, DatabaseStep
<1>2. CASE DaemonStep \/ Produce \/ Crash
  BY <1>2, ReadRequestKeeps, HangupKeeps, RefuseKeeps, BeginKeeps, FlushKeeps,
     AnswerErrorKeeps, AnswerDataKeeps, AnswerDoneKeeps, ReplyKeeps, ProduceKeeps
  DEF DaemonStep, Undecodable, ServerSeesEnd, ReplyTooLarge, WriteFails, Crash
<1>3. CASE UNCHANGED vars
  <2> USE <1>3 DEF Conversation, vars, clientVars, serverVars, databaseVars
  <2>1. TypeOK'
    BY DEF TypeOK, ClientTypes, SocketTypes, ServerTypes, DatabaseTypes
  <2>2. (Holding /\ Serving /\ Shut)'
    BY DEF Holding, Serving, Shut, IsTrue, IsMiddle
  <2>3. (FramesOpen /\ MiddlesOpen /\ ReadingOpen)'
    BY DEF FramesOpen, MiddlesOpen, ReadingOpen, IsTrue, IsMiddle
  <2>4. (RequestOpen /\ ServingOpen /\ EndOpen)'
    BY DEF RequestOpen, ServingOpen, EndOpen, IsMiddle
  <2>. QED  BY <2>1, <2>2, <2>3, <2>4
<1>. QED  BY <1>1, <1>2, <1>3 DEF Next

\* In every reachable state the socket, the daemon's thread and the holder of
\* the mutex are at matching places of one request and its answer.
THEOREM Invariant == Spec => []Conversation
<1>1. Init => Conversation
  BY InitConversation
<1>2. Conversation /\ [Next]_vars => Conversation'
  BY NextConversation
<1>. QED  BY <1>1, <1>2, PTL DEF Spec

\* Every frame and every variable keeps its type; no call ever meets a frame that
\* its operation does not answer with (UnexpectedResponse).
THEOREM FramesTyped == Spec => []TypeOK
<1>1. Conversation => TypeOK
  BY DEF Conversation
<1>. QED  BY <1>1, Invariant, PTL

\* Whatever is in the socket belongs to the call that holds the mutex, and the
\* next call finds the connection quiet: for any number of calls, any sizes of
\* answers, and any failures.
THEOREM OneAtATime == Spec => []OneConversation
<1>1. ASSUME Conversation, client = "open", server # "closed"
      PROVE  /\ \A n \in DOMAIN up : up[n] = holder
             /\ \A n \in DOMAIN down : down[n].call = holder
             /\ serving \in {holder, None}
  <2>1. \A n \in DOMAIN up : up[n] = holder
    BY <1>1 DEF Conversation, RequestOpen, TypeOK, SocketTypes
  <2>. QED  BY <1>1, <2>1 DEF Conversation, FramesOpen, ServingOpen
<1>2. ASSUME Conversation, client = "open", server # "closed",
             holder = None \/ stage[holder] = "sending"
      PROVE  up = <<>> /\ down = <<>> /\ server = "reading"
  <2>1. holder \in Calls => stage[holder] # "reading"
    BY <1>2, CallsAssumption
  <2>2. down = <<>>
    BY <1>2, <2>1 DEF Conversation, ReadingOpen
  <2>3. serving = None
    BY <1>2, <2>1, CallsAssumption
    DEF Conversation, ServingOpen, TypeOK, ServerTypes
  <2>4. server = "reading"
    BY <1>2, <2>3 DEF Conversation, Serving
  <2>5. up = <<>>
    BY <1>2, <2>1 DEF Conversation, RequestOpen, TypeOK, SocketTypes
  <2>. QED  BY <2>2, <2>4, <2>5
<1>3. Conversation => OneConversation
  BY <1>1, <1>2 DEF OneConversation
<1>. QED  BY <1>3, Invariant, PTL

-----------------------------------------------------------------------------
(* What the caller is told.                                                *)

LEMMA ReturnRefines ==
    ASSUME TypeOK, NEW c \in Calls, NEW o, Return(c, o),
           stage[c] \in {"sending", "reading"}, UNCHANGED databaseVars
    PROVE  Remote!Return(c, o)
  BY DEF TypeOK, ClientTypes, Return, databaseVars, Remote!Return

\* The calls that are open change only where a call is made or returns.
LEMMA StillOpen ==
    ASSUME TypeOK, NEW c \in Calls, NEW s \in {"sending", "reading"},
           stage[c] \in {"waiting", "sending"}, stage' = [stage EXCEPT ![c] = s],
           UNCHANGED <<effect, outcome>>
    PROVE  UNCHANGED Remote!vars
  BY DEF TypeOK, ClientTypes, Remote!vars

LEMMA ClientRefines ==
    ASSUME Conversation, NEW c \in Calls, Call(c) \/ ClientStep(c)
    PROVE  [Remote!Next]_Remote!vars
<1> USE DEF databaseVars
<1>1. TypeOK
  BY DEF Conversation
<1>2. CASE Call(c)
  <2>1. outcome[c] = "none"
    BY <1>1, <1>2 DEF Call, Conversation, Holding, TypeOK, ClientTypes
  <2>2. Remote!Call(c)
    BY <1>1, <1>2, <2>1 DEF Call, TypeOK, ClientTypes, Remote!Call
  <2>. QED  BY <2>2 DEF Remote!Next
<1>3. CASE Lock(c)
  BY <1>1, <1>3, StillOpen DEF Lock
<1>4. CASE Send(c)
  BY <1>1, <1>4, StillOpen DEF Send
<1>5. CASE SendFails(c)
  <2>1. Remote!Return(c, "lost")
    BY <1>1, <1>5, ReturnRefines DEF SendFails
  <2>. QED  BY <2>1 DEF Remote!Next, Remote!Lost
<1>6. CASE RequestTooLarge(c)
  <2>1. Remote!Return(c, "too_large")
    BY <1>1, <1>6, ReturnRefines DEF RequestTooLarge
  <2>2. effect[c] = "none"
    BY <1>6 DEF RequestTooLarge, Conversation, Holding
  <2>. QED  BY <2>1, <2>2 DEF Remote!Next, Remote!NotSent
<1>7. CASE ReadError(c)
  <2>1. ReadFinds(c) /\ stage[c] = "reading"
    BY <1>7, ReadFacts DEF ReadError, Read
  <2>2. CASE ~compatible /\ Return(c, "version")
    <3>1. Remote!Return(c, "version")
      BY <1>1, <1>7, <2>1, <2>2, ReturnRefines DEF ReadError, Read
    <3>2. effect[c] = "none"
      BY <2>2 DEF Conversation, Holding
    <3>. QED  BY <3>1, <3>2 DEF Remote!Next, Remote!NotSent
  <2>3. CASE Head(down).kind = "error" /\ Return(c, "remote")
    <3>1. Remote!Return(c, "remote")
      BY <1>1, <1>7, <2>1, <2>3, ReturnRefines DEF ReadError, Read
    <3>2. effect[c] \in {"none", "failed", "unknown"}
      BY <2>1, <2>3 DEF ReadFinds, IsTrue
    <3>. QED  BY <3>1, <3>2 DEF Remote!Next, Remote!Refused
  <2>. QED  BY <1>7, <2>2, <2>3 DEF ReadError
<1>8. CASE ReadAnswer(c)
  <2>1. ReadFinds(c) /\ stage[c] = "reading"
    BY <1>8, ReadFacts DEF ReadAnswer, Read
  <2>2. Head(down).kind = "data"
    BY <1>8, <2>1 DEF ReadAnswer, ReadFinds, Frames, IsTrue
  <2>3. Return(c, "ok") /\ UNCHANGED databaseVars
    BY <1>8, <2>2 DEF ReadAnswer, Read
  <2>4. Remote!Return(c, "ok")
    BY <1>1, <2>1, <2>3, ReturnRefines
  <2>5. effect[c] = "committed"
    BY <1>8, <2>1, <2>2 DEF ReadAnswer, ReadFinds, IsTrue
  <2>. QED  BY <2>4, <2>5 DEF Remote!Next, Remote!Succeed
<1>9. CASE ReadData(c)
  BY <1>9 DEF ReadData, Read, Remote!vars
<1>10. CASE BreakPipe(c)
  <2>1. Remote!Return(c, "broken_pipe")
    BY <1>1, <1>10, ReturnRefines DEF BreakPipe, Read
  <2>. QED  BY <2>1 DEF Remote!Next, Remote!Lost
<1>11. CASE ReadDone(c)
  <2>1. ReadFinds(c)
    BY <1>11, ReadFacts DEF ReadDone
  <2>2. Remote!Return(c, "ok")
    BY <1>1, <1>11, ReturnRefines DEF ReadDone, Read
  <2>3. effect[c] = "committed"
    BY <1>11, <2>1 DEF ReadDone, ReadFinds, IsTrue
  <2>. QED  BY <2>2, <2>3 DEF Remote!Next, Remote!Succeed
<1>12. CASE LostReply(c)
  <2>1. Remote!Return(c, "lost")
    BY <1>1, <1>12, ReturnRefines DEF LostReply
  <2>. QED  BY <2>1 DEF Remote!Next, Remote!Lost
<1>. QED
  BY <1>2, <1>3, <1>4, <1>5, <1>6, <1>7, <1>8, <1>9, <1>10, <1>11, <1>12
  DEF ClientStep

LEMMA DatabaseRefines ==
    ASSUME Conversation, NEW c \in Calls, DatabaseStep(c)
    PROVE  [Remote!Next]_Remote!vars
<1>1. Remote!End(c)
  BY DEF DatabaseStep, Commit, Abort, Orphan, End, clientVars, Remote!End
<1>. QED  BY <1>1 DEF Remote!Next

LEMMA DaemonRefines ==
    ASSUME Conversation, DaemonStep \/ Produce \/ Crash
    PROVE  [Remote!Next]_Remote!vars
<1>1. CASE Begin
  <2>1. serving \in Calls
    BY <1>1 DEF Begin, Conversation, Serving, TypeOK, ServerTypes
  <2>2. client = "open"
    BY <1>1, <2>1, CallsAssumption
    DEF Begin, Conversation, Shut, TypeOK, ClientTypes
  <2>3. stage[serving] = "reading"
    BY <2>1, <2>2, CallsAssumption DEF Conversation, ServingOpen
  <2>4. Remote!Begin(serving)
    BY <1>1, <2>1, <2>3 DEF Begin, clientVars, Remote!Begin
  <2>. QED  BY <2>1, <2>4 DEF Remote!Next
<1>2. CASE ~Begin
  BY <1>2
  DEF DaemonStep, ReadRequest, Undecodable, ServerSeesEnd, Hangup, Refuse, Answer,
      Flush, AnswerError, AnswerData, AnswerDone, Reply, ReplyTooLarge, WriteFails,
      Produce, Crash, clientVars, databaseVars, Remote!vars
<1>. QED  BY <1>1, <1>2

\* An operation runs at most once, only while its caller waits, and what its
\* caller is told of it is true: the connection implements RemoteCall.
THEOREM CallsAreHonest == Spec => Implements
<1>1. Init => Remote!Init
  BY DEF Init, Remote!Init
<1>2. Conversation /\ [Next]_vars => [Remote!Next]_Remote!vars
  <2> SUFFICES ASSUME Conversation, [Next]_vars
               PROVE  [Remote!Next]_Remote!vars
    OBVIOUS
  <2>1. CASE UNCHANGED vars
    BY <2>1 DEF vars, clientVars, databaseVars, Remote!vars
  <2>2. CASE Next
    BY <2>2, ClientRefines, DatabaseRefines, DaemonRefines DEF Next
  <2>. QED  BY <2>1, <2>2
<1>. QED  BY <1>1, <1>2, Invariant, PTL DEF Spec, Implements, Remote!Spec

-----------------------------------------------------------------------------
(***************************************************************************)
(* What the caller is handed.  The output of an operation is at one place  *)
(* at a time: what its caller has, what is in the socket and what is in    *)
(* the daemon's buffer follow each other without a gap.                    *)
(***************************************************************************)

\* The last unit before frame n of s, when unit `at' comes before s.
Before(s, n, at) == IF n = 1 THEN at ELSE s[n - 1].last
Upto(s, at) == Before(s, Len(s) + 1, at)

\* The frames s hand over units of call c, of which there are top, from the first.
Handed(s, c, top) ==
    \A n \in DOMAIN s :
        s[n].call = c /\ s[n].first = Before(s, n, 0) + 1 /\ s[n].last <= top

CallOutput(c) ==
    /\ Handed(answer[c], c, produced[c])
    /\ outcome[c] = "ok" => effect[c] = "committed" /\ Upto(answer[c], 0) = produced[c]
    /\ effect[c] = "none" => produced[c] = 0
    /\ stage[c] \notin {"reading", "returned"} => answer[c] = <<>>
    /\ c \notin Streaming /\ (stage[c] # "returned" \/ effect[c] # "committed") =>
        answer[c] = <<>>

\* The frames s go on after unit `at' of an output of top units; the data of a
\* call that does not stream is all of its output.
Follows(s, at, top, whole) ==
    \A n \in DOMAIN s :
        /\ s[n].kind = "data" =>
            /\ s[n].first = Before(s, n, at) + 1 /\ s[n].last <= top
            /\ whole => s[n].last = top
        /\ s[n].kind = "done" => Before(s, n, at) = top

\* What the daemon has of the output of the call c that it serves.
ToCome(c, at) ==
    /\ server = "serving" /\ c \in Streaming => at + buffer = produced[c]
    /\ server = "replying" =>
        /\ reply.kind = "data" => reply.first = 1 /\ reply.last = produced[c]
        /\ reply.kind = "done" => at = produced[c]
    /\ up # <<>> /\ server # "closed" => effect[c] = "none" /\ answer[c] = <<>>

SocketOutput(c) ==
    client = "open" /\ holder = c =>
        LET at == Upto(answer[c], 0)
        IN /\ Follows(down, at, produced[c], c \notin Streaming)
           /\ ToCome(c, Upto(down, at))

Output == \A c \in Calls : CallOutput(c) /\ SocketOutput(c)

(* Where a unit of output is when frames come and go.                      *)

LEMMA LastNat ==
    ASSUME NEW s \in Seq(Frames), NEW n \in DOMAIN s
    PROVE  s[n].last \in Nat
<1>1. s[n] \in Frames
  BY SMT
<1>. QED  BY <1>1, SizesAssumption, SMT DEF Frames

LEMMA UptoNat ==
    ASSUME NEW s \in Seq(Frames), NEW at \in Nat
    PROVE  /\ Upto(s, at) \in Nat
           /\ s = <<>> => Upto(s, at) = at
<1>1. CASE s = <<>>
  BY <1>1 DEF Upto, Before
<1>2. CASE s # <<>>
  <2>1. s[Len(s)] \in Frames /\ Len(s) + 1 # 1 /\ Len(s) + 1 - 1 = Len(s)
    BY <1>2, SMT
  <2>2. s[Len(s)].last \in Nat
    BY <2>1, SizesAssumption, SMT DEF Frames
  <2>. QED  BY <1>2, <2>1, <2>2 DEF Upto, Before
<1>. QED  BY <1>1, <1>2

LEMMA BeforeTail ==
    ASSUME NEW s \in Seq(Frames), s # <<>>, NEW at \in Nat,
           NEW n \in 1..(Len(Tail(s)) + 1)
    PROVE  Before(Tail(s), n, Head(s).last) = Before(s, n + 1, at)
  BY SMT DEF Before

LEMMA BeforeAppend ==
    ASSUME NEW s \in Seq(Frames), NEW f \in Frames, NEW at \in Nat
    PROVE  /\ \A n \in 1..(Len(s) + 1) : Before(Append(s, f), n, at) = Before(s, n, at)
           /\ Upto(Append(s, f), at) = f.last
  BY SMT DEF Before, Upto

LEMMA FollowsTail ==
    ASSUME NEW s \in Seq(Frames), s # <<>>, NEW at \in Nat, NEW top \in Nat, NEW whole,
           Follows(s, at, top, whole)
    PROVE  /\ Follows(Tail(s), Head(s).last, top, whole)
           /\ Upto(Tail(s), Head(s).last) = Upto(s, at)
<1>1. ASSUME NEW n \in DOMAIN Tail(s)
      PROVE  /\ n + 1 \in DOMAIN s /\ Tail(s)[n] = s[n + 1]
             /\ Before(Tail(s), n, Head(s).last) = Before(s, n + 1, at)
  <2>1. n \in 1..(Len(Tail(s)) + 1)
    BY <1>1, SMT
  <2>. QED  BY <1>1, <2>1, BeforeTail, TailFacts
<1>2. Upto(Tail(s), Head(s).last) = Upto(s, at)
  <2>1. Len(Tail(s)) + 1 \in 1..(Len(Tail(s)) + 1) /\ Len(Tail(s)) + 1 = Len(s)
    BY SMT
  <2>. QED  BY <2>1, BeforeTail DEF Upto
<1>. QED  BY <1>1, <1>2 DEF Follows

LEMMA FollowsAppend ==
    ASSUME NEW s \in Seq(Frames), NEW f \in Frames, NEW at \in Nat, NEW top \in Nat,
           NEW whole, Follows(s, at, top, whole),
           f.kind = "data" =>
                f.first = Upto(s, at) + 1 /\ f.last <= top /\ (whole => f.last = top),
           f.kind = "done" => Upto(s, at) = top
    PROVE  Follows(Append(s, f), at, top, whole)
<1>1. ASSUME NEW n \in DOMAIN Append(s, f)
      PROVE  /\ Before(Append(s, f), n, at) = Before(s, n, at)
             /\ \/ n \in DOMAIN s /\ Append(s, f)[n] = s[n]
                \/ n = Len(s) + 1 /\ Append(s, f)[n] = f
  <2>1. n \in 1..(Len(s) + 1)
    BY <1>1, SMT
  <2>. QED  BY <1>1, <2>1, AppendFacts, BeforeAppend
<1>. QED  BY <1>1 DEF Follows, Upto

LEMMA HandedAppend ==
    ASSUME NEW s \in Seq(Frames), NEW f \in Frames, NEW c, NEW top \in Nat,
           Handed(s, c, top), f.call = c, f.first = Upto(s, 0) + 1, f.last <= top
    PROVE  Handed(Append(s, f), c, top)
<1>1. ASSUME NEW n \in DOMAIN Append(s, f)
      PROVE  /\ Before(Append(s, f), n, 0) = Before(s, n, 0)
             /\ \/ n \in DOMAIN s /\ Append(s, f)[n] = s[n]
                \/ n = Len(s) + 1 /\ Append(s, f)[n] = f
  <2>1. n \in 1..(Len(s) + 1)
    BY <1>1, SMT
  <2>. QED  BY <1>1, <2>1, AppendFacts, BeforeAppend
<1>. QED  BY <1>1 DEF Handed, Upto

\* The places that the invariant speaks of.
At(c) == Upto(answer[c], 0)
AtSent(c) == Upto(down, At(c))

LEMMA OutputTypes ==
    ASSUME Conversation, NEW c \in Calls
    PROVE  /\ answer[c] \in Seq(Frames) /\ down \in Seq(Frames)
           /\ produced[c] \in Nat /\ buffer \in Nat
           /\ At(c) \in Nat /\ AtSent(c) \in Nat
           /\ answer[c] = <<>> => At(c) = 0
           /\ down = <<>> => AtSent(c) = At(c)
<1>1. answer[c] \in Seq(Frames) /\ down \in Seq(Frames)
      /\ produced[c] \in Nat /\ buffer \in Nat
  BY SizesAssumption
  DEF Conversation, TypeOK, ClientTypes, SocketTypes, ServerTypes, DatabaseTypes
<1>2. 0 \in Nat
  OBVIOUS
<1>3. At(c) \in Nat /\ (answer[c] = <<>> => At(c) = 0)
  BY <1>1, <1>2, UptoNat DEF At
<1>4. AtSent(c) \in Nat /\ (down = <<>> => AtSent(c) = At(c))
  BY <1>1, <1>3, UptoNat DEF AtSent
<1>. QED  BY <1>1, <1>3, <1>4

\* A call for which nothing is handed over, made or decided.
LEMMA CallOutputKept ==
    ASSUME NEW c \in Calls, CallOutput(c),
           answer'[c] = answer[c], produced'[c] = produced[c],
           outcome'[c] = "ok" => outcome[c] = "ok",
           effect[c] = "committed" => effect'[c] = "committed",
           effect'[c] = "none" => effect[c] = "none",
           stage[c] = "reading" => stage'[c] \in {"reading", "returned"},
           stage[c] = "returned" => stage'[c] = "returned" /\ effect'[c] = effect[c]
    PROVE  CallOutput(c)'
  BY DEF CallOutput

\* A step that leaves the frames of the holder where they are.
LEMMA SocketOutputKept ==
    ASSUME NEW c \in Calls, SocketOutput(c),
           client' = "open" /\ holder' = c =>
                /\ client = "open" /\ holder = c
                /\ answer'[c] = answer[c] /\ down' = down /\ produced'[c] = produced[c],
           ToCome(c, AtSent(c)) => ToCome(c, AtSent(c))'
    PROVE  SocketOutput(c)'
  BY DEF SocketOutput, At, AtSent

LEMMA CallHands ==
    ASSUME Conversation, Output, NEW c \in Calls, Call(c)
    PROVE  Output'
<1> SUFFICES ASSUME NEW d \in Calls PROVE (CallOutput(d) /\ SocketOutput(d))'
  BY DEF Output
<1> USE DEF Conversation, TypeOK, Call, clientVars, serverVars, databaseVars
<1>1. CallOutput(d)'
  BY DEF Output, CallOutput, ClientTypes
<1>2. SocketOutput(d)'
  BY SocketOutputKept DEF Output, ToCome, AtSent, At
<1>. QED  BY <1>1, <1>2

LEMMA LockHands ==
    ASSUME Conversation, Output, NEW c \in Calls, Lock(c)
    PROVE  Output'
<1> SUFFICES ASSUME NEW d \in Calls PROVE (CallOutput(d) /\ SocketOutput(d))'
  BY DEF Output
<1> USE DEF Conversation, TypeOK, Lock, clientVars, serverVars, databaseVars
<1>1. CallOutput(d)'
  BY DEF Output, CallOutput, ClientTypes
<1>2. client = "open" => down = <<>> /\ serving = None /\ (server # "closed" => up = <<>>)
  BY CallsAssumption, TailFacts
  DEF ReadingOpen, ServingOpen, RequestOpen, SocketTypes, ServerTypes
<1>3. SocketOutput(d)'
  BY <1>2 DEF SocketOutput, Follows, ToCome, Serving
<1>. QED  BY <1>1, <1>3

LEMMA SendHands ==
    ASSUME Conversation, Output, NEW c \in Calls, Send(c)
    PROVE  Output'
<1> SUFFICES ASSUME NEW d \in Calls PROVE (CallOutput(d) /\ SocketOutput(d))'
  BY DEF Output
<1> USE DEF Conversation, TypeOK, Send, clientVars, serverVars, databaseVars
<1>1. CallOutput(d)'
  BY DEF Output, CallOutput, ClientTypes
<1>2. effect[c] = "none" /\ answer[c] = <<>> /\ holder = c
  BY DEF Holding, Output, CallOutput
<1>3. serving = None
  BY <1>2 DEF ServingOpen
<1>4. ToCome(d, AtSent(d))' \/ d # c
  BY <1>2, <1>3 DEF ToCome, Serving
<1>5. SocketOutput(d)'
  BY <1>2, <1>4 DEF Output, SocketOutput, AtSent, At
<1>. QED  BY <1>1, <1>5

LEMMA SendFailsHands ==
    ASSUME Conversation, Output, NEW c \in Calls, SendFails(c)
    PROVE  Output'
<1> SUFFICES ASSUME NEW d \in Calls PROVE (CallOutput(d) /\ SocketOutput(d))'
  BY DEF Output
<1>1. CallOutput(d)'
  BY DEF Conversation, TypeOK, SendFails, Return, serverVars, databaseVars, Output,
     CallOutput, ClientTypes
<1>2. SocketOutput(d)'
  BY CallsAssumption DEF SendFails, Return, SocketOutput
<1>. QED  BY <1>1, <1>2

LEMMA RequestTooLargeHands ==
    ASSUME Conversation, Output, NEW c \in Calls, RequestTooLarge(c)
    PROVE  Output'
<1> SUFFICES ASSUME NEW d \in Calls PROVE (CallOutput(d) /\ SocketOutput(d))'
  BY DEF Output
<1>1. CallOutput(d)'
  BY DEF Conversation, TypeOK, RequestTooLarge, Return, serverVars, databaseVars, Output,
     CallOutput, ClientTypes
<1>2. SocketOutput(d)'
  BY CallsAssumption DEF RequestTooLarge, Return, SocketOutput
<1>. QED  BY <1>1, <1>2

LEMMA LostReplyHands ==
    ASSUME Conversation, Output, NEW c \in Calls, LostReply(c)
    PROVE  Output'
<1> SUFFICES ASSUME NEW d \in Calls PROVE (CallOutput(d) /\ SocketOutput(d))'
  BY DEF Output
<1>1. CallOutput(d)'
  BY DEF Conversation, TypeOK, LostReply, Return, serverVars, databaseVars, Output,
     CallOutput, ClientTypes
<1>2. SocketOutput(d)'
  BY CallsAssumption DEF LostReply, Return, SocketOutput
<1>. QED  BY <1>1, <1>2

LEMMA ReadErrorHands ==
    ASSUME Conversation, Output, NEW c \in Calls, ReadError(c)
    PROVE  Output'
<1> SUFFICES ASSUME NEW d \in Calls PROVE (CallOutput(d) /\ SocketOutput(d))'
  BY DEF Output
<1>1. CallOutput(d)'
  BY DEF Conversation, TypeOK, ReadError, Read, Return, serverVars, databaseVars, Output,
     CallOutput, ClientTypes
<1>2. SocketOutput(d)'
  BY CallsAssumption DEF ReadError, Return, SocketOutput
<1>. QED  BY <1>1, <1>2

LEMMA BreakPipeHands ==
    ASSUME Conversation, Output, NEW c \in Calls, BreakPipe(c)
    PROVE  Output'
<1> SUFFICES ASSUME NEW d \in Calls PROVE (CallOutput(d) /\ SocketOutput(d))'
  BY DEF Output
<1>1. CallOutput(d)'
  BY DEF Conversation, TypeOK, BreakPipe, Read, Return, serverVars, databaseVars, Output,
     CallOutput, ClientTypes
<1>2. SocketOutput(d)'
  BY CallsAssumption DEF BreakPipe, Return, SocketOutput
<1>. QED  BY <1>1, <1>2

LEMMA ReadAnswerHands ==
    ASSUME Conversation, Output, NEW c \in Calls, ReadAnswer(c)
    PROVE  Output'
<1> SUFFICES ASSUME NEW d \in Calls PROVE (CallOutput(d) /\ SocketOutput(d))'
  BY DEF Output
<1> DEFINE f == Head(down)
<1>1. ReadFinds(c) /\ stage[c] = "reading" /\ down # <<>>
  BY ReadFacts DEF ReadAnswer, Read
<1>2. f.kind = "data" /\ f = down[1] /\ 1 \in DOMAIN down /\ f \in Frames
      /\ effect[c] = "committed" /\ f.call = c
  BY <1>1, TailFacts
  DEF ReadAnswer, ReadFinds, Frames, IsTrue, Conversation, TypeOK, SocketTypes
<1>3. answer[c] = <<>>
  BY <1>1 DEF ReadAnswer, Output, CallOutput
<1>4. At(c) = 0
  BY <1>3, OutputTypes
<1>5. f.first = 1 /\ f.last = produced[c]
  BY <1>1, <1>2, <1>4
  DEF ReadAnswer, Output, SocketOutput, Follows, ReadFinds, Before, At
<1>6. answer' = [answer EXCEPT ![c] = Append(answer[c], f)]
  BY DEF ReadAnswer
<1>7. produced[c] \in Nat /\ answer[c] \in Seq(Frames)
  BY OutputTypes
<1> HIDE DEF f
<1>8. Handed(Append(answer[c], f), c, produced[c])
      /\ Upto(Append(answer[c], f), 0) = produced[c]
  <2>1. Handed(answer[c], c, produced[c]) /\ Upto(answer[c], 0) = 0
    BY <1>4 DEF At, Output, CallOutput
  <2>2. f.first = Upto(answer[c], 0) + 1 /\ f.last <= produced[c] /\ 0 \in Nat
    BY <1>5, <1>7, <2>1, SMT
  <2>3. Handed(Append(answer[c], f), c, produced[c])
    BY <1>2, <1>7, <2>1, <2>2, HandedAppend
  <2>. QED  BY <1>2, <1>5, <1>7, <2>2, <2>3, BeforeAppend
<1>9. CallOutput(d)'
  <2>1. stage' = [stage EXCEPT ![c] = "returned"] /\ effect' = effect
        /\ produced' = produced /\ outcome' = [outcome EXCEPT ![c] = "ok"]
    BY <1>2 DEF ReadAnswer, Read, Return, databaseVars, f
  <2>2. CASE d = c
    BY <1>2, <1>6, <1>8, <2>1, <2>2
    DEF CallOutput, Conversation, TypeOK, ClientTypes
  <2>3. CASE d # c
    BY <1>6, <2>1, <2>3 DEF Output, CallOutput, Conversation, TypeOK, ClientTypes
  <2>. QED  BY <2>2, <2>3
<1>10. SocketOutput(d)'
  BY CallsAssumption DEF ReadAnswer, Return, SocketOutput
<1>. QED  BY <1>9, <1>10

LEMMA ReadDataHands ==
    ASSUME Conversation, Output, NEW c \in Calls, ReadData(c)
    PROVE  Output'
<1> SUFFICES ASSUME NEW d \in Calls PROVE (CallOutput(d) /\ SocketOutput(d))'
  BY DEF Output
<1> DEFINE f == Head(down)
<1>1. ReadFinds(c) /\ stage[c] = "reading" /\ down # <<>> /\ c \in Streaming
  BY ReadFacts DEF ReadData, Read
<1>2. f.kind = "data" /\ f = down[1] /\ 1 \in DOMAIN down /\ f \in Frames
      /\ f.call = c
  BY <1>1, TailFacts
  DEF ReadData, ReadFinds, Conversation, TypeOK, SocketTypes
<1>3. /\ answer[c] \in Seq(Frames) /\ down \in Seq(Frames)
      /\ produced[c] \in Nat /\ At(c) \in Nat
  BY OutputTypes
<1>4. Follows(down, At(c), produced[c], c \notin Streaming) /\ ToCome(c, AtSent(c))
  BY <1>1 DEF Output, SocketOutput, ReadFinds, At, AtSent
<1>5. f.first = At(c) + 1 /\ f.last <= produced[c]
  BY <1>2, <1>4 DEF Follows, Before
<1>6. answer' = [answer EXCEPT ![c] = Append(answer[c], f)] /\ down' = Tail(down)
  BY DEF ReadData, Read
<1>7. /\ stage' = stage /\ outcome' = outcome /\ effect' = effect /\ produced' = produced
      /\ up' = up /\ server' = server /\ reply' = reply /\ buffer' = buffer
      /\ client' = client /\ holder' = holder
  BY DEF ReadData, Read, serverVars, databaseVars
<1>8. outcome[c] = "none"
  BY <1>1 DEF ReadFinds
<1>9. Follows(Tail(down), f.last, produced[c], c \notin Streaming)
      /\ Upto(Tail(down), f.last) = AtSent(c)
  BY <1>1, <1>3, <1>4, FollowsTail DEF AtSent
<1> HIDE DEF f
<1>10. Handed(Append(answer[c], f), c, produced[c])
       /\ Upto(Append(answer[c], f), 0) = f.last
  BY <1>2, <1>3, <1>5, HandedAppend, BeforeAppend DEF At, Output, CallOutput
<1>11. CallOutput(d)'
  <2>1. CASE d = c
    BY <1>1, <1>6, <1>7, <1>8, <1>10, <2>1
    DEF CallOutput, Conversation, TypeOK, ClientTypes, Output
  <2>2. CASE d # c
    BY <1>6, <1>7, <2>2 DEF Output, CallOutput, Conversation, TypeOK, ClientTypes
  <2>. QED  BY <2>1, <2>2
<1>12. SocketOutput(d)'
  <2>1. up = <<>> \/ server = "closed"
    BY <1>1 DEF Conversation, RequestOpen, ReadFinds
  <2>2. holder = c
    BY <1>1 DEF ReadFinds
  <2>3. CASE d = c
    <3>1. answer'[c] = Append(answer[c], f)
      BY <1>6 DEF Conversation, TypeOK, ClientTypes
    <3>2. ToCome(c, AtSent(c))'
      BY <1>4, <1>6, <1>7, <1>9, <1>10, <2>1, <3>1 DEF ToCome, AtSent, At
    <3>. QED
      BY <1>6, <1>7, <1>9, <1>10, <2>3, <3>1, <3>2 DEF SocketOutput, AtSent, At
  <2>4. CASE d # c
    BY <1>7, <2>2, <2>4 DEF SocketOutput
  <2>. QED  BY <2>3, <2>4
<1>. QED  BY <1>11, <1>12

LEMMA ReadDoneHands ==
    ASSUME Conversation, Output, NEW c \in Calls, ReadDone(c)
    PROVE  Output'
<1> SUFFICES ASSUME NEW d \in Calls PROVE (CallOutput(d) /\ SocketOutput(d))'
  BY DEF Output
<1>1. ReadFinds(c) /\ stage[c] = "reading" /\ down # <<>> /\ c \in Streaming
  BY ReadFacts DEF ReadDone, Read
<1>2. Head(down).kind = "done" /\ Head(down) = down[1] /\ 1 \in DOMAIN down
      /\ effect[c] = "committed"
  BY <1>1, TailFacts
  DEF ReadDone, ReadFinds, IsTrue, Conversation, TypeOK, SocketTypes
<1>3. At(c) = produced[c]
  BY <1>1, <1>2 DEF Output, SocketOutput, Follows, ReadFinds, Before, At
<1>4. CallOutput(d)'
  BY <1>1, <1>2, <1>3
  DEF Conversation, TypeOK, ReadDone, Read, Return, serverVars, databaseVars, Output,
     CallOutput, ClientTypes, At
<1>5. SocketOutput(d)'
  BY CallsAssumption DEF ReadDone, Return, SocketOutput
<1>. QED  BY <1>4, <1>5

\* Also Undecodable, ServerSeesEnd, ReplyTooLarge, WriteFails and Crash.
LEMMA HangupHands ==
    ASSUME Conversation, Output, Hangup
    PROVE  Output'
<1> SUFFICES ASSUME NEW d \in Calls PROVE (CallOutput(d) /\ SocketOutput(d))'
  BY DEF Output
<1> USE DEF Hangup, clientVars, databaseVars
<1>1. CallOutput(d)'
  BY DEF Output, CallOutput
<1>2. SocketOutput(d)'
  BY SocketOutputKept DEF Output, ToCome
<1>. QED  BY <1>1, <1>2

LEMMA ReadRequestHands ==
    ASSUME Conversation, Output, ReadRequest
    PROVE  Output'
<1> SUFFICES ASSUME NEW d \in Calls PROVE (CallOutput(d) /\ SocketOutput(d))'
  BY DEF Output
<1> USE DEF ReadRequest, clientVars, databaseVars
<1>1. CallOutput(d)'
  BY DEF Output, CallOutput
<1>2. SocketOutput(d)'
  <2> SUFFICES ASSUME client = "open", holder = d
               PROVE  SocketOutput(d)'
    BY DEF SocketOutput
  <2>1. Len(up) = 1 /\ down = <<>> /\ Head(up) = d
    BY DEF Conversation, RequestOpen
  <2>2. up' = <<>>
    BY <2>1, TailFacts DEF Conversation, TypeOK, SocketTypes
  <2>3. effect[d] = "none" /\ answer[d] = <<>> /\ produced[d] = 0
    BY DEF Output, CallOutput, SocketOutput, ToCome
  <2>4. AtSent(d) = 0 /\ buffer = 0
    BY <2>1, <2>3, OutputTypes DEF Conversation, Serving
  <2>5. ToCome(d, AtSent(d))'
    BY <2>2, <2>3, <2>4 DEF ToCome, AtSent, At
  <2>. QED  BY <2>5 DEF Output, SocketOutput, AtSent, At
<1>. QED  BY <1>1, <1>2

LEMMA RefuseHands ==
    ASSUME Conversation, Output, Refuse
    PROVE  Output'
<1> SUFFICES ASSUME NEW d \in Calls PROVE (CallOutput(d) /\ SocketOutput(d))'
  BY DEF Output
<1> USE DEF Refuse, Answer, clientVars, databaseVars
<1>1. CallOutput(d)'
  BY DEF Output, CallOutput
<1>2. client = "open" /\ holder = d => serving = d
  BY CallsAssumption DEF Conversation, Serving, ServingOpen
<1>3. answer[d] \in Seq(Frames) /\ down \in Seq(Frames) /\ AtSent(d) \in Nat
  BY OutputTypes
<1>4. SocketOutput(d)'
  BY <1>2, <1>3, SocketOutputKept DEF Output, SocketOutput, ToCome, Error, AtSent, At
<1>. QED  BY <1>1, <1>4

LEMMA AnswerErrorHands ==
    ASSUME Conversation, Output, AnswerError
    PROVE  Output'
<1> SUFFICES ASSUME NEW d \in Calls PROVE (CallOutput(d) /\ SocketOutput(d))'
  BY DEF Output
<1> USE DEF AnswerError, Answer, clientVars, databaseVars
<1>1. CallOutput(d)'
  BY DEF Output, CallOutput
<1>2. client = "open" /\ holder = d => serving = d
  BY CallsAssumption DEF Conversation, Serving, ServingOpen
<1>3. answer[d] \in Seq(Frames) /\ down \in Seq(Frames) /\ AtSent(d) \in Nat
  BY OutputTypes
<1>4. SocketOutput(d)'
  BY <1>2, <1>3, SocketOutputKept DEF Output, SocketOutput, ToCome, Error, AtSent, At
<1>. QED  BY <1>1, <1>4

LEMMA AnswerDataHands ==
    ASSUME Conversation, Output, AnswerData
    PROVE  Output'
<1> SUFFICES ASSUME NEW d \in Calls PROVE (CallOutput(d) /\ SocketOutput(d))'
  BY DEF Output
<1> USE DEF AnswerData, Answer, clientVars, databaseVars
<1>1. CallOutput(d)'
  BY DEF Output, CallOutput
<1>2. client = "open" /\ holder = d => serving = d
  BY CallsAssumption DEF Conversation, Serving, ServingOpen
<1>3. answer[d] \in Seq(Frames) /\ down \in Seq(Frames) /\ AtSent(d) \in Nat
  BY OutputTypes
<1>4. SocketOutput(d)'
  BY <1>2, <1>3, SocketOutputKept DEF Output, SocketOutput, ToCome, Data, AtSent, At
<1>. QED  BY <1>1, <1>4

LEMMA AnswerDoneHands ==
    ASSUME Conversation, Output, AnswerDone
    PROVE  Output'
<1> SUFFICES ASSUME NEW d \in Calls PROVE (CallOutput(d) /\ SocketOutput(d))'
  BY DEF Output
<1> USE DEF AnswerDone, Answer, clientVars, databaseVars
<1>1. CallOutput(d)'
  BY DEF Output, CallOutput
<1>2. client = "open" /\ holder = d => serving = d
  BY CallsAssumption DEF Conversation, Serving, ServingOpen
<1>3. answer[d] \in Seq(Frames) /\ down \in Seq(Frames) /\ AtSent(d) \in Nat
  BY OutputTypes
<1>4. SocketOutput(d)'
  BY <1>2, <1>3, SocketOutputKept DEF Output, SocketOutput, ToCome, Done, AtSent, At
<1>. QED  BY <1>1, <1>4

LEMMA BeginHands ==
    ASSUME Conversation, Output, Begin
    PROVE  Output'
<1> SUFFICES ASSUME NEW d \in Calls PROVE (CallOutput(d) /\ SocketOutput(d))'
  BY DEF Output
<1> USE DEF Begin, clientVars, serverVars
<1>1. CallOutput(d)'
  BY DEF Output, CallOutput, Conversation, TypeOK, DatabaseTypes
<1>2. client = "open" => up = <<>>
  BY DEF Conversation, RequestOpen
<1>3. SocketOutput(d)'
  BY <1>2 DEF Output, SocketOutput, ToCome
<1>. QED  BY <1>1, <1>3

LEMMA ProduceHands ==
    ASSUME Conversation, Output, Produce
    PROVE  Output'
<1> SUFFICES ASSUME NEW d \in Calls PROVE (CallOutput(d) /\ SocketOutput(d))'
  BY DEF Output
<1> USE DEF Produce, clientVars
<1>1. /\ produced' = [produced EXCEPT ![serving] = @ + 1] /\ buffer' = buffer + 1
      /\ serving \in Streaming /\ serving \in Calls
  BY CallsAssumption
<1>2. /\ answer[d] \in Seq(Frames) /\ down \in Seq(Frames)
      /\ produced[d] \in Nat /\ buffer \in Nat /\ AtSent(d) \in Nat
  BY OutputTypes
<1>3. produced'[d] = IF d = serving THEN produced[d] + 1 ELSE produced[d]
  BY <1>1 DEF Conversation, TypeOK, DatabaseTypes
<1>4. CallOutput(d)'
  <2>1. \A n \in DOMAIN answer[d] : answer[d][n].last \in Nat
    BY <1>2, LastNat
  <2>2. Handed(answer[d], d, produced'[d])
    BY <1>2, <1>3, <2>1 DEF Output, CallOutput, Handed
  <2>. QED  BY <1>1, <1>3, <2>2 DEF Output, CallOutput
<1>5. SocketOutput(d)'
  <2> SUFFICES ASSUME client = "open", holder = d
               PROVE  SocketOutput(d)'
    BY DEF SocketOutput
  <2>1. serving = d /\ \A n \in DOMAIN down : down[n].kind = "data"
    BY <1>1, CallsAssumption DEF Conversation, ServingOpen, IsMiddle
  <2>2. \A n \in DOMAIN down : down[n].last \in Nat
    BY <1>2, LastNat
  <2>3. Follows(down, At(d), produced'[d], FALSE)
    BY <1>1, <1>2, <1>3, <2>1, <2>2 DEF Output, SocketOutput, Follows, At
  <2>4. ToCome(d, AtSent(d))'
    <3>1. ToCome(d, AtSent(d)) /\ AtSent(d)' = AtSent(d)
      BY DEF Output, SocketOutput, AtSent, At
    <3>2. up = <<>> /\ server' = "serving"
      BY DEF Conversation, RequestOpen
    <3>. QED  BY <1>1, <1>2, <1>3, <2>1, <3>1, <3>2 DEF ToCome
  <2>. QED  BY <1>1, <2>1, <2>3, <2>4 DEF SocketOutput, AtSent, At
<1>. QED  BY <1>4, <1>5

LEMMA FlushHands ==
    ASSUME Conversation, Output, Flush
    PROVE  Output'
<1> SUFFICES ASSUME NEW d \in Calls PROVE (CallOutput(d) /\ SocketOutput(d))'
  BY DEF Output
<1> DEFINE f == Data(serving, produced[serving] - buffer + 1, produced[serving])
<1>1. CallOutput(d)'
  BY DEF Flush, clientVars, databaseVars, Output, CallOutput
<1>2. SocketOutput(d)'
  <2> SUFFICES ASSUME client = "open", holder = d
               PROVE  SocketOutput(d)'
    BY DEF Flush, clientVars, SocketOutput
  <2>1. /\ serving = d /\ server = "serving" /\ buffer > 0 /\ buffer <= produced[d]
        /\ d \in Streaming
    BY SizesAssumption, CallsAssumption
    DEF Flush, Flushing, Conversation, Serving, ServingOpen, TypeOK, ServerTypes
  <2>2. /\ answer[d] \in Seq(Frames) /\ down \in Seq(Frames)
        /\ produced[d] \in Nat /\ buffer \in Nat /\ AtSent(d) \in Nat /\ At(d) \in Nat
    BY OutputTypes
  <2>3. Follows(down, At(d), produced[d], d \notin Streaming) /\ ToCome(d, AtSent(d))
    BY DEF Output, SocketOutput, At, AtSent
  <2>4. AtSent(d) + buffer = produced[d] /\ up = <<>>
    BY <2>1, <2>3 DEF ToCome, Conversation, RequestOpen
  <2>5. /\ f \in Frames /\ f.kind = "data" /\ f.last = produced[d]
        /\ f.first = AtSent(d) + 1
    <3>1. produced[d] <= MaxUnits
      BY SizesAssumption DEF Conversation, TypeOK, DatabaseTypes
    <3>. QED  BY <2>1, <2>2, <2>4, <3>1, SizesAssumption DEF Data, Frames
  <2>6. /\ down' = Append(down, f) /\ buffer' = 0 /\ up' = up /\ server' = server
        /\ answer' = answer /\ produced' = produced /\ client' = client /\ holder' = holder
    BY DEF Flush, clientVars, databaseVars
  <2> HIDE DEF f
  <2>7. /\ Follows(Append(down, f), At(d), produced[d], d \notin Streaming)
        /\ Upto(Append(down, f), At(d)) = produced[d]
    BY <2>2, <2>3, <2>5, FollowsAppend, BeforeAppend DEF AtSent
  <2>8. ToCome(d, AtSent(d))'
    BY <2>1, <2>2, <2>4, <2>6, <2>7 DEF ToCome, AtSent, At
  <2>. QED  BY <2>6, <2>7, <2>8 DEF SocketOutput, AtSent, At
<1>. QED  BY <1>1, <1>2

LEMMA AbortHands ==
    ASSUME Conversation, Output, NEW c \in Calls, Abort(c)
    PROVE  Output'
<1> SUFFICES ASSUME NEW d \in Calls PROVE (CallOutput(d) /\ SocketOutput(d))'
  BY DEF Output
<1> USE DEF Abort, End, clientVars, serverVars
<1>1. CallOutput(d)'
  BY DEF Output, CallOutput, Conversation, TypeOK, ClientTypes, DatabaseTypes
<1>2. SocketOutput(d)'
  <2>1. client = "open" /\ holder = c => up = <<>> \/ server = "closed"
    BY DEF Output, SocketOutput, ToCome
  <2>. QED  BY <2>1 DEF Output, SocketOutput, ToCome, Conversation, TypeOK, DatabaseTypes
<1>. QED  BY <1>1, <1>2

LEMMA OrphanHands ==
    ASSUME Conversation, Output, NEW c \in Calls, Orphan(c)
    PROVE  Output'
<1> SUFFICES ASSUME NEW d \in Calls PROVE (CallOutput(d) /\ SocketOutput(d))'
  BY DEF Output
<1> USE DEF Orphan, End, clientVars, serverVars
<1>1. CallOutput(d)'
  BY DEF Output, CallOutput, Conversation, TypeOK, ClientTypes, DatabaseTypes
<1>2. SocketOutput(d)'
  <2>1. client = "open" /\ holder = c => up = <<>> \/ server = "closed"
    BY DEF Output, SocketOutput, ToCome
  <2>. QED  BY <2>1 DEF Output, SocketOutput, ToCome, Conversation, TypeOK, DatabaseTypes
<1>. QED  BY <1>1, <1>2

LEMMA CommitHands ==
    ASSUME Conversation, Output, NEW c \in Calls, Commit(c)
    PROVE  Output'
<1> SUFFICES ASSUME NEW d \in Calls PROVE (CallOutput(d) /\ SocketOutput(d))'
  BY DEF Output
<1> USE DEF Commit, End, clientVars, serverVars
<1>1. /\ effect[c] = "running" /\ effect' = [effect EXCEPT ![c] = "committed"]
      /\ produced'[d] = IF d = c /\ c \notin Streaming THEN 1 ELSE produced[d]
  BY DEF Conversation, TypeOK, DatabaseTypes
<1>2. c \notin Streaming => answer[c] = <<>>
  BY <1>1 DEF Output, CallOutput
<1>3. CallOutput(d)'
  BY <1>1, <1>2
  DEF Output, CallOutput, Handed, Conversation, TypeOK, ClientTypes, DatabaseTypes,
      Holding
<1>4. SocketOutput(d)'
  <2> SUFFICES ASSUME client = "open", holder = d
               PROVE  SocketOutput(d)'
    BY DEF SocketOutput
  <2>1. CASE d # c \/ c \in Streaming
    <3>1. produced'[d] = produced[d]
      BY <1>1, <2>1
    <3>2. d = c => up = <<>> \/ server = "closed"
      BY <1>1 DEF Output, SocketOutput, ToCome
    <3>. QED
      BY <1>1, <3>1, <3>2
      DEF Output, SocketOutput, ToCome, Conversation, TypeOK, DatabaseTypes
  <2>2. CASE d = c /\ c \notin Streaming
    <3>1. \A n \in DOMAIN down : down[n].kind \notin {"data", "done"}
      BY <1>1, <2>2 DEF Conversation, FramesOpen, IsTrue
    <3>2. server = "replying" => reply.kind \notin {"data", "done"}
      BY <1>1, <2>2, CallsAssumption DEF Conversation, Serving, ServingOpen, IsTrue
    <3>3. up = <<>> \/ server = "closed"
      BY <1>1, <2>2 DEF Output, SocketOutput, ToCome
    <3>4. Follows(down, At(d), 1, TRUE)
      BY <3>1 DEF Follows
    <3>5. ToCome(d, AtSent(d))'
      BY <2>2, <3>2, <3>3 DEF ToCome
    <3>. QED  BY <1>1, <2>2, <3>4, <3>5 DEF SocketOutput, AtSent, At
  <2>. QED  BY <2>1, <2>2
<1>. QED  BY <1>3, <1>4

LEMMA ReplyHands ==
    ASSUME Conversation, Output, Reply
    PROVE  Output'
<1> SUFFICES ASSUME NEW d \in Calls PROVE (CallOutput(d) /\ SocketOutput(d))'
  BY DEF Output
<1>1. CallOutput(d)'
  BY DEF Reply, clientVars, databaseVars, Output, CallOutput
<1>2. SocketOutput(d)'
  <2> SUFFICES ASSUME client = "open", holder = d
               PROVE  SocketOutput(d)'
    BY DEF Reply, clientVars, SocketOutput
  <2>1. /\ serving = d /\ server = "replying" /\ reply \in Frames /\ reply.call = d
        /\ IsTrue(reply) /\ ~IsMiddle(reply) /\ stage[d] = "reading"
        /\ \A n \in DOMAIN down : IsMiddle(down[n]) /\ down[n].call = d
    BY CallsAssumption
    DEF Reply, Conversation, Serving, ServingOpen, FramesOpen
  <2>2. /\ answer[d] \in Seq(Frames) /\ down \in Seq(Frames)
        /\ produced[d] \in Nat /\ AtSent(d) \in Nat /\ At(d) \in Nat
    BY OutputTypes
  <2>3. Follows(down, At(d), produced[d], d \notin Streaming) /\ ToCome(d, AtSent(d))
    BY DEF Output, SocketOutput, At, AtSent
  <2>4. reply.kind = "data" =>
            reply.first = AtSent(d) + 1 /\ reply.last = produced[d]
    <3> SUFFICES ASSUME reply.kind = "data" PROVE AtSent(d) = 0
      BY <2>1, <2>3 DEF ToCome
    <3>1. d \notin Streaming
      BY <2>1 DEF IsTrue, IsMiddle, Conversation, Holding
    <3>2. answer[d] = <<>>
      BY <2>1, <3>1 DEF Output, CallOutput
    <3>3. down = <<>>
      BY <2>1, <2>2, <3>1, TailFacts DEF IsMiddle
    <3>. QED  BY <3>2, <3>3, OutputTypes
  <2>5. reply.kind = "done" => AtSent(d) = produced[d]
    BY <2>1, <2>3 DEF ToCome
  <2>6. /\ down' = Append(down, reply) /\ up' = up /\ server' = "reading"
        /\ answer' = answer /\ produced' = produced /\ client' = client /\ holder' = holder
        /\ up = <<>>
    BY DEF Reply, clientVars, databaseVars, Conversation, RequestOpen
  <2>7. Follows(Append(down, reply), At(d), produced[d], d \notin Streaming)
    BY <2>1, <2>2, <2>3, <2>4, <2>5, FollowsAppend DEF AtSent
  <2>8. ToCome(d, AtSent(d))'
    BY <2>6 DEF ToCome
  <2>. QED  BY <2>6, <2>7, <2>8 DEF SocketOutput, AtSent, At
<1>. QED  BY <1>1, <1>2

LEMMA InitOutput == Init => Output
<1> SUFFICES ASSUME Init, NEW c \in Calls PROVE CallOutput(c) /\ SocketOutput(c)
  BY DEF Output
<1>1. answer[c] = <<>> /\ DOMAIN answer[c] = {}
  BY SMT DEF Init
<1>2. CallOutput(c)
  BY <1>1 DEF Init, CallOutput, Handed
<1>3. SocketOutput(c)
  BY CallsAssumption DEF Init, SocketOutput
<1>. QED  BY <1>2, <1>3

LEMMA NextOutput == Conversation /\ Output /\ [Next]_vars => Output'
<1> SUFFICES ASSUME Conversation, Output, [Next]_vars PROVE Output'
  OBVIOUS
<1>1. ASSUME NEW c \in Calls, Call(c) \/ ClientStep(c) \/ DatabaseStep(c)
      PROVE  Output'
  BY <1>1, CallHands, LockHands, SendHands, SendFailsHands, RequestTooLargeHands,
     ReadErrorHands, ReadAnswerHands, ReadDataHands, BreakPipeHands, ReadDoneHands,
     LostReplyHands, CommitHands, AbortHands, OrphanHands
  DEF ClientStep, DatabaseStep
<1>2. CASE DaemonStep \/ Produce \/ Crash
  BY <1>2, ReadRequestHands, HangupHands, RefuseHands, BeginHands, FlushHands,
     AnswerErrorHands, AnswerDataHands, AnswerDoneHands, ReplyHands, ProduceHands
  DEF DaemonStep, Undecodable, ServerSeesEnd, ReplyTooLarge, WriteFails, Crash
<1>3. CASE UNCHANGED vars
  BY <1>3
  DEF vars, clientVars, serverVars, databaseVars, Output, CallOutput, SocketOutput,
      ToCome
<1>. QED  BY <1>1, <1>2, <1>3 DEF Next

\* A caller is handed its own operation's output from the first unit on, in order
\* and without a gap, and all of it when its call succeeds: whatever the sizes of
\* the answer and of the daemon's buffer, and whoever else uses the connection.
THEOREM CallersGetTheirOwn == Spec => []OwnAnswers
<1>1. Init => Conversation /\ Output
  BY InitConversation, InitOutput
<1>2. Conversation /\ Output /\ [Next]_vars => (Conversation /\ Output)'
  BY NextConversation, NextOutput
<1>3. Conversation /\ Output => OwnAnswers
  <2> SUFFICES ASSUME Conversation, Output, NEW c \in Calls
               PROVE  /\ \A n \in DOMAIN answer[c] :
                            /\ answer[c][n].call = c
                            /\ answer[c][n].first = IF n = 1 THEN 1
                                                    ELSE answer[c][n - 1].last + 1
                            /\ answer[c][n].last <= produced[c]
                      /\ outcome[c] = "ok" =>
                            IF answer[c] = <<>> THEN produced[c] = 0
                            ELSE answer[c][Len(answer[c])].last = produced[c]
    BY DEF OwnAnswers
  <2>1. CallOutput(c) /\ answer[c] \in Seq(Frames)
    BY OutputTypes DEF Output
  <2>2. ASSUME NEW n \in DOMAIN answer[c]
        PROVE  Before(answer[c], n, 0) + 1
                = IF n = 1 THEN 1 ELSE answer[c][n - 1].last + 1
    BY DEF Before
  <2>3. Upto(answer[c], 0) = IF answer[c] = <<>> THEN 0
                             ELSE answer[c][Len(answer[c])].last
    BY <2>1, SMT DEF Upto, Before
  <2>. QED  BY <2>1, <2>2, <2>3 DEF CallOutput, Handed
<1>. QED  BY <1>1, <1>2, <1>3, PTL DEF Spec

=============================================================================
