----------------------------- MODULE PlayerDevice -----------------------------
(***************************************************************************)
(* PlayerDevice and PlayerStream of the OniFile driver: the player's       *)
(* thread (MainLoop) reads records, or seeks, and hands each frame to the  *)
(* stream of its source, at the speed the application asked for. Threads   *)
(* of the application set the speed, give the trigger of the manual speed, *)
(* seek (invoke waits for the player's thread), read properties, and       *)
(* create, start, stop and destroy streams; at last one closes the device. *)
(*                                                                         *)
(* What a record does to the player's state is in PlayerNode. Here a read  *)
(* gives a frame of some source, something else, or the end, and a seek    *)
(* shows each source's frame at most once and succeeds or fails. Time is   *)
(* left out: a wait with a timeout may end whenever its event is not set.  *)
(* m_readyForDataInternalEvent is left out, since OnNodeNewData never      *)
(* waits for it: it sets hasStreams and ready together.                    *)
(***************************************************************************)
EXTENDS Integers, FiniteSets

CONSTANTS
    Users,          \* threads of the application
    Sources,        \* the nodes of the recording that are streams
    MaxCalls,       \* bound: the calls of the application, those on streams apart
    Manual, Normal, Fastest,    \* playback speeds
    None

ASSUME CallsAssumption == MaxCalls \in Nat
ASSUME SpeedsAssumption == Cardinality({Manual, Normal, Fastest}) = 3

VARIABLES
    thread,         \* [at, source, seeking, request, left]: where the player's thread is
    running,        \* m_running
    closing,        \* "open", "stopping" and "closing" (close waits for the thread), "closed"
    streams,        \* of each source: "none", "stopped" or "started"
    locked,         \* the sources whose stream's m_cs the player's thread kept
    speed,          \* m_dPlaybackSpeed
    saved,          \* playbackSpeed, the local variable of MainLoop
    repeat, eof,    \* m_bRepeat, m_player.IsEOF()
    seek,           \* m_seek: whose frame number, and the source of pStream
    isSeeking,      \* m_isSeeking
    trigger,        \* m_manualTriggerInternalEvent is set
    complete,       \* m_SeekCompleteInternalEvent is set
    users,          \* [at, source, clean] of each thread of the application
    calls,          \* the calls so far, those on streams apart
    done,           \* history: the request of the last seek that succeeded
    wanted, kept,   \* history: the speed set last, and whether no seek disturbed it
    credit          \* history: triggers given, less the frames they released

vars == <<thread, running, closing, streams, locked, speed, saved, repeat, eof, seek,
          isSeeking, trigger, complete, users, calls, done, wanted, kept, credit>>

player == <<running, locked, eof, users>>
speeds == <<speed, saved>>
events == <<isSeeking, trigger, complete>>
history == <<done, kept, credit>>

Request == [frame : Users \cup {None}, source : Sources \cup {None}]
NoRequest == [frame |-> None, source |-> None]

\* The player's thread has just been created: its loop has not begun.
Init ==
    /\ thread = [at |-> "new", source |-> None, seeking |-> FALSE,
                 request |-> NoRequest, left |-> {}]
    /\ running = FALSE /\ closing = "open"
    /\ streams = [s \in Sources |-> "none"] /\ locked = {}
    /\ speed = Normal /\ saved = Normal
    /\ repeat = TRUE /\ eof = FALSE
    /\ seek = NoRequest /\ isSeeking = FALSE
    /\ trigger = FALSE /\ complete = FALSE
    /\ users = [u \in Users |-> [at |-> "idle", source |-> None, clean |-> FALSE]]
    /\ calls = 0
    /\ done = NoRequest /\ wanted = Normal /\ kept = TRUE /\ credit = 0

-----------------------------------------------------------------------------
(* The player's thread. *)

At(place) == thread.at = place
Goto(place) == thread' = [thread EXCEPT !.at = place]
PlayerOnly == UNCHANGED <<closing, streams, repeat, seek, calls, wanted>>

Disturbed == [u \in Users |-> [users[u] EXCEPT !.clean = FALSE]]

\* MainLoop sets m_running itself, even after close() has cleared it.
BeginLoop ==
    /\ At("new") /\ Goto("loop") /\ running' = TRUE
    /\ PlayerOnly /\ UNCHANGED <<events, speeds, history, locked, eof, users>>

\* The tests at the top of the loop: m_running, then the streams, then m_isSeeking.
\* Without a started stream the thread sleeps and comes back.
StartedStreams == {s \in Sources : streams[s] = "started"}
EndLoopWhenStarted ==           \* mutant: without a stream m_running is not looked at
    /\ At("loop") /\ ~running /\ StartedStreams # {} /\ Goto("ended")
    /\ PlayerOnly /\ UNCHANGED <<events, speeds, history, player>>
EndLoop ==
    /\ At("loop") /\ ~running /\ Goto("ended")
    /\ PlayerOnly /\ UNCHANGED <<events, speeds, history, player>>
Turn ==
    /\ At("loop") /\ running
    /\ Goto(IF StartedStreams = {} THEN "loop" ELSE IF isSeeking THEN "seek" ELSE "read")
    /\ PlayerOnly /\ UNCHANGED <<events, speeds, history, player>>

\* ReadNext, whose status nobody looks at: a frame, another record, or the end.
ReadNext ==
    /\ At("read")
    /\ \/ \E s \in Sources :
            ~eof /\ thread' = [thread EXCEPT !.at = "frame", !.source = s] /\ UNCHANGED eof
       \/ Goto("loop") /\ UNCHANGED eof
       \/ ~repeat /\ Goto("loop") /\ eof' = TRUE
    /\ PlayerOnly /\ UNCHANGED <<events, speeds, history, running, locked, users>>

\* The speed is read, and overwritten: one that setProperty sets in between is lost, as
\* is one set while the player seeks.
SaveSpeed ==
    /\ At("seek") /\ ~thread.seeking
    /\ saved' = speed
    /\ thread' = [thread EXCEPT !.at = "save", !.seeking = TRUE]
    /\ PlayerOnly /\ UNCHANGED <<speed, events, history, player>>

\* Calls SeekToFrame with what m_seek holds now.
BeginSeek ==
    /\ At("save")
    /\ speed' = Fastest
    /\ thread' = [thread EXCEPT !.at = "seek", !.request = seek, !.left = Sources]
    /\ PlayerOnly /\ UNCHANGED <<saved, events, history, player>>

\* SeekToFrame notifies the device of the last frame of a node.
SeekFrame(s) ==
    /\ At("seek") /\ thread.seeking /\ s \in thread.left /\ ~eof
    /\ thread' = [thread EXCEPT !.at = "frame", !.source = s, !.left = @ \ {s}]
    /\ PlayerOnly /\ UNCHANGED <<events, speeds, history, player>>

SeekSucceeds ==
    /\ At("seek") /\ thread.seeking /\ ~eof
    /\ Goto("restore")
    /\ done' = thread.request
    /\ PlayerOnly /\ UNCHANGED <<events, speeds, kept, credit, player>>

\* The speed stays at its maximum and invoke() is not answered.
SeekFails ==
    /\ At("seek") /\ thread.seeking
    /\ eof' \in {eof, eof \/ ~repeat}
    /\ thread' = [thread EXCEPT !.at = "loop", !.seeking = FALSE, !.request = NoRequest,
                                !.left = {}]
    /\ isSeeking' = FALSE
    /\ users' = Disturbed /\ kept' = FALSE
    /\ PlayerOnly /\ UNCHANGED <<trigger, complete, speeds, done, credit, running, locked>>

\* The four steps after a seek.
RestoreDefaultSpeed ==          \* mutant: the speed is set to 1.0
    /\ At("restore") /\ Goto("reset") /\ speed' = Normal
    /\ PlayerOnly /\ UNCHANGED <<saved, events, history, player>>
RestoreSpeed ==
    /\ At("restore") /\ Goto("reset") /\ speed' = saved
    /\ PlayerOnly /\ UNCHANGED <<events, saved, history, player>>
ResetEvents ==
    /\ At("reset") /\ Goto("answer") /\ trigger' = FALSE
    /\ PlayerOnly /\ UNCHANGED <<isSeeking, complete, speeds, history, player>>
CompleteSeek ==
    /\ At("answer") /\ Goto("clear") /\ complete' = TRUE
    /\ PlayerOnly /\ UNCHANGED <<isSeeking, trigger, speeds, history, player>>
ClearSeeking ==
    /\ At("clear") /\ isSeeking' = FALSE
    /\ thread' = [thread EXCEPT !.at = "loop", !.seeking = FALSE, !.request = NoRequest,
                                !.left = {}]
    /\ PlayerOnly /\ UNCHANGED <<trigger, complete, speeds, history, player>>

-----------------------------------------------------------------------------
(* OnNodeNewData, in the player's thread. *)

\* A frame that leaves while the application wants the manual speed.
Released == IF wanted = Manual /\ kept /\ ~thread.seeking THEN credit - 1 ELSE credit

HasStream(s) == streams[s] # "none"

\* The loop that waits until the source's stream may have the frame. The thread also
\* leaves it when the source has no stream or the device is being closed.
OfferFrame ==
    /\ At("frame")
    /\ LET waits == running /\ HasStream(thread.source) IN
       /\ Goto(IF waits /\ speed = Manual THEN "manual" ELSE "deliver")
       /\ credit' = IF waits /\ speed # Manual THEN Released ELSE credit
    /\ PlayerOnly /\ UNCHANGED <<events, speeds, done, kept, player>>

ManualTrigger ==
    /\ At("manual") /\ trigger
    /\ Goto("triggered") /\ trigger' = FALSE /\ credit' = Released
    /\ PlayerOnly /\ UNCHANGED <<isSeeking, complete, speeds, done, kept, player>>
ResetTrigger ==
    /\ At("triggered")
    /\ Goto("deliver") /\ trigger' = FALSE
    /\ PlayerOnly /\ UNCHANGED <<isSeeking, complete, speeds, history, player>>
ManualTimeout ==
    /\ At("manual") /\ ~trigger
    /\ Goto("frame")
    /\ PlayerOnly /\ UNCHANGED <<events, speeds, history, player>>

\* ProcessNewData: OnNewDataCallback locks the started stream, and keeps the lock when
\* no frame can be acquired. Then back to ReadNext or SeekToFrame.
Deliver ==
    /\ At("deliver")
    /\ thread' = [thread EXCEPT !.at = IF thread.seeking THEN "seek" ELSE "loop", !.source = None]
    /\ \/ UNCHANGED locked
       \/ streams[thread.source] = "started" /\ locked' = locked \cup {thread.source}
    /\ PlayerOnly /\ UNCHANGED <<events, speeds, history, running, eof, users>>

-----------------------------------------------------------------------------
(* The application. *)

Idle == {u \in Users : users[u].at = "idle"}
MayCall == closing = "open" /\ Idle # {}
StreamCall == MayCall /\ UNCHANGED calls
Call == MayCall /\ calls < MaxCalls /\ calls' = calls + 1
ThreadOnly == UNCHANGED <<thread, running, locked, eof, saved, complete, done>>

CreateStream(s) ==
    /\ StreamCall /\ streams[s] = "none"
    /\ streams' = [streams EXCEPT ![s] = "stopped"]
    /\ ThreadOnly
    /\ UNCHANGED <<closing, speed, repeat, seek, isSeeking, trigger, users, wanted, kept, credit>>
StartStream(s) ==
    /\ StreamCall /\ streams[s] = "stopped"
    /\ streams' = [streams EXCEPT ![s] = "started"]
    /\ ThreadOnly
    /\ UNCHANGED <<closing, speed, repeat, seek, isSeeking, trigger, users, wanted, kept, credit>>
StopStream(s) ==
    /\ StreamCall /\ streams[s] = "started"
    /\ streams' = [streams EXCEPT ![s] = "stopped"]
    /\ ThreadOnly
    /\ UNCHANGED <<closing, speed, repeat, seek, isSeeking, trigger, users, wanted, kept, credit>>

\* No call that names the stream is in progress, and m_seek does not point to it: the
\* code does not enforce it.
DestroyStream(s) ==
    /\ StreamCall /\ streams[s] # "none"
    /\ \A u \in Users : users[u].at # "idle" => s \notin {users[u].source, seek.source}
    /\ streams' = [streams EXCEPT ![s] = "none"] /\ locked' = locked \ {s}
    /\ UNCHANGED <<thread, running, eof, saved, complete, done>>
    /\ UNCHANGED <<closing, speed, repeat, seek, isSeeking, trigger, users, wanted, kept, credit>>

\* setProperty of ONI_DEVICE_PROPERTY_PLAYBACK_SPEED, at any time: during a seek too.
SetSpeed(x) ==
    /\ Call
    /\ speed' = x /\ wanted' = x /\ kept' = ~thread.seeking
    /\ users' = IF thread.seeking THEN Disturbed ELSE users
    /\ ThreadOnly
    /\ UNCHANGED <<closing, streams, repeat, seek, isSeeking, trigger, credit>>
SetRepeat ==
    /\ Call /\ repeat' = ~repeat
    /\ ThreadOnly
    /\ UNCHANGED <<closing, streams, speed, seek, isSeeking, trigger, users, wanted, kept, credit>>

TryManualTrigger ==
    /\ Call
    /\ trigger' = TRUE /\ credit' = credit + 1
    /\ ThreadOnly
    /\ UNCHANGED <<closing, streams, speed, repeat, seek, isSeeking, users, wanted, kept>>

\* A read of a property waits for the lock of the stream.
BeginGetProperty(u, s) ==
    /\ Call /\ u \in Idle /\ HasStream(s)
    /\ users' = [users EXCEPT ![u] = [at |-> "get", source |-> s, clean |-> TRUE]]
    /\ ThreadOnly
    /\ UNCHANGED <<closing, streams, speed, repeat, seek, isSeeking, trigger, wanted, kept, credit>>
GetProperty(u) ==
    /\ users[u].at = "get" /\ users[u].source \notin locked
    /\ users' = [users EXCEPT ![u].at = "idle"]
    /\ ThreadOnly
    /\ UNCHANGED <<calls, closing, streams, speed, repeat, seek, isSeeking, trigger, wanted, kept,
                   credit>>

\* invoke(ONI_DEVICE_COMMAND_SEEK): the request is clean as long as no other call of it
\* is in progress, the flag was not set already, and the seek does not fail.
InSeek(u) == users[u].at \in {"stream", "flag", "wake", "wait"}
AskFrame(u, s) ==
    /\ Call /\ u \in Idle /\ HasStream(s) /\ ~eof
    /\ seek' = [seek EXCEPT !.frame = u]
    /\ users' = [v \in Users |->
                   IF v = u THEN [at |-> "stream", source |-> s,
                                  clean |-> ~\E w \in Users : InSeek(w)]
                   ELSE [users[v] EXCEPT !.clean = @ /\ ~InSeek(v)]]
    /\ ThreadOnly
    /\ UNCHANGED <<closing, streams, speed, repeat, isSeeking, trigger, wanted, kept, credit>>
AskStream(u) ==
    /\ users[u].at = "stream"
    /\ seek' = [seek EXCEPT !.source = users[u].source]
    /\ users' = [users EXCEPT ![u].at = "flag"]
    /\ ThreadOnly
    /\ UNCHANGED <<calls, closing, streams, speed, repeat, isSeeking, trigger, wanted, kept, credit>>
AskSeek(u) ==
    /\ users[u].at = "flag"
    /\ isSeeking' = TRUE
    /\ users' = [users EXCEPT ![u] = [at |-> "wake", source |-> users[u].source,
                                     clean |-> users[u].clean /\ ~isSeeking]]
    /\ ThreadOnly
    /\ UNCHANGED <<calls, closing, streams, speed, repeat, seek, trigger, wanted, kept, credit>>
WakeAfterReset(u) ==            \* mutant: resets the seek's event once the flag is set
    /\ users[u].at = "wake"
    /\ trigger' = TRUE /\ credit' = credit + 1 /\ complete' = FALSE
    /\ users' = [users EXCEPT ![u].at = "wait"]
    /\ UNCHANGED <<thread, running, locked, eof, saved, done>>
    /\ UNCHANGED <<calls, closing, streams, speed, repeat, seek, isSeeking, wanted, kept>>
WakeNobody(u) ==                \* mutant: does not set the event of the manual speed
    /\ users[u].at = "wake"
    /\ users' = [users EXCEPT ![u].at = "wait"]
    /\ ThreadOnly
    /\ UNCHANGED <<calls, closing, streams, speed, repeat, seek, isSeeking, trigger, wanted,
                   kept, credit>>
WakePlayer(u) ==
    /\ users[u].at = "wake"
    /\ trigger' = TRUE /\ credit' = credit + 1
    /\ users' = [users EXCEPT ![u].at = "wait"]
    /\ ThreadOnly
    /\ UNCHANGED <<calls, closing, streams, speed, repeat, seek, isSeeking, wanted, kept>>
SeekReturns(u) ==
    /\ users[u].at = "wait" /\ complete
    /\ complete' = FALSE
    /\ users' = [users EXCEPT ![u].at = "idle"]
    /\ UNCHANGED <<thread, running, locked, eof, saved, done>>
    /\ UNCHANGED <<calls, closing, streams, speed, repeat, seek, isSeeking, trigger, wanted, kept,
                   credit>>

\* close(), when no call is in progress: clears m_running, sets the events, and waits
\* for the thread, which it kills after three seconds.
BeginClose ==
    /\ closing = "open" /\ Idle = Users
    /\ closing' = "stopping" /\ running' = FALSE
    /\ UNCHANGED <<thread, locked, eof, saved, complete, done>>
    /\ UNCHANGED <<calls, streams, speed, repeat, seek, isSeeking, trigger, users, wanted, kept,
                   credit>>
WakeForClose ==
    /\ closing = "stopping"
    /\ closing' = "closing" /\ trigger' = TRUE /\ credit' = credit + 1
    /\ ThreadOnly
    /\ UNCHANGED <<calls, streams, speed, repeat, seek, isSeeking, users, wanted, kept>>
EndClose ==
    /\ closing = "closing"
    /\ closing' = "closed" /\ thread' = [thread EXCEPT !.at = "ended"]
    /\ UNCHANGED <<running, locked, eof, saved, complete, done>>
    /\ UNCHANGED <<calls, streams, speed, repeat, seek, isSeeking, trigger, users, wanted, kept,
                   credit>>

-----------------------------------------------------------------------------
PlayerStep ==
    \/ BeginLoop \/ Turn \/ EndLoop \/ ReadNext
    \/ SaveSpeed \/ BeginSeek \/ (\E s \in Sources : SeekFrame(s)) \/ SeekSucceeds \/ SeekFails
    \/ RestoreSpeed \/ ResetEvents \/ CompleteSeek \/ ClearSeeking
    \/ OfferFrame \/ ManualTrigger \/ ResetTrigger \/ ManualTimeout \/ Deliver

\* What a call does once it has begun.
CallStep(u) ==
    AskStream(u) \/ AskSeek(u) \/ WakePlayer(u) \/ SeekReturns(u) \/ GetProperty(u)

NewCall ==
    \/ \E s \in Sources :
         \/ CreateStream(s) \/ StartStream(s) \/ StopStream(s) \/ DestroyStream(s)
         \/ \E u \in Users : BeginGetProperty(u, s) \/ AskFrame(u, s)
    \/ (\E x \in {Manual, Normal} : SetSpeed(x)) \/ SetRepeat \/ TryManualTrigger
    \/ BeginClose

Next ==
    \/ PlayerStep \/ NewCall \/ WakeForClose \/ EndClose
    \/ \E u \in Users : CallStep(u)

Spec == Init /\ [][Next]_vars

\* The operating system runs the threads that can run.
FairSpec ==
    Spec /\ WF_vars(PlayerStep) /\ WF_vars(WakeForClose)
         /\ \A u \in Users : WF_vars(CallStep(u))
-----------------------------------------------------------------------------
(* Properties *)

UserStates == [at : {"idle", "get", "stream", "flag", "wake", "wait"},
               source : Sources \cup {None}, clean : BOOLEAN]

TypeOK ==
    /\ thread \in [at : {"new", "loop", "read", "seek", "save", "restore", "reset", "answer",
                         "clear", "frame", "manual", "triggered", "deliver", "ended"},
                   source : Sources \cup {None}, seeking : BOOLEAN, request : Request,
                   left : SUBSET Sources]
    /\ running \in BOOLEAN /\ closing \in {"open", "stopping", "closing", "closed"}
    /\ streams \in [Sources -> {"none", "stopped", "started"}]
    /\ locked \subseteq {s \in Sources : HasStream(s)}
    /\ {speed, saved, wanted} \subseteq {Manual, Normal, Fastest}
    /\ {repeat, eof, isSeeking, trigger, complete, kept} \subseteq BOOLEAN
    /\ {seek, done} \subseteq Request
    /\ users \in [Users -> UserStates]
    /\ calls \in 0..MaxCalls /\ credit \in Int
    /\ closing = "closed" => At("ended")

\* A seek that invoke() waits for, that nothing overtook and that did not fail, is still
\* to be carried out, or it was carried out, with its own frame number and stream: no
\* order of the flag, the two events and their resets loses it or answers it early.
SeekIsAnswered ==
    \A u \in Users : users[u].at = "wait" /\ users[u].clean =>
        /\ isSeeking \/ complete
        /\ complete => done = [frame |-> u, source |-> users[u].source]

\* With the manual speed no frame leaves without a trigger: those of seeks and of the
\* device's closing count as triggers. The speed is the manual one again after a seek,
\* unless the seek failed or the speed was set during it.
FramesNeedTriggers == credit >= 0

\* A seek that nothing overtook returns, as long as some stream is started, also with
\* the manual speed, and a read of a property returns unless OnNewDataCallback left the
\* stream locked.
CallsReturn ==
    \A u \in Users :
        (users[u].at \in {"wait", "get"} /\ users[u].clean) ~>
            \/ users[u].at = "idle" \/ ~users[u].clean
            \/ users[u].at = "wait" /\ StartedStreams = {}
            \/ users[u].at = "get" /\ users[u].source \in locked

\* The player's thread ends by itself after close(), from wherever it is, unless its
\* loop began after close() had cleared m_running.
CloseEndsThread == closing = "closing" ~> At("ended") \/ running
=============================================================================
