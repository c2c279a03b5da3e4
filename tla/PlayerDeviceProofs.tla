------------------------- MODULE PlayerDeviceProofs -------------------------
(***************************************************************************)
(* Proofs about PlayerDevice for any number of threads of the application, *)
(* of sources and of calls: types, that a seek nothing disturbed is neither *)
(* lost nor answered early, and that with the manual speed no frame leaves *)
(* without a trigger.                                                      *)
(***************************************************************************)
EXTENDS PlayerDevice, TLAPS

\* Where the player's thread is tells whether it seeks, which it does for the flag; and
\* the device is closed when no call is in progress.
PlaceInv ==
    /\ thread.at \in {"frame", "manual", "triggered", "deliver"} => thread.source \in Sources
    /\ thread.at \in {"new", "loop", "read"} => ~thread.seeking
    /\ thread.at \in {"save", "restore", "reset", "answer", "clear"} => thread.seeking
    /\ At("seek") \/ thread.seeking => isSeeking
    /\ closing # "open" => Idle = Users

\* A seek that is asked for, or done and not yet taken, is a thread of the application
\* past its flag; one of each are two of them.
Waiter(u) == users[u].at \in {"wake", "wait"}
Pending == isSeeking /\ ~At("clear")
WaiterInv ==
    closing = "open" =>
        /\ Pending \/ complete => \E u \in Users : Waiter(u)
        /\ Pending /\ complete => \E u, v \in Users : u # v /\ Waiter(u) /\ Waiter(v)

\* The request of a clean seek is the only one: it is in m_seek, and what the player's
\* thread seeks, and what it completed.
RequestOf(u) == [frame |-> u, source |-> users[u].source]
CleanInv ==
    \A u \in Users : users[u].clean /\ InSeek(u) =>
        /\ \A v \in Users \ {u} : ~InSeek(v)
        /\ seek.frame = u
        /\ users[u].at # "stream" => seek.source = users[u].source
        /\ Waiter(u) =>
            /\ complete \/ Pending
            /\ complete \/ thread.at \in {"restore", "reset", "answer"} => done = RequestOf(u)
            /\ thread.seeking /\ ~At("save") => thread.request = RequestOf(u)

\* A trigger that is set was counted; and while the last speed was not disturbed, it is
\* the one in force, or the one that will be restored.
CreditInv ==
    /\ credit >= 0 /\ (trigger => credit >= 1)
    /\ kept /\ ~At("ended") =>
        wanted = IF thread.seeking /\ thread.at \notin {"reset", "answer", "clear"}
                 THEN saved ELSE speed

IInv == TypeOK /\ PlaceInv /\ WaiterInv /\ CleanInv /\ CreditInv

-----------------------------------------------------------------------------
(* The invariant holds at first, and each of its parts after each action. *)

LEMMA RequestFields ==
    ASSUME NEW r \in Request PROVE r = [frame |-> r.frame, source |-> r.source]
BY DEF Request

LEMMA DisturbedType ==
    ASSUME TypeOK PROVE Disturbed \in [Users -> UserStates]
BY ZenonT(40) DEF TypeOK, Disturbed, UserStates

LEMMA ReturnType ==
    ASSUME NEW f \in [Users -> UserStates], NEW u \in Users
    PROVE  [f EXCEPT ![u].at = "idle"] \in [Users -> UserStates]
BY DEF UserStates

LEMMA InitIInv == Init => IInv
<1> SUFFICES ASSUME Init PROVE IInv
  OBVIOUS
<1> USE CallsAssumption DEF Init, At, Request, NoRequest, Idle, InSeek
<1>1. TypeOK
  <2>1. thread \in [at : {"new"}, source : Sources \cup {None}, seeking : BOOLEAN,
                    request : Request, left : SUBSET Sources]
    OBVIOUS
  <2>2. /\ running \in BOOLEAN /\ closing = "open" /\ At("new")
        /\ streams \in [Sources -> {"none", "stopped", "started"}]
        /\ locked \subseteq {s \in Sources : HasStream(s)}
    OBVIOUS
  <2>3. /\ {speed, saved, wanted} \subseteq {Manual, Normal, Fastest}
        /\ {repeat, eof, isSeeking, trigger, complete, kept} \subseteq BOOLEAN
    OBVIOUS
  <2>4. {seek, done} \subseteq Request
    OBVIOUS
  <2>5. users \in [Users -> UserStates]
    BY DEF UserStates
  <2>6. calls \in 0..MaxCalls /\ credit \in Int
    OBVIOUS
  <2> HIDE DEF Init, Request
  <2> QED BY <2>1, <2>2, <2>3, <2>4, <2>5, <2>6 DEF TypeOK
<1>5. PlaceInv BY DEF PlaceInv
<1>2. WaiterInv BY DEF WaiterInv, Pending
<1>3. CleanInv BY DEF CleanInv
<1>4. CreditInv BY DEF CreditInv
<1> QED BY <1>1, <1>2, <1>3, <1>4, <1>5 DEF IInv

LEMMA TypeStep == IInv /\ [Next]_vars => TypeOK'
<1> SUFFICES ASSUME IInv, [Next]_vars PROVE TypeOK'
  OBVIOUS
<1>0. TypeOK /\ PlaceInv BY DEF IInv
<1> USE <1>0, CallsAssumption
    DEF TypeOK, PlaceInv, Request, UserStates, NoRequest, At, Goto, HasStream, Idle, Disturbed, Released,
      PlayerOnly, ThreadOnly, player, events, speeds, history,
      Call, StreamCall, MayCall
<1>1. CASE BeginLoop
  BY <1>1 DEF BeginLoop
<1>2. CASE Turn
  BY <1>2 DEF Turn
<1>3. CASE EndLoop
  BY <1>3 DEF EndLoop
<1>4. CASE ReadNext
  BY ZenonT(40), <1>4 DEF ReadNext
<1>4a. CASE SaveSpeed
  BY <1>4a DEF SaveSpeed
<1>5. CASE BeginSeek
  BY <1>5 DEF BeginSeek
<1>6. ASSUME NEW s \in Sources, SeekFrame(s) PROVE TypeOK'
  BY <1>6 DEF SeekFrame
<1>7. CASE SeekSucceeds
  BY <1>7 DEF SeekSucceeds
<1>8. CASE SeekFails
  <2>1. users' = Disturbed /\ thread' = [thread EXCEPT !.at = "loop", !.seeking = FALSE,
                                               !.request = NoRequest, !.left = {}]
    BY <1>8 DEF SeekFails
  <2>2. /\ eof' \in BOOLEAN /\ isSeeking' = FALSE /\ kept' = FALSE
        /\ UNCHANGED <<trigger, complete, speeds, done, credit, running, locked>>
        /\ UNCHANGED <<closing, streams, repeat, seek, calls, wanted>>
        /\ thread.at = "seek"
    BY <1>8 DEF SeekFails
  <2>3. thread' \in [at : {"new", "loop", "read", "seek", "save", "restore", "reset", "answer",
                         "clear", "frame", "manual", "triggered", "deliver", "ended"},
                   source : Sources \cup {None}, seeking : BOOLEAN, request : Request,
                   left : SUBSET Sources]
    BY <2>1
  <2>4. TypeOK
    BY <1>0
  <2> HIDE DEF TypeOK, UserStates, Disturbed
  <2>5. users' \in [Users -> UserStates]
    BY <2>1, <2>4, DisturbedType
  <2> QED BY <2>2, <2>3, <2>4, <2>5 DEF TypeOK
<1>9. CASE RestoreSpeed
  BY <1>9 DEF RestoreSpeed
<1>10. CASE ResetEvents
  BY <1>10 DEF ResetEvents
<1>11. CASE CompleteSeek
  BY <1>11 DEF CompleteSeek
<1>12. CASE ClearSeeking
  BY <1>12 DEF ClearSeeking
<1>13. CASE OfferFrame
  BY <1>13 DEF OfferFrame
<1>14. CASE ManualTrigger
  <2>1. credit' \in Int
    BY <1>14 DEF ManualTrigger
  <2>2. /\ thread' = [thread EXCEPT !.at = "triggered"] /\ trigger' = FALSE
        /\ UNCHANGED <<running, closing, streams, locked, speed, saved, wanted, repeat, eof,
                       isSeeking, complete, kept, seek, done, users, calls>>
        /\ closing # "closed"
    BY <1>14 DEF ManualTrigger
  <2> QED BY <2>1, <2>2
<1>15. CASE ResetTrigger
  BY <1>15 DEF ResetTrigger
<1>16. CASE ManualTimeout
  BY <1>16 DEF ManualTimeout
<1>17. CASE Deliver
  BY <1>17 DEF Deliver
<1>18. ASSUME NEW u \in Users, AskStream(u) PROVE TypeOK'
  BY <1>18 DEF AskStream
<1>19. ASSUME NEW u \in Users, AskSeek(u) PROVE TypeOK'
  BY <1>19 DEF AskSeek
<1>20. ASSUME NEW u \in Users, WakePlayer(u) PROVE TypeOK'
  BY <1>20 DEF WakePlayer
<1>21. ASSUME NEW u \in Users, SeekReturns(u) PROVE TypeOK'
  <2>1. users' = [users EXCEPT ![u].at = "idle"]
    BY <1>21 DEF SeekReturns
  <2>2. /\ complete' = FALSE
        /\ UNCHANGED <<thread, running, locked, eof, saved, done, calls, closing, streams,
                       speed, repeat, seek, isSeeking, trigger, wanted, kept, credit>>
    BY <1>21 DEF SeekReturns
  <2>3. users \in [Users -> UserStates]
    BY <1>0
  <2>4. TypeOK
    BY <1>0
  <2> HIDE DEF TypeOK, UserStates, Request
  <2>5. users' \in [Users -> UserStates]
    BY <2>1, <2>3, ReturnType
  <2> QED BY <2>2, <2>4, <2>5 DEF TypeOK
<1>22. ASSUME NEW u \in Users, GetProperty(u) PROVE TypeOK'
  BY <1>22 DEF GetProperty
<1>23. ASSUME NEW s \in Sources, CreateStream(s) PROVE TypeOK'
  BY <1>23 DEF CreateStream
<1>24. ASSUME NEW s \in Sources, StartStream(s) PROVE TypeOK'
  BY <1>24 DEF StartStream
<1>25. ASSUME NEW s \in Sources, StopStream(s) PROVE TypeOK'
  BY <1>25 DEF StopStream
<1>26. ASSUME NEW s \in Sources, DestroyStream(s) PROVE TypeOK'
  BY <1>26 DEF DestroyStream
<1>27. ASSUME NEW u \in Users, NEW s \in Sources, BeginGetProperty(u, s) PROVE TypeOK'
  BY <1>27 DEF BeginGetProperty
<1>28. ASSUME NEW u \in Users, NEW s \in Sources, AskFrame(u, s) PROVE TypeOK'
  BY <1>28 DEF AskFrame
<1>29. ASSUME NEW x \in {Manual, Normal}, SetSpeed(x) PROVE TypeOK'
  <2>1. /\ speed' \in {Manual, Normal, Fastest} /\ wanted' \in {Manual, Normal, Fastest}
        /\ kept' \in BOOLEAN /\ calls' \in 0..MaxCalls
    BY <1>29 DEF SetSpeed
  <2>2. users' \in [Users -> UserStates]
    BY <1>29, DisturbedType DEF SetSpeed
  <2>3. UNCHANGED <<thread, running, locked, eof, saved, complete, done, closing, streams,
                    repeat, seek, isSeeking, trigger, credit>>
    BY <1>29 DEF SetSpeed
  <2> QED BY <2>1, <2>2, <2>3
<1>30. CASE SetRepeat
  BY <1>30 DEF SetRepeat
<1>31. CASE TryManualTrigger
  BY <1>31 DEF TryManualTrigger
<1>32. CASE BeginClose
  BY <1>32 DEF BeginClose
<1>33. CASE WakeForClose
  BY <1>33 DEF WakeForClose
<1>34. CASE EndClose
  BY <1>34 DEF EndClose
<1>35. CASE UNCHANGED vars
  BY <1>35 DEF vars
<1> QED
  BY <1>1, <1>2, <1>3, <1>4, <1>5, <1>6, <1>7, <1>8, <1>9, <1>10, <1>11, <1>12, <1>13,
     <1>14, <1>15, <1>16, <1>17, <1>18, <1>19, <1>20, <1>21, <1>22, <1>23, <1>24, <1>25,
     <1>26, <1>27, <1>28, <1>29, <1>30, <1>31, <1>32, <1>33, <1>34, <1>35, <1>4a
  DEF Next, PlayerStep, NewCall, CallStep

LEMMA PlaceStep == IInv /\ [Next]_vars => PlaceInv'
<1> SUFFICES ASSUME IInv, [Next]_vars PROVE PlaceInv'
  OBVIOUS
<1>0. TypeOK /\ PlaceInv BY DEF IInv
<1> USE <1>0
    DEF TypeOK, PlaceInv, Request, UserStates, NoRequest, At, Goto, HasStream, Idle, Disturbed,
      PlayerOnly, ThreadOnly, player, events, speeds, history,
      Call, StreamCall, MayCall
<1>1. CASE BeginLoop
  BY <1>1 DEF BeginLoop
<1>2. CASE Turn
  BY <1>2 DEF Turn
<1>3. CASE EndLoop
  BY <1>3 DEF EndLoop
<1>4. CASE ReadNext
  BY <1>4 DEF ReadNext
<1>4a. CASE SaveSpeed
  BY <1>4a DEF SaveSpeed
<1>5. CASE BeginSeek
  BY <1>5 DEF BeginSeek
<1>6. ASSUME NEW s \in Sources, SeekFrame(s) PROVE PlaceInv'
  BY <1>6 DEF SeekFrame
<1>7. CASE SeekSucceeds
  BY <1>7 DEF SeekSucceeds
<1>8. CASE SeekFails
  BY <1>8 DEF SeekFails
<1>9. CASE RestoreSpeed
  BY <1>9 DEF RestoreSpeed
<1>10. CASE ResetEvents
  BY <1>10 DEF ResetEvents
<1>11. CASE CompleteSeek
  BY <1>11 DEF CompleteSeek
<1>12. CASE ClearSeeking
  BY <1>12 DEF ClearSeeking
<1>13. CASE OfferFrame
  BY <1>13 DEF OfferFrame
<1>14. CASE ManualTrigger
  BY <1>14 DEF ManualTrigger
<1>15. CASE ResetTrigger
  BY <1>15 DEF ResetTrigger
<1>16. CASE ManualTimeout
  BY <1>16 DEF ManualTimeout
<1>17. CASE Deliver
  BY <1>17 DEF Deliver
<1>18. ASSUME NEW u \in Users, AskStream(u) PROVE PlaceInv'
  BY <1>18 DEF AskStream
<1>19. ASSUME NEW u \in Users, AskSeek(u) PROVE PlaceInv'
  BY <1>19 DEF AskSeek
<1>20. ASSUME NEW u \in Users, WakePlayer(u) PROVE PlaceInv'
  BY <1>20 DEF WakePlayer
<1>21. ASSUME NEW u \in Users, SeekReturns(u) PROVE PlaceInv'
  BY <1>21 DEF SeekReturns
<1>22. ASSUME NEW u \in Users, GetProperty(u) PROVE PlaceInv'
  BY <1>22 DEF GetProperty
<1>23. ASSUME NEW s \in Sources, CreateStream(s) PROVE PlaceInv'
  BY <1>23 DEF CreateStream
<1>24. ASSUME NEW s \in Sources, StartStream(s) PROVE PlaceInv'
  BY <1>24 DEF StartStream
<1>25. ASSUME NEW s \in Sources, StopStream(s) PROVE PlaceInv'
  BY <1>25 DEF StopStream
<1>26. ASSUME NEW s \in Sources, DestroyStream(s) PROVE PlaceInv'
  BY <1>26 DEF DestroyStream
<1>27. ASSUME NEW u \in Users, NEW s \in Sources, BeginGetProperty(u, s) PROVE PlaceInv'
  BY <1>27 DEF BeginGetProperty
<1>28. ASSUME NEW u \in Users, NEW s \in Sources, AskFrame(u, s) PROVE PlaceInv'
  BY <1>28 DEF AskFrame
<1>29. ASSUME NEW x \in {Manual, Normal}, SetSpeed(x) PROVE PlaceInv'
  BY <1>29 DEF SetSpeed
<1>30. CASE SetRepeat
  BY <1>30 DEF SetRepeat
<1>31. CASE TryManualTrigger
  BY <1>31 DEF TryManualTrigger
<1>32. CASE BeginClose
  BY <1>32 DEF BeginClose
<1>33. CASE WakeForClose
  BY <1>33 DEF WakeForClose
<1>34. CASE EndClose
  BY <1>34 DEF EndClose
<1>35. CASE UNCHANGED vars
  BY <1>35 DEF vars
<1> QED
  BY <1>1, <1>2, <1>3, <1>4, <1>5, <1>6, <1>7, <1>8, <1>9, <1>10, <1>11, <1>12, <1>13,
     <1>14, <1>15, <1>16, <1>17, <1>18, <1>19, <1>20, <1>21, <1>22, <1>23, <1>24, <1>25,
     <1>26, <1>27, <1>28, <1>29, <1>30, <1>31, <1>32, <1>33, <1>34, <1>35, <1>4a
  DEF Next, PlayerStep, NewCall, CallStep

LEMMA WaiterStep == IInv /\ [Next]_vars => WaiterInv'
<1> SUFFICES ASSUME IInv, [Next]_vars PROVE WaiterInv'
  OBVIOUS
<1>0. TypeOK /\ PlaceInv /\ WaiterInv BY DEF IInv
<1> USE <1>0
    DEF TypeOK, UserStates, PlaceInv, WaiterInv, Waiter, Pending, At, Goto, HasStream, Idle, Disturbed,
      PlayerOnly, ThreadOnly, player, events, speeds, history,
      Call, StreamCall, MayCall
<1>1. CASE BeginLoop
  BY <1>1 DEF BeginLoop
<1>2. CASE Turn
  BY <1>2 DEF Turn
<1>3. CASE EndLoop
  BY <1>3 DEF EndLoop
<1>4. CASE ReadNext
  BY <1>4 DEF ReadNext
<1>4a. CASE SaveSpeed
  BY <1>4a DEF SaveSpeed
<1>5. CASE BeginSeek
  BY <1>5 DEF BeginSeek
<1>6. ASSUME NEW s \in Sources, SeekFrame(s) PROVE WaiterInv'
  BY <1>6 DEF SeekFrame
<1>7. CASE SeekSucceeds
  BY <1>7 DEF SeekSucceeds
<1>8. CASE SeekFails
  BY <1>8 DEF SeekFails
<1>9. CASE RestoreSpeed
  BY <1>9 DEF RestoreSpeed
<1>10. CASE ResetEvents
  BY <1>10 DEF ResetEvents
<1>11. CASE CompleteSeek
  BY <1>11 DEF CompleteSeek
<1>12. CASE ClearSeeking
  BY <1>12 DEF ClearSeeking
<1>13. CASE OfferFrame
  BY <1>13 DEF OfferFrame
<1>14. CASE ManualTrigger
  BY <1>14 DEF ManualTrigger
<1>15. CASE ResetTrigger
  BY <1>15 DEF ResetTrigger
<1>16. CASE ManualTimeout
  BY <1>16 DEF ManualTimeout
<1>17. CASE Deliver
  BY <1>17 DEF Deliver
<1>18. ASSUME NEW u \in Users, AskStream(u) PROVE WaiterInv'
  BY <1>18 DEF AskStream
<1>19. ASSUME NEW u \in Users, AskSeek(u) PROVE WaiterInv'
  BY <1>19 DEF AskSeek
<1>20. ASSUME NEW u \in Users, WakePlayer(u) PROVE WaiterInv'
  BY <1>20 DEF WakePlayer
<1>21. ASSUME NEW u \in Users, SeekReturns(u) PROVE WaiterInv'
  BY <1>21 DEF SeekReturns
<1>22. ASSUME NEW u \in Users, GetProperty(u) PROVE WaiterInv'
  BY <1>22 DEF GetProperty
<1>23. ASSUME NEW s \in Sources, CreateStream(s) PROVE WaiterInv'
  BY <1>23 DEF CreateStream
<1>24. ASSUME NEW s \in Sources, StartStream(s) PROVE WaiterInv'
  BY <1>24 DEF StartStream
<1>25. ASSUME NEW s \in Sources, StopStream(s) PROVE WaiterInv'
  BY <1>25 DEF StopStream
<1>26. ASSUME NEW s \in Sources, DestroyStream(s) PROVE WaiterInv'
  BY <1>26 DEF DestroyStream
<1>27. ASSUME NEW u \in Users, NEW s \in Sources, BeginGetProperty(u, s) PROVE WaiterInv'
  BY <1>27 DEF BeginGetProperty
<1>28. ASSUME NEW u \in Users, NEW s \in Sources, AskFrame(u, s) PROVE WaiterInv'
  BY <1>28 DEF AskFrame
<1>29. ASSUME NEW x \in {Manual, Normal}, SetSpeed(x) PROVE WaiterInv'
  BY <1>29 DEF SetSpeed
<1>30. CASE SetRepeat
  BY <1>30 DEF SetRepeat
<1>31. CASE TryManualTrigger
  BY <1>31 DEF TryManualTrigger
<1>32. CASE BeginClose
  BY <1>32 DEF BeginClose
<1>33. CASE WakeForClose
  BY <1>33 DEF WakeForClose
<1>34. CASE EndClose
  BY <1>34 DEF EndClose
<1>35. CASE UNCHANGED vars
  BY <1>35 DEF vars
<1> QED
  BY <1>1, <1>2, <1>3, <1>4, <1>5, <1>6, <1>7, <1>8, <1>9, <1>10, <1>11, <1>12, <1>13,
     <1>14, <1>15, <1>16, <1>17, <1>18, <1>19, <1>20, <1>21, <1>22, <1>23, <1>24, <1>25,
     <1>26, <1>27, <1>28, <1>29, <1>30, <1>31, <1>32, <1>33, <1>34, <1>35, <1>4a
  DEF Next, PlayerStep, NewCall, CallStep

LEMMA CleanStep == IInv /\ [Next]_vars => CleanInv'
<1> SUFFICES ASSUME IInv, [Next]_vars PROVE CleanInv'
  OBVIOUS
<1>0. TypeOK /\ PlaceInv /\ WaiterInv /\ CleanInv BY DEF IInv
<1> USE <1>0
    DEF TypeOK, UserStates, PlaceInv, WaiterInv, CleanInv, Waiter, Pending, InSeek, RequestOf, At, Goto,
      HasStream, Idle, Disturbed,
      PlayerOnly, ThreadOnly, player, events, speeds, history,
      Call, StreamCall, MayCall
<1>1. CASE BeginLoop
  BY <1>1 DEF BeginLoop
<1>2. CASE Turn
  BY <1>2 DEF Turn
<1>3. CASE EndLoop
  BY <1>3 DEF EndLoop
<1>4. CASE ReadNext
  <2>1. /\ UNCHANGED <<users, seek, complete, isSeeking, done>>
        /\ thread'.at \in {"frame", "loop"} /\ thread'.seeking = thread.seeking
        /\ ~thread.seeking /\ thread.at = "read"
    BY ZenonT(40), <1>4 DEF ReadNext
  <2> QED BY <2>1
<1>4a. CASE SaveSpeed
  BY <1>4a DEF SaveSpeed
<1>5. CASE BeginSeek
  <2>1. seek = [frame |-> seek.frame, source |-> seek.source]
    BY RequestFields
  <2>2. /\ UNCHANGED <<users, seek, complete, isSeeking, done>>
        /\ thread'.at = "seek" /\ thread'.request = seek
        /\ thread.at = "save"
    BY <1>5 DEF BeginSeek
  <2> QED BY <2>1, <2>2
<1>6. ASSUME NEW s \in Sources, SeekFrame(s) PROVE CleanInv'
  BY <1>6 DEF SeekFrame
<1>7. CASE SeekSucceeds
  BY <1>7 DEF SeekSucceeds
<1>8. CASE SeekFails
  BY <1>8 DEF SeekFails
<1>9. CASE RestoreSpeed
  BY <1>9 DEF RestoreSpeed
<1>10. CASE ResetEvents
  BY <1>10 DEF ResetEvents
<1>11. CASE CompleteSeek
  BY <1>11 DEF CompleteSeek
<1>12. CASE ClearSeeking
  BY <1>12 DEF ClearSeeking
<1>13. CASE OfferFrame
  BY <1>13 DEF OfferFrame
<1>14. CASE ManualTrigger
  BY <1>14 DEF ManualTrigger
<1>15. CASE ResetTrigger
  BY <1>15 DEF ResetTrigger
<1>16. CASE ManualTimeout
  BY <1>16 DEF ManualTimeout
<1>17. CASE Deliver
  BY <1>17 DEF Deliver
<1>18. ASSUME NEW u \in Users, AskStream(u) PROVE CleanInv'
  BY <1>18 DEF AskStream
<1>19. ASSUME NEW u \in Users, AskSeek(u) PROVE CleanInv'
  BY <1>19 DEF AskSeek
<1>20. ASSUME NEW u \in Users, WakePlayer(u) PROVE CleanInv'
  BY <1>20 DEF WakePlayer
<1>21. ASSUME NEW u \in Users, SeekReturns(u) PROVE CleanInv'
  BY <1>21 DEF SeekReturns
<1>22. ASSUME NEW u \in Users, GetProperty(u) PROVE CleanInv'
  BY <1>22 DEF GetProperty
<1>23. ASSUME NEW s \in Sources, CreateStream(s) PROVE CleanInv'
  BY <1>23 DEF CreateStream
<1>24. ASSUME NEW s \in Sources, StartStream(s) PROVE CleanInv'
  BY <1>24 DEF StartStream
<1>25. ASSUME NEW s \in Sources, StopStream(s) PROVE CleanInv'
  BY <1>25 DEF StopStream
<1>26. ASSUME NEW s \in Sources, DestroyStream(s) PROVE CleanInv'
  BY <1>26 DEF DestroyStream
<1>27. ASSUME NEW u \in Users, NEW s \in Sources, BeginGetProperty(u, s) PROVE CleanInv'
  BY <1>27 DEF BeginGetProperty
<1>28. ASSUME NEW u \in Users, NEW s \in Sources, AskFrame(u, s) PROVE CleanInv'
  BY <1>28 DEF AskFrame
<1>29. ASSUME NEW x \in {Manual, Normal}, SetSpeed(x) PROVE CleanInv'
  BY <1>29 DEF SetSpeed
<1>30. CASE SetRepeat
  BY <1>30 DEF SetRepeat
<1>31. CASE TryManualTrigger
  BY <1>31 DEF TryManualTrigger
<1>32. CASE BeginClose
  BY <1>32 DEF BeginClose
<1>33. CASE WakeForClose
  BY <1>33 DEF WakeForClose
<1>34. CASE EndClose
  BY <1>34 DEF EndClose
<1>35. CASE UNCHANGED vars
  BY <1>35 DEF vars
<1> QED
  BY ZenonT(40), <1>1, <1>2, <1>3, <1>4, <1>5, <1>6, <1>7, <1>8, <1>9, <1>10, <1>11, <1>12,
     <1>13,
     <1>14, <1>15, <1>16, <1>17, <1>18, <1>19, <1>20, <1>21, <1>22, <1>23, <1>24, <1>25,
     <1>26, <1>27, <1>28, <1>29, <1>30, <1>31, <1>32, <1>33, <1>34, <1>35, <1>4a
  DEF Next, PlayerStep, NewCall, CallStep

LEMMA CreditStep == IInv /\ [Next]_vars => CreditInv'
<1> SUFFICES ASSUME IInv, [Next]_vars PROVE CreditInv'
  OBVIOUS
<1>0. TypeOK /\ PlaceInv /\ CreditInv BY DEF IInv
<1> USE <1>0
    DEF TypeOK, UserStates, PlaceInv, CreditInv, At, Goto, HasStream, Released,
      PlayerOnly, ThreadOnly, player, events, speeds, history,
      Call, StreamCall, MayCall
<1>1. CASE BeginLoop
  BY <1>1 DEF BeginLoop
<1>2. CASE Turn
  BY <1>2 DEF Turn
<1>3. CASE EndLoop
  BY <1>3 DEF EndLoop
<1>4. CASE ReadNext
  BY <1>4 DEF ReadNext
<1>4a. CASE SaveSpeed
  BY <1>4a DEF SaveSpeed
<1>5. CASE BeginSeek
  BY <1>5 DEF BeginSeek
<1>6. ASSUME NEW s \in Sources, SeekFrame(s) PROVE CreditInv'
  BY <1>6 DEF SeekFrame
<1>7. CASE SeekSucceeds
  BY <1>7 DEF SeekSucceeds
<1>8. CASE SeekFails
  BY <1>8 DEF SeekFails
<1>9. CASE RestoreSpeed
  BY <1>9 DEF RestoreSpeed
<1>10. CASE ResetEvents
  BY <1>10 DEF ResetEvents
<1>11. CASE CompleteSeek
  BY <1>11 DEF CompleteSeek
<1>12. CASE ClearSeeking
  BY <1>12 DEF ClearSeeking
<1>13. CASE OfferFrame
  BY <1>13 DEF OfferFrame
<1>14. CASE ManualTrigger
  BY <1>14 DEF ManualTrigger
<1>15. CASE ResetTrigger
  BY <1>15 DEF ResetTrigger
<1>16. CASE ManualTimeout
  BY <1>16 DEF ManualTimeout
<1>17. CASE Deliver
  BY <1>17 DEF Deliver
<1>18. ASSUME NEW u \in Users, AskStream(u) PROVE CreditInv'
  BY <1>18 DEF AskStream
<1>19. ASSUME NEW u \in Users, AskSeek(u) PROVE CreditInv'
  BY <1>19 DEF AskSeek
<1>20. ASSUME NEW u \in Users, WakePlayer(u) PROVE CreditInv'
  BY <1>20 DEF WakePlayer
<1>21. ASSUME NEW u \in Users, SeekReturns(u) PROVE CreditInv'
  BY <1>21 DEF SeekReturns
<1>22. ASSUME NEW u \in Users, GetProperty(u) PROVE CreditInv'
  BY <1>22 DEF GetProperty
<1>23. ASSUME NEW s \in Sources, CreateStream(s) PROVE CreditInv'
  BY <1>23 DEF CreateStream
<1>24. ASSUME NEW s \in Sources, StartStream(s) PROVE CreditInv'
  BY <1>24 DEF StartStream
<1>25. ASSUME NEW s \in Sources, StopStream(s) PROVE CreditInv'
  BY <1>25 DEF StopStream
<1>26. ASSUME NEW s \in Sources, DestroyStream(s) PROVE CreditInv'
  BY <1>26 DEF DestroyStream
<1>27. ASSUME NEW u \in Users, NEW s \in Sources, BeginGetProperty(u, s) PROVE CreditInv'
  BY <1>27 DEF BeginGetProperty
<1>28. ASSUME NEW u \in Users, NEW s \in Sources, AskFrame(u, s) PROVE CreditInv'
  BY <1>28 DEF AskFrame
<1>29. ASSUME NEW x \in {Manual, Normal}, SetSpeed(x) PROVE CreditInv'
  BY <1>29 DEF SetSpeed
<1>30. CASE SetRepeat
  BY <1>30 DEF SetRepeat
<1>31. CASE TryManualTrigger
  BY <1>31 DEF TryManualTrigger
<1>32. CASE BeginClose
  BY <1>32 DEF BeginClose
<1>33. CASE WakeForClose
  BY <1>33 DEF WakeForClose
<1>34. CASE EndClose
  BY <1>34 DEF EndClose
<1>35. CASE UNCHANGED vars
  BY <1>35 DEF vars
<1> QED
  BY <1>1, <1>2, <1>3, <1>4, <1>5, <1>6, <1>7, <1>8, <1>9, <1>10, <1>11, <1>12, <1>13,
     <1>14, <1>15, <1>16, <1>17, <1>18, <1>19, <1>20, <1>21, <1>22, <1>23, <1>24, <1>25,
     <1>26, <1>27, <1>28, <1>29, <1>30, <1>31, <1>32, <1>33, <1>34, <1>35, <1>4a
  DEF Next, PlayerStep, NewCall, CallStep

-----------------------------------------------------------------------------
(* The theorems. *)

\* IInv holds in every reachable state of the player's thread and the calls it serves.
THEOREM Invariance == Spec => []IInv
<1>1. IInv /\ [Next]_vars => IInv'
  BY TypeStep, PlaceStep, WaiterStep, CleanStep, CreditStep DEF IInv
<1> QED BY InitIInv, <1>1, PTL DEF Spec

\* Every variable keeps its type, and a stream is locked only while it exists.
THEOREM TypeCorrect == Spec => []TypeOK
<1>1. IInv => TypeOK BY DEF IInv
<1> QED BY <1>1, Invariance, PTL

\* invoke(ONI_DEVICE_COMMAND_SEEK) is answered by its own seek: whatever the order in
\* which the flag, the request, the two events and their resets are set, read and taken.
THEOREM SeeksAreAnswered == Spec => []SeekIsAnswered
<1>1. IInv => SeekIsAnswered
  BY DEF IInv, SeekIsAnswered, CleanInv, InSeek, Waiter, Pending, RequestOf
<1> QED BY <1>1, Invariance, PTL

\* With the manual speed OnNodeNewData never lets a frame go without a trigger.
THEOREM TriggersReleaseFrames == Spec => []FramesNeedTriggers
<1>1. IInv => FramesNeedTriggers
  BY DEF IInv, CreditInv, FramesNeedTriggers
<1> QED BY <1>1, Invariance, PTL
=============================================================================
