----------------------------- MODULE HostProofs -----------------------------
(***************************************************************************)
(* What is proved of the parts of a process that surround the game: its    *)
(* threads, its window, its clock and its renderer.                        *)
(***************************************************************************)
EXTENDS LocalServer, Window, GameClock, Renderer, FiniteSetTheorems, TLAPS

-----------------------------------------------------------------------------
(* The threads. *)

\* Where the threads can be, and what errno, udp_errno, the hints, the sockets
\* and what arrived can be.
LocalTypeOK ==
  /\ build \in [system : Systems, program : Programs]
  /\ main \in {"start", "addr", "hints", "lookup", "send", "poll", "play", "wait"}
                \cup MainEnded
  /\ serv \in {"none", "init", "addr", "hints", "lookup", "bind", "receive",
               "check", "returned"}
  /\ errno \in [Thread -> {"none", "again", "other"}]
  /\ udp_errno \in {"none", "again", "other"}
  /\ hints \in {"zero", "udp4"}
  /\ socket \in [Thread -> {"none", "udp4", "other"}]
  /\ thread_id \in BOOLEAN
  /\ running \in BOOLEAN
  /\ return_value \in 0 .. 3
  /\ arrived \in [Thread -> {"nothing", "handshake", "answer", "stranger"}]
  /\ handshakes \in 0 .. MaxHandshakes
  /\ failed \subseteq Thread

\* The types hold when the process starts.
LEMMA ThreadsInitTyped == LocalInit => LocalTypeOK
<1> SUFFICES ASSUME LocalInit  PROVE LocalTypeOK
  OBVIOUS
<1>1. /\ errno \in [Thread -> {"none", "again", "other"}]
      /\ socket \in [Thread -> {"none", "udp4", "other"}]
      /\ arrived \in [Thread -> {"nothing", "handshake", "answer", "stranger"}]
      /\ failed \subseteq Thread
  BY DEF LocalInit
<1>2. handshakes \in 0 .. MaxHandshakes /\ return_value \in 0 .. 3
  BY MaxHandshakesAssumption DEF LocalInit
<1>3. QED
  BY <1>1, <1>2 DEF LocalInit, LocalTypeOK

\* A receive that fails leaves errors of the kinds there are.
LEMMA ReceiveFailsTyped ==
  ASSUME LocalTypeOK, NEW t \in Thread, ReceiveFails(t)
  PROVE  /\ errno' \in [Thread -> {"none", "again", "other"}]
         /\ udp_errno' \in {"none", "again", "other"}
         /\ failed' \subseteq Thread
         /\ arrived' \in [Thread -> {"nothing", "handshake", "answer", "stranger"}]
<1>1. CASE AddressMismatch(t)
  BY <1>1 DEF AddressMismatch, LocalTypeOK
<1>2. CASE ~AddressMismatch(t)
  <2>1. PICK e \in {"again", "other"} : UnixReceiveFails(t, e) \/ Win32ReceiveFails(t, e)
    BY <1>2 DEF ReceiveFails
  <2> QED
    BY <2>1
    DEF UnixReceiveFails, Win32ReceiveFails, UdpErrno, LocalTypeOK
<1> QED
  BY <1>1, <1>2

\* Every step keeps the types.
LEMMA ThreadsTyped ==
  ASSUME LocalTypeOK, [LocalNext]_process
  PROVE  LocalTypeOK'
<1> USE MaxHandshakesAssumption DEF LocalTypeOK, Thread, MainEnded, Systems, Programs
<1>1. CASE Start
  <2>1. thread_id' \in BOOLEAN
    BY <1>1
    DEF Start, CreateNetworkServer, UnixThreadCreate, Win32ThreadCreate
  <2>2. main' \in {"failed", "addr", "wait"} /\ serv' \in {serv, "init", "none"}
    BY <1>1 DEF Start, CreateNetworkServer, Goto
  <2>3. UNCHANGED <<build, errno, udp_errno, hints, socket, running,
                    return_value, arrived, handshakes, failed>>
    BY <1>1 DEF Start
  <2> QED
    BY <2>1, <2>2, <2>3
<1>2. CASE WaitForNetworkServer
  BY <1>2
  DEF WaitForNetworkServer, UnixJoin, Win32Join, Goto
<1>3. CASE ServerStart
  BY <1>3
  DEF ServerStart, At, Goto, Return
<1>4. CASE Send
  BY <1>4
  DEF Send, Goto
<1>5. CASE SendFails
  BY <1>5
  DEF SendFails, Goto
<1>6. CASE NoAnswer
  BY <1>6
  DEF NoAnswer, Goto
<1>7. CASE ReceiveAnswer
  BY <1>7
  DEF ReceiveAnswer, Goto
<1>8. CASE Filter
  BY <1>8
  DEF Filter
<1>9. CASE ReceiveFromFails
  <2>1. /\ errno' \in [Thread -> {"none", "again", "other"}]
        /\ udp_errno' \in {"none", "again", "other"}
        /\ failed' \subseteq Thread
        /\ arrived' \in [Thread -> {"nothing", "handshake", "answer", "stranger"}]
    BY <1>9, ReceiveFailsTyped DEF ReceiveFromFails
  <2>2. QED
    BY <1>9, <2>1 DEF ReceiveFromFails, Goto
<1>10. CASE Bind
  BY <1>10
  DEF Bind, At, Goto, Return
<1>11. CASE ServerReceive
  BY <1>11
  DEF ServerReceive, At
<1>12. CASE ReceiveAnyFails
  <2>1. /\ errno' \in [Thread -> {"none", "again", "other"}]
        /\ udp_errno' \in {"none", "again", "other"}
        /\ failed' \subseteq Thread
        /\ arrived' \in [Thread -> {"nothing", "handshake", "answer", "stranger"}]
    BY <1>12, ReceiveFailsTyped DEF ReceiveAnyFails
  <2>2. QED
    BY <1>12, <2>1 DEF ReceiveAnyFails, Goto
<1>13. CASE CheckErrno
  BY <1>13
  DEF CheckErrno, At, Goto
<1>14. CASE ServerReturn
  BY <1>14
  DEF ServerReturn, At, Return
<1>15. CASE Stranger
  BY <1>15
  DEF Stranger
<1>16. CASE CloseGame
  BY <1>16
  DEF CloseGame, Goto
<1>17. ASSUME NEW t \in Thread, ClearHints(t)
      PROVE  LocalTypeOK'
  BY <1>17
  DEF ClearHints, At, Goto
<1>18. ASSUME NEW t \in Thread, FillHints(t)
      PROVE  LocalTypeOK'
  BY <1>18
  DEF FillHints, At, Goto
<1>19. ASSUME NEW t \in Thread, UnixLookup(t)
      PROVE  LocalTypeOK'
  BY <1>19
  DEF UnixLookup, At, Goto
<1>20. ASSUME NEW t \in Thread, Win32Lookup(t)
      PROVE  LocalTypeOK'
  BY <1>20
  DEF Win32Lookup, GiveUp, At, Goto, Return
<1>21. ASSUME NEW t \in Thread, LookupFails(t)
      PROVE  LocalTypeOK'
  BY <1>21
  DEF LookupFails, GiveUp, At, Goto, Return
<1>22. CASE UNCHANGED process
  BY <1>22 DEF process
<1>23. QED
  BY <1>1, <1>2, <1>3, <1>4, <1>5, <1>6, <1>7, <1>8, <1>9, <1>10, <1>11,
       <1>12, <1>13, <1>14, <1>15, <1>16, <1>17, <1>18, <1>19, <1>20, <1>21,
       <1>22
  DEF LocalNext, MainNext, ServerThreadNext, Thread

\* Every variable of the threads keeps its type (TypeOK of the threads).
THEOREM ThreadsTypeCorrect == LocalSpec => []LocalTypeOK
<1>1. LocalInit => LocalTypeOK
  BY ThreadsInitTyped
<1>2. LocalTypeOK /\ [LocalNext]_process => LocalTypeOK'
  BY ThreadsTyped
<1>3. QED
  BY <1>1, <1>2, PTL DEF LocalSpec

-----------------------------------------------------------------------------
(* The window. *)

Procs == INSTANCE FoldProofs WITH op <- WindowProc

\* What a buffer holds: nothing, or what comes of an event of the window system.
PlatformEvent ==
  [type : {"not_implemented"} \cup {e.kind : e \in SystemEvents},
   key : {"0"} \cup {e.key : e \in SystemEvents},
   y : Int, from : {"none"} \cup SystemEvents]

WindowTypeOK ==
  /\ platform \in {"x11", "win32", "macosx"}
  /\ at \in {"create", "initialize", "top", "poll"} \cup WindowEnded
  /\ made \in Nat
  /\ size \in Sizes
  /\ pixels \in Int
  /\ pending \in Seq(SystemEvents)
  /\ slot \in 0 .. Buffers - 1
  /\ input_event \in [0 .. Buffers - 1 -> [1 .. MaxTickEvents -> PlatformEvent]]
  /\ used \in 0 .. MaxTickEvents
  /\ polled \in Seq(PlatformEvent)
  /\ frames \in Seq(Seq(PlatformEvent))
  /\ disturbed \in BOOLEAN

\* Until the window is resized it is as large as it was, and so is the
\* projection; and a click is measured from its lower edge.
ClickInv ==
  ~disturbed =>
    /\ size = StartSize
    /\ platform # "x11" =>
         /\ at \in {"top", "poll"} \/ polled # <<>> => projection = StartSize
         /\ \A i \in DOMAIN polled :
              /\ polled[i].from \in SystemEvents
              /\ IsMouse(polled[i].from) =>
                   polled[i].y = StartSize - polled[i].from.top

WindowInv == WindowTypeOK /\ ClickInv /\ TurnsHoldInput

-----------------------------------------------------------------------------
(* What PollEvent makes of events. *)

LEMMA NoEventType == NoEvent \in PlatformEvent
BY DEF NoEvent, PlatformEvent

LEMMA HandledType ==
  ASSUME WindowTypeOK, NEW event \in PlatformEvent, NEW e \in SystemEvents
  PROVE  /\ HandleKeyEvent(event, e) \in PlatformEvent
         /\ HandleMouseEvent(event, e) \in PlatformEvent
<1>1. size - e.top \in Int
  BY WindowAssumption DEF WindowTypeOK
<1>2. HandleKeyEvent(event, e) \in PlatformEvent
  BY DEF HandleKeyEvent, PlatformEvent
<1>3. HandleMouseEvent(event, e) \in PlatformEvent
  BY <1>1 DEF HandleMouseEvent, PlatformEvent
<1> QED
  BY <1>2, <1>3

LEMMA WindowProcType ==
  ASSUME WindowTypeOK, NEW event \in PlatformEvent, NEW e \in SystemEvents
  PROVE  WindowProc(event, e) \in PlatformEvent
BY HandledType DEF WindowProc

\* Whatever DefWindowProc dispatches, an event comes of it.
LEMMA WindowProcsType ==
  ASSUME WindowTypeOK, NEW events \in Seq(SystemEvents)
  PROVE  FoldLeft(WindowProc, NoEvent, events) \in PlatformEvent
<1> DEFINE part(n) == Procs!Fold(NoEvent, SubSeq(events, 1, n))
           N == {n \in Nat : n <= Len(events) => part(n) \in PlatformEvent}
<1>1. 0 \in N
  <2>1. SubSeq(events, 1, 0) = <<>>
    OBVIOUS
  <2>2. part(0) = NoEvent
    BY <2>1, Procs!FoldEmpty
  <2> QED
    BY <2>2, NoEventType
<1>2. ASSUME NEW n \in Nat, n \in N
      PROVE  n + 1 \in N
  <2>1. SUFFICES ASSUME n + 1 <= Len(events)
                 PROVE  part(n + 1) \in PlatformEvent
    OBVIOUS
  <2>2. part(n) \in PlatformEvent
    BY <1>2, <2>1
  <2>3. \A s \in Seq(SystemEvents), k \in Nat : k + 1 <= Len(s) =>
          Procs!Fold(NoEvent, SubSeq(s, 1, k + 1))
            = WindowProc(Procs!Fold(NoEvent, SubSeq(s, 1, k)), s[k + 1])
    BY Procs!FoldPrefix
  <2>4. part(n + 1) = WindowProc(part(n), events[n + 1])
    BY ONLY <2>1, <2>3, n \in Nat, events \in Seq(SystemEvents)
  <2>5. events[n + 1] \in SystemEvents
    BY <2>1
  <2> HIDE DEF part
  <2> QED
    BY <2>2, <2>4, <2>5, WindowProcType
<1>3. Nat \subseteq N
  <2> HIDE DEF N
  <2> QED BY <1>1, <1>2, Procs!NatSetInduction
<1>4. SubSeq(events, 1, Len(events)) = events /\ Len(events) \in Nat
  OBVIOUS
<1>5. Procs!Fold(NoEvent, events) \in PlatformEvent
  <2>1. Len(events) \in N
    BY <1>3, <1>4
  <2>2. part(Len(events)) \in PlatformEvent
    BY <2>1, <1>4
  <2>3. part(Len(events)) = Procs!Fold(NoEvent, events)
    BY <1>4
  <2> QED
    BY <2>2, <2>3
<1>6. \A m, t : FoldLeft(WindowProc, m, t) = Procs!Fold(m, t)
  BY DEF FoldLeft, MapThenFoldSet, Max, Procs!Fold,
         Procs!FoldLeft, Procs!MapThenFoldSet, Procs!Max
<1> QED
  BY <1>5, <1>6

\* One event is translated once.
LEMMA OneWindowProc ==
  ASSUME NEW e \in SystemEvents
  PROVE  FoldLeft(WindowProc, NoEvent, <<e>>) = WindowProc(NoEvent, e)
<1>1. \A m, t : FoldLeft(WindowProc, m, t) = Procs!Fold(m, t)
  BY DEF FoldLeft, MapThenFoldSet, Max, Procs!Fold,
         Procs!FoldLeft, Procs!MapThenFoldSet, Procs!Max
<1>2. \A s \in Seq(SystemEvents), x \in SystemEvents :
        Procs!Fold(NoEvent, Append(s, x)) = WindowProc(Procs!Fold(NoEvent, s), x)
  BY Procs!FoldAppend
<1>3. Append(<<>>, e) = <<e>> /\ <<>> \in Seq(SystemEvents)
  OBVIOUS
<1>4. Procs!Fold(NoEvent, <<>>) = NoEvent
  BY Procs!FoldEmpty
<1>5. Procs!Fold(NoEvent, Append(<<>>, e))
        = WindowProc(Procs!Fold(NoEvent, <<>>), e)
  BY ONLY <1>2, <1>3, e \in SystemEvents
<1> QED
  BY ONLY <1>1, <1>3, <1>4, <1>5

LEMMA TranslateType ==
  ASSUME WindowTypeOK, NEW events \in Seq(SystemEvents), events # <<>>
  PROVE  Translate(events) \in PlatformEvent
<1> DEFINE e == Head(events)
<1>1. e \in SystemEvents
  OBVIOUS
<1> HIDE DEF e
<1>2. pixels - e.top \in Int /\ pixels \in Int
  BY <1>1, WindowAssumption DEF WindowTypeOK
<1>3. X11Event(e) \in PlatformEvent
  BY <1>1, <1>2 DEF X11Event, PlatformEvent, NoEvent
<1>4. TranslateEvent(e) \in PlatformEvent
  <2>1. HandleMouseEvent(NoEvent, e) \in PlatformEvent
    BY <1>1, NoEventType, HandledType
  <2>2. \A event \in PlatformEvent :
          [event EXCEPT !.type = e.kind, !.key = e.key, !.from = e] \in PlatformEvent
    BY <1>1 DEF PlatformEvent
  <2> QED
    BY <2>1, <2>2, NoEventType DEF TranslateEvent
<1>5. FoldLeft(WindowProc, NoEvent, events) \in PlatformEvent
  BY WindowProcsType
<1>6. platform \in {"x11", "win32", "macosx"}
  BY DEF WindowTypeOK
<1>7. Translate(events)
        \in {X11Event(e), FoldLeft(WindowProc, NoEvent, events), TranslateEvent(e)}
  BY <1>6 DEF Translate, e
<1> QED
  BY <1>3, <1>4, <1>5, <1>7

\* A click that is polled alone keeps its place.
LEMMA ClickKeepsPlace ==
  ASSUME WindowTypeOK, platform # "x11", NEW e \in SystemEvents,
         IsInput(Translate(<<e>>))
  PROVE  /\ Translate(<<e>>).from = e
         /\ IsMouse(e) => Translate(<<e>>).y = size - e.top
<1>1. Head(<<e>>) = e
  OBVIOUS
<1>2. platform \in {"win32", "macosx"}
  BY DEF WindowTypeOK
<1>3. Translate(<<e>>) \in {FoldLeft(WindowProc, NoEvent, <<e>>), TranslateEvent(e)}
  BY <1>1, <1>2 DEF Translate
<1>4. Translate(<<e>>) \in {WindowProc(NoEvent, e), TranslateEvent(e)}
  BY <1>3, OneWindowProc
<1>5. IsKey(e) => ~IsMouse(e)
  BY DEF IsKey, IsMouse
<1>6. ~IsInput(NoEvent)
  BY DEF NoEvent, IsInput
<1>7. /\ HandleMouseEvent(NoEvent, e).y = size - e.top
      /\ HandleMouseEvent(NoEvent, e).from = e
  BY DEF HandleMouseEvent, NoEvent
<1>8. HandleKeyEvent(NoEvent, e).from = e
  BY DEF HandleKeyEvent, NoEvent
<1>9. [NoEvent EXCEPT !.type = e.kind, !.key = e.key, !.from = e].from = e
  BY DEF NoEvent
<1> QED
  BY <1>4, <1>5, <1>6, <1>7, <1>8, <1>9 DEF WindowProc, TranslateEvent

-----------------------------------------------------------------------------

LEMMA WindowInitHolds == WindowInit => WindowInv
<1> SUFFICES ASSUME WindowInit PROVE WindowInv
  OBVIOUS
<1> USE WindowAssumption DEF WindowInit
<1>1. WindowTypeOK
  <2>1. StartSize \in Sizes /\ 0 \in 0 .. Buffers - 1 /\ 0 \in 0 .. MaxTickEvents
    OBVIOUS
  <2>2. input_event \in [0 .. Buffers - 1 -> [1 .. MaxTickEvents -> PlatformEvent]]
    BY NoEventType
  <2>3. /\ polled \in Seq(PlatformEvent) /\ frames \in Seq(Seq(PlatformEvent))
        /\ pending \in Seq(SystemEvents)
    OBVIOUS
  <2>4. /\ platform \in {"x11", "win32", "macosx"}
        /\ at \in {"create", "initialize", "top", "poll"} \cup WindowEnded
        /\ disturbed \in BOOLEAN
    OBVIOUS
  <2>5. /\ made \in Nat /\ size \in Sizes /\ pixels \in Int
        /\ slot \in 0 .. Buffers - 1 /\ used \in 0 .. MaxTickEvents
    BY <2>1
  <2> QED
    BY <2>2, <2>3, <2>4, <2>5 DEF WindowTypeOK
<1>2. ClickInv
  BY DEF ClickInv
<1>3. TurnsHoldInput
  BY DEF TurnsHoldInput, FlattenSeq
<1> QED
  BY <1>1, <1>2, <1>3 DEF WindowInv

LEMMA CreateKeeps ==
  ASSUME WindowInv, Create
  PROVE  WindowInv'
<1> USE DEF WindowInv
<1>1. WindowTypeOK'
  <2>1. /\ at' \in {"create", "initialize", "abort"}
        /\ made' \in Nat
    BY DEF Create, CreateSucceeds, CreateFails, CreateGoesOn, WindowTypeOK
  <2>2. pixels' \in Int
    <3>1. pixels' \in {pixels, size}
      BY DEF Create, CreateSucceeds, CreateFails
    <3> QED
      BY <3>1, WindowAssumption DEF WindowTypeOK
  <2> QED
    BY <2>1, <2>2 DEF WindowTypeOK, Create, WindowEnded
<1>2. at = "create" /\ at' \in {"create", "initialize", "abort"}
  BY DEF Create, CreateSucceeds, CreateFails, CreateGoesOn
<1>3. ClickInv'
  BY <1>2 DEF ClickInv, Create
<1>4. TurnsHoldInput'
  BY <1>2 DEF TurnsHoldInput, Create
<1> QED
  BY <1>1, <1>3, <1>4

LEMMA InitializeDisplayKeeps ==
  ASSUME WindowInv, InitializeDisplay
  PROVE  WindowInv'
<1> USE DEF WindowInv
<1>1. WindowTypeOK'
  BY DEF WindowTypeOK, InitializeDisplay, WindowEnded
<1>2. ClickInv'
  <2> SUFFICES ASSUME ~disturbed, platform # "x11"
               PROVE  ClickInv'
    BY DEF ClickInv, InitializeDisplay
  <2>1. CASE at' = "top"
    <3>1. projection' = StartSize
      BY <2>1 DEF InitializeDisplay, GetWindowSize, ClickInv
    <3> QED
      BY <3>1 DEF InitializeDisplay, ClickInv
  <2>2. CASE at' = "exit1" /\ UNCHANGED projection
    BY <2>2 DEF InitializeDisplay, ClickInv
  <2> QED
    BY <2>1, <2>2 DEF InitializeDisplay
<1>3. TurnsHoldInput'
  BY DEF TurnsHoldInput, InitializeDisplay
<1> QED
  BY <1>1, <1>2, <1>3

LEMMA ArriveKeeps ==
  ASSUME WindowInv, NEW e \in SystemEvents, Arrive(e)
  PROVE  WindowInv'
<1> USE DEF WindowInv
<1>1. WindowTypeOK'
  BY DEF WindowTypeOK, Arrive
<1>2. ClickInv'
  BY DEF ClickInv, Arrive
<1>3. TurnsHoldInput'
  BY DEF TurnsHoldInput, Arrive
<1> QED
  BY <1>1, <1>2, <1>3

LEMMA ResizeKeeps ==
  ASSUME WindowInv, NEW s \in Sizes, Resize(s)
  PROVE  WindowInv'
<1> USE DEF WindowInv
<1>1. WindowTypeOK'
  BY DEF WindowTypeOK, Resize
<1>2. ClickInv'
  BY DEF ClickInv, Resize
<1>3. TurnsHoldInput'
  BY DEF TurnsHoldInput, Resize
<1> QED
  BY <1>1, <1>2, <1>3

LEMMA LeaveLoopKeeps ==
  ASSUME WindowInv, LeaveLoop
  PROVE  WindowInv'
<1> USE DEF WindowInv, looking
<1>1. at = "top" /\ at' = "closed" /\ platform = "win32"
  BY DEF LeaveLoop, ShouldClose
<1>2. WindowTypeOK'
  BY <1>1 DEF WindowTypeOK, LeaveLoop, WindowEnded
<1>3. ClickInv'
  BY <1>1 DEF ClickInv, LeaveLoop
<1>4. TurnsHoldInput'
  BY <1>1 DEF TurnsHoldInput, LeaveLoop
<1> QED
  BY <1>2, <1>3, <1>4

\* A turn that has no events yet.
LEMMA NoTurn == \A s : SubSeq(s, 1, 0) = <<>>
OBVIOUS

LEMMA ProcessInputKeeps ==
  ASSUME WindowInv, ProcessInput
  PROVE  WindowInv'
<1> USE DEF WindowInv, looking
<1>1. at = "top" /\ at' \in {"poll", "exit2"}
  BY DEF ProcessInput
<1>2. WindowTypeOK'
  <2>1. slot' \in 0 .. Buffers - 1 /\ used' \in 0 .. MaxTickEvents
    BY WindowAssumption DEF ProcessInput, WindowTypeOK
  <2> QED
    BY <1>1, <2>1 DEF WindowTypeOK, ProcessInput, WindowEnded
<1>3. ClickInv'
  BY <1>1 DEF ClickInv, ProcessInput
<1>4. TurnsHoldInput'
  <2>1. polled = FlattenSeq(frames) \o <<>>
    BY <1>1 DEF TurnsHoldInput
  <2>2. at' = "poll" => SubSeq(input_event'[slot'], 1, used') = <<>>
    BY NoTurn DEF ProcessInput
  <2>3. UNCHANGED <<polled, frames, platform>>
    BY DEF ProcessInput
  <2> QED
    BY <1>1, <2>1, <2>2, <2>3 DEF TurnsHoldInput
<1> QED
  BY <1>2, <1>3, <1>4

LEMMA FrameKeeps ==
  ASSUME WindowInv, Frame
  PROVE  WindowInv'
<1> USE DEF WindowInv, looking
<1> DEFINE turn == SubSeq(input_event[slot], 1, used)
<1>1. at = "poll" /\ at' = "top"
  BY DEF Frame
<1>2. /\ turn \in Seq(PlatformEvent)
      /\ used = 0 => turn = <<>>
  BY WindowAssumption DEF WindowTypeOK
<1>3. frames' = IF used = 0 THEN frames ELSE Append(frames, turn)
  BY DEF Frame
<1> HIDE DEF turn
<1>4. WindowTypeOK'
  <2>1. frames' \in Seq(Seq(PlatformEvent))
    BY <1>2, <1>3 DEF WindowTypeOK
  <2> QED
    BY <1>1, <2>1 DEF WindowTypeOK, Frame
<1>5. ClickInv'
  BY <1>1 DEF ClickInv, Frame
<1>6. TurnsHoldInput'
  <2>1. polled = FlattenSeq(frames) \o turn
    BY <1>1 DEF TurnsHoldInput, turn
  <2>2. \A t : FlattenSeq(t) = Procs!FlattenSeq(t)
    BY DEF FlattenSeq, Procs!FlattenSeq
  <2>3. frames \in Seq(Seq(PlatformEvent)) /\ polled \in Seq(PlatformEvent)
    BY DEF WindowTypeOK
  <2>4. \A q \in Seq(Seq(PlatformEvent)), x \in Seq(PlatformEvent) :
          Procs!FlattenSeq(Append(q, x)) = Procs!FlattenSeq(q) \o x
    BY Procs!FlattenAppend
  <2>5. \A q \in Seq(Seq(PlatformEvent)) : Procs!FlattenSeq(q) \in Seq(PlatformEvent)
    BY Procs!FlattenType
  <2>6. FlattenSeq(frames') = polled
    <3>1. CASE used = 0
      BY <1>2, <1>3, <2>1, <2>2, <2>3, <2>5, <3>1
    <3>2. CASE used # 0
      BY <1>2, <1>3, <2>1, <2>2, <2>3, <2>4, <3>2
    <3> QED
      BY <3>1, <3>2
  <2>7. polled \o <<>> = polled
    BY <2>3
  <2>8. polled' = polled
    BY DEF Frame
  <2> QED
    BY <1>1, <2>6, <2>7, <2>8 DEF TurnsHoldInput
<1> QED
  BY <1>4, <1>5, <1>6

\* A turn with one more event.
LEMMA LongerTurn ==
  ASSUME NEW S, NEW m \in Nat, NEW f \in [1 .. m -> S], NEW k \in Nat, k + 1 <= m,
         NEW x \in S
  PROVE  SubSeq([f EXCEPT ![k + 1] = x], 1, k + 1) = Append(SubSeq(f, 1, k), x)
<1> DEFINE g == [f EXCEPT ![k + 1] = x]
<1>1. g \in [1 .. m -> S] /\ g[k + 1] = x /\ \A i \in 1 .. k : g[i] = f[i]
  OBVIOUS
<1> HIDE DEF g
<1>2. f \in Seq(S) /\ g \in Seq(S) /\ Len(f) = m /\ Len(g) = m
  BY <1>1
<1>3. SubSeq(g, 1, k + 1) = Append(SubSeq(g, 1, k), g[k + 1])
  BY <1>2
<1>4. SubSeq(g, 1, k) = SubSeq(f, 1, k)
  BY <1>1, <1>2
<1> QED
  BY <1>1, <1>3, <1>4 DEF g

\* The first element alone.
LEMMA FirstOnly ==
  ASSUME NEW S, NEW q \in Seq(S), 1 \in 1 .. Len(q)
  PROVE  SubSeq(q, 1, 1) = <<q[1]>>
<1> DEFINE one == SubSeq(q, 1, 1)
<1>1. one \in Seq(S) /\ Len(one) = 1 /\ one[1] = q[1]
  OBVIOUS
<1>2. q[1] \in S
  OBVIOUS
<1>3. <<q[1]>> \in Seq(S) /\ Len(<<q[1]>>) = 1
  BY <1>2
<1> HIDE DEF one
<1>4. one = <<q[1]>>
  BY <1>1, <1>3
<1> QED
  BY <1>4 DEF one

LEMMA PollEventKeeps ==
  ASSUME WindowInv, PollEvent
  PROVE  WindowInv'
<1> USE DEF WindowInv, looking
<1> DEFINE taken(n) == SubSeq(pending, 1, n)
           closes(n) == \E i \in 1 .. n : taken(n)[i].kind = "close"
<1>1. PICK n \in Taken :
        /\ Keep(Translate(taken(n)))
        /\ pending' = SubSeq(pending, n + 1, Len(pending))
        /\ at' = IF platform = "macosx" /\ closes(n) THEN "closed" ELSE "poll"
        /\ disturbed' = (disturbed \/ taken(n)[1].kind = "drag")
  BY DEF PollEvent
<1> DEFINE events == taken(n)
           event == Translate(events)
<1>2. /\ at = "poll" /\ used < MaxTickEvents /\ pending # <<>>
      /\ at' \in {"poll", "closed"}
      /\ at' = "closed" => platform = "macosx"
      /\ UNCHANGED <<looking, slot, frames>>
  BY <1>1 DEF PollEvent
<1>3. /\ pending \in Seq(SystemEvents) /\ n \in 1 .. Len(pending)
      /\ used \in Nat /\ used + 1 \in 1 .. MaxTickEvents
      /\ slot \in 0 .. Buffers - 1
      /\ input_event \in [0 .. Buffers - 1 -> [1 .. MaxTickEvents -> PlatformEvent]]
  BY <1>2, WindowAssumption DEF Taken, WindowTypeOK
<1>4. events \in Seq(SystemEvents) /\ events # <<>> /\ Head(pending) = events[1]
      /\ pending' \in Seq(SystemEvents) /\ events[1] \in SystemEvents
  BY <1>1, <1>3
<1>5. event \in PlatformEvent
  <2> HIDE DEF events
  <2> QED BY <1>4, TranslateType
<1>6. ~disturbed' => events = <<events[1]>> /\ ~disturbed
  <2>1. ~disturbed' => n = 1 /\ ~disturbed
    BY <1>1, <1>4 DEF Taken
  <2>2. SubSeq(pending, 1, 1) = <<pending[1]>>
    BY <1>3, FirstOnly
  <2> QED
    BY <1>4, <2>1, <2>2
<1>7. /\ input_event' = IF IsInput(event)
                          THEN [input_event EXCEPT ![slot][used + 1] = event]
                          ELSE input_event
      /\ used' = IF IsInput(event) THEN used + 1 ELSE used
      /\ polled' = IF IsInput(event) THEN Append(polled, event) ELSE polled
  BY <1>1 DEF Keep, CountInput
<1>8. disturbed' \in BOOLEAN
  BY <1>1 DEF WindowTypeOK
<1> HIDE DEF events, event, taken, closes
<1>9. WindowTypeOK'
  <2>1. /\ input_event' \in [0 .. Buffers - 1 -> [1 .. MaxTickEvents -> PlatformEvent]]
        /\ used' \in 0 .. MaxTickEvents
    <3>1. CASE IsInput(event)
      BY <1>3, <1>5, <1>7, <3>1
    <3>2. CASE ~IsInput(event)
      BY <1>7, <3>2 DEF WindowTypeOK
    <3> QED
      BY <3>1, <3>2
  <2>2. polled' \in Seq(PlatformEvent)
    BY <1>5, <1>7 DEF WindowTypeOK
  <2> QED
    BY <1>2, <1>4, <1>8, <2>1, <2>2 DEF WindowTypeOK, WindowEnded
<1>10. ClickInv'
  <2> SUFFICES ASSUME ~disturbed', platform # "x11"
               PROVE  ClickInv'
    BY <1>2, <1>6 DEF ClickInv
  <2>1. /\ size = StartSize /\ projection = StartSize
        /\ \A i \in DOMAIN polled :
             polled[i].from \in SystemEvents
               /\ (IsMouse(polled[i].from) => polled[i].y = StartSize - polled[i].from.top)
    BY <1>2, <1>6 DEF ClickInv
  <2>2. IsInput(event) =>
          /\ event.from \in SystemEvents
          /\ IsMouse(event.from) => event.y = StartSize - event.from.top
    BY <1>4, <1>6, <2>1, ClickKeepsPlace DEF event
  <2>3. polled \in Seq(PlatformEvent)
    BY DEF WindowTypeOK
  <2>4. \A i \in DOMAIN polled' :
          polled'[i].from \in SystemEvents
            /\ (IsMouse(polled'[i].from) => polled'[i].y = StartSize - polled'[i].from.top)
    BY <1>5, <1>7, <2>1, <2>2, <2>3
  <2> QED
    BY <1>2, <2>1, <2>4 DEF ClickInv
<1>11. TurnsHoldInput'
  <2>1. polled = FlattenSeq(frames) \o SubSeq(input_event[slot], 1, used)
    BY <1>2 DEF TurnsHoldInput
  <2>2. polled' = FlattenSeq(frames) \o SubSeq(input_event'[slot], 1, used')
    <3>1. CASE ~IsInput(event)
      BY <1>7, <2>1, <3>1
    <3>2. CASE IsInput(event)
      <4>1. input_event'[slot] = [input_event[slot] EXCEPT ![used + 1] = event]
        BY <1>3, <1>7, <3>2
      <4>2. input_event[slot] \in [1 .. MaxTickEvents -> PlatformEvent]
              /\ used + 1 <= MaxTickEvents /\ MaxTickEvents \in Nat
        BY <1>3, WindowAssumption
      <4> DEFINE turn == SubSeq(input_event[slot], 1, used)
      <4>3. SubSeq(input_event'[slot], 1, used') = Append(turn, event)
        BY <1>3, <1>5, <1>7, <3>2, <4>1, <4>2, LongerTurn
      <4>4. turn \in Seq(PlatformEvent)
        BY <1>3, <4>2
      <4>5. FlattenSeq(frames) \in Seq(PlatformEvent)
        <5>1. FlattenSeq(frames) = Procs!FlattenSeq(frames)
          BY DEF FlattenSeq, Procs!FlattenSeq
        <5>2. frames \in Seq(Seq(PlatformEvent))
          BY DEF WindowTypeOK
        <5> QED
          BY <5>1, <5>2, Procs!FlattenType
      <4>6. \A a, b \in Seq(PlatformEvent) : Append(a \o b, event) = a \o Append(b, event)
        BY <1>5
      <4> HIDE DEF turn
      <4>7. polled' = Append(FlattenSeq(frames) \o turn, event)
        BY <1>7, <2>1, <3>2 DEF turn
      <4> QED
        BY <4>3, <4>4, <4>5, <4>6, <4>7
    <3> QED
      BY <3>1, <3>2
  <2> QED
    BY <1>2, <2>2 DEF TurnsHoldInput
<1> QED
  BY <1>9, <1>10, <1>11

LEMMA WindowStutters ==
  ASSUME WindowInv, UNCHANGED window
  PROVE  WindowInv'
BY DEF WindowInv, WindowTypeOK, ClickInv,
       TurnsHoldInput, window

LEMMA WindowInvHolds == WindowSpec => []WindowInv
<1>1. WindowInit => WindowInv
  BY WindowInitHolds
<1>2. WindowInv /\ [WindowNext]_window => WindowInv'
  BY CreateKeeps, InitializeDisplayKeeps, ArriveKeeps, ResizeKeeps,
     LeaveLoopKeeps, ProcessInputKeeps, FrameKeeps, PollEventKeeps, WindowStutters
  DEF WindowNext, GameLoop, WindowSystem
<1> QED
  BY <1>1, <1>2, PTL DEF WindowSpec

\* However many events come, of whatever kind, and for every limit of a turn and
\* every number of buffers, the turns are the input.
THEOREM TurnsAlwaysHoldInput == WindowSpec => []TurnsHoldInput
<1>1. WindowInv => TurnsHoldInput
  BY DEF WindowInv
<1> QED
  BY <1>1, WindowInvHolds, PTL

\* For windows of every height and clicks at every place.
THEOREM ClicksMeanWhatIsDrawn == WindowSpec => []ClickMeansWhatIsDrawn
<1>1. ASSUME WindowInv, ~disturbed, platform # "x11", NEW i \in DOMAIN polled,
             IsMouse(polled[i].from)
      PROVE  Viewport * CoordToScreen(polled[i]) = DrawnAt(polled[i])
  <2>1. /\ size = StartSize /\ projection = StartSize
        /\ polled[i].from \in SystemEvents
        /\ polled[i].y = StartSize - polled[i].from.top
    BY <1>1 DEF WindowInv, ClickInv
  <2>2. polled[i].from.top \in Int /\ StartSize \in Int
    BY <2>1, WindowAssumption
  <2>3. CoordToScreen(polled[i]) = 2 * (StartSize - polled[i].from.top) - StartSize
    BY <1>1, <2>1 DEF CoordToScreen, GetWindowSize
  <2>4. DrawnAt(polled[i])
          = StartSize * (2 * (StartSize - polled[i].from.top) - StartSize)
    BY <1>1, <2>1 DEF DrawnAt, Viewport
  <2>5. Viewport = StartSize
    BY <1>1 DEF Viewport
  <2> QED
    BY <2>3, <2>4, <2>5
<1>2. WindowInv => ClickMeansWhatIsDrawn
  BY <1>1 DEF ClickMeansWhatIsDrawn
<1> QED
  BY <1>2, WindowInvHolds, PTL

-----------------------------------------------------------------------------
(* Division with remainder. *)

LEMMA Remainder ==
  ASSUME NEW d \in Nat \ {0}, NEW a \in Int
  PROVE  /\ a \div d \in Int
         /\ a % d \in 0 .. d - 1
         /\ a = d * (a \div d) + (a % d)
OBVIOUS

\* A remainder is determined by the equation it satisfies.
LEMMA RemainderOf ==
  ASSUME NEW d \in Nat \ {0}, NEW a \in Int, NEW q \in Int, NEW r \in 0 .. d - 1,
         a = d * q + r
  PROVE  a % d = r
<1> DEFINE p == a \div d
           s == a % d
<1>1. p \in Int /\ s \in 0 .. d - 1 /\ a = d * p + s
  BY Remainder
<1> HIDE DEF p, s
<1>2. d * (q - p) = s - r
  BY <1>1
<1>3. q - p < 1
  <2>1. SUFFICES ASSUME q - p >= 1 PROVE FALSE
    BY <1>1
  <2>2. d * (q - p) >= d
    BY <1>1, <2>1
  <2> QED
    BY <1>1, <1>2, <2>2
<1>4. q - p > -1
  <2>1. SUFFICES ASSUME q - p <= -1 PROVE FALSE
    BY <1>1
  <2>2. d * (p - q) >= d
    BY <1>1, <2>1
  <2>3. d * (p - q) = r - s
    BY <1>1, <1>2
  <2> QED
    BY <1>1, <2>2, <2>3
<1>5. q - p = 0
  BY <1>1, <1>3, <1>4
<1>6. s = r
  BY <1>1, <1>2, <1>5
<1> QED
  BY <1>6 DEF s

\* What is less than the divisor is its own remainder.
LEMMA RemainderSmall ==
  ASSUME NEW d \in Nat \ {0}, NEW a \in 0 .. d - 1
  PROVE  a % d = a
<1>1. a = d * 0 + a
  OBVIOUS
<1> QED
  BY <1>1, RemainderOf

LEMMA RemainderLess ==
  ASSUME NEW d \in Nat \ {0}, NEW a \in Nat
  PROVE  a % d \in 0 .. a
<1>1. a % d \in 0 .. d - 1
  BY Remainder
<1>2. CASE a < d
  BY <1>2, RemainderSmall
<1>3. CASE a >= d
  BY <1>1, <1>3
<1> QED
  BY <1>2, <1>3

\* A remainder taken on the way changes nothing.
LEMMA RemainderPlus ==
  ASSUME NEW d \in Nat \ {0}, NEW a \in Int, NEW b \in Int
  PROVE  ((a % d) + b) % d = (a + b) % d
<1> DEFINE r == a % d
           q == a \div d
           p == (r + b) \div d
           s == (r + b) % d
<1>1. q \in Int /\ r \in 0 .. d - 1 /\ a = d * q + r
  BY Remainder
<1> HIDE DEF r, q
<1>2. p \in Int /\ s \in 0 .. d - 1 /\ r + b = d * p + s
  BY <1>1, Remainder
<1> HIDE DEF p, s
<1>3. a + b = d * (q + p) + s /\ q + p \in Int /\ a + b \in Int
  BY <1>1, <1>2
<1>4. (a + b) % d = s
  BY <1>2, <1>3, RemainderOf
<1> QED
  BY <1>4 DEF s, r

LEMMA RemainderMinus ==
  ASSUME NEW d \in Nat \ {0}, NEW a \in Int, NEW b \in Int
  PROVE  (b - (a % d)) % d = (b - a) % d
<1> DEFINE r == a % d
           q == a \div d
           p == (b - r) \div d
           s == (b - r) % d
<1>1. q \in Int /\ r \in 0 .. d - 1 /\ a = d * q + r
  BY Remainder
<1> HIDE DEF r, q
<1>2. p \in Int /\ s \in 0 .. d - 1 /\ b - r = d * p + s
  BY <1>1, Remainder
<1> HIDE DEF p, s
<1>3. b - a = d * (p - q) + s /\ p - q \in Int /\ b - a \in Int
  BY <1>1, <1>2
<1>4. (b - a) % d = s
  BY <1>2, <1>3, RemainderOf
<1> QED
  BY <1>4 DEF s, r

LEMMA NoDifference ==
  ASSUME NEW a \in Int, NEW b, b = a
  PROVE  a - b = 0
OBVIOUS

LEMMA TimesMonotone ==
  ASSUME NEW a \in Nat, NEW b \in Nat, NEW c \in Nat, a <= b
  PROVE  a * c <= b * c
OBVIOUS

LEMMA TimesCancel ==
  ASSUME NEW a \in Nat, NEW b \in Nat, NEW c \in Nat \ {0}, a * c <= b * c
  PROVE  a <= b
<1>1. SUFFICES ASSUME a >= b + 1 PROVE FALSE
  OBVIOUS
<1>2. a * c >= (b + 1) * c
  BY <1>1, TimesMonotone
<1>3. (b + 1) * c = b * c + c
  OBVIOUS
<1> QED
  BY <1>2, <1>3

LEMMA DividedTimes ==
  ASSUME NEW a \in Nat, NEW d \in Nat \ {0}
  PROVE  a \div d \in Nat /\ (a \div d) * d <= a
<1>1. a \div d \in Int /\ a % d \in 0 .. d - 1 /\ a = d * (a \div d) + (a % d)
  BY Remainder
<1>2. a \div d \in Nat
  OBVIOUS
<1> QED
  BY <1>1, <1>2

-----------------------------------------------------------------------------
(* The clock. *)

ClockTypeOK ==
  /\ median_tsc_per_usec \in Nat \ {0}
  /\ {tsc, tsc_clock, frame_to_frame_tsc} \subseteq 0 .. Wrap - 1
  /\ jerk \in Nat
  /\ sleep_usec \in Nat
  /\ synced \in BOOLEAN
  /\ elapsed \in Nat
  /\ steps \in Nat

\* One reading of the counter is so many cycles behind another, as far as the
\* counter shows.
Behind(lag, now, from) == lag % Wrap = (now - from) % Wrap

\* The clock is behind the processor, by as many cycles as the counters show, but
\* for those that have wrapped.
LagInv ==
  \E lag \in Nat :
    /\ Behind(lag, tsc, tsc_clock)
    /\ steps * tsc_step + lag <= elapsed
    /\ jerk = 0 => steps * tsc_step + lag = elapsed

\* So is the frame.
SinceInv ==
  \E since \in 0 .. elapsed : Behind(since, tsc, frame_to_frame_tsc)

\* The median loses less than one cycle, and the error of the float, of the rate.
MedianCounts ==
  Rate * (Precision - 1) <= (median_tsc_per_usec + 1) * (Msec * Precision)

SleepInv ==
  /\ ~synced => sleep_usec * median_tsc_per_usec <= (tsc_clock + tsc_step - tsc) % Wrap
  /\ MostSamplesCount => MedianCounts

ClockInv == ClockTypeOK /\ LagInv /\ SinceInv /\ SleepInv

\* The unit of the clock is at least a cycle.
LEMMA StepType == ASSUME ClockTypeOK PROVE tsc_step \in Nat \ {0}
BY ClockAssumption DEF ClockTypeOK, tsc_step

\* Whoever sleeps the microseconds that make up some cycles sleeps no longer.
LEMMA UsecNoLonger ==
  ASSUME ClockTypeOK, NEW delta \in Nat
  PROVE  /\ tscdelta_to_usec(delta) \in Nat
         /\ tscdelta_to_usec(delta) * median_tsc_per_usec <= delta
<1> DEFINE m == median_usec_per_tsc
           u == tscdelta_to_usec(delta)
           w == (delta * m) % Wrap
<1>1. /\ Shift \in Nat \ {0} /\ median_tsc_per_usec \in Nat \ {0}
      /\ Wrap \in Nat \ {0}
  BY ClockAssumption DEF ClockTypeOK
<1>2. m \in Nat /\ m * median_tsc_per_usec <= Shift
  BY <1>1, DividedTimes DEF median_usec_per_tsc
<1> HIDE DEF m
<1>3. delta * m \in Nat
  BY <1>2
<1>4. w \in Nat /\ w <= delta * m
  BY <1>1, <1>3, RemainderLess
<1>5. u = w \div Shift
  BY DEF tscdelta_to_usec, m
<1> HIDE DEF w, u
<1>6. u \in Nat /\ u * Shift <= w
  BY <1>1, <1>4, <1>5, DividedTimes
<1>7. u * Shift <= delta * m
  BY <1>1, <1>3, <1>4, <1>6
<1>8. (u * Shift) * median_tsc_per_usec <= (delta * m) * median_tsc_per_usec
  BY <1>1, <1>3, <1>6, <1>7, TimesMonotone, u * Shift \in Nat
<1>9. (m * median_tsc_per_usec) * delta <= Shift * delta
  BY <1>1, <1>2, TimesMonotone, m * median_tsc_per_usec \in Nat
<1>10. (delta * m) * median_tsc_per_usec = (m * median_tsc_per_usec) * delta
  BY <1>1, <1>2
<1>11. (u * Shift) * median_tsc_per_usec = (u * median_tsc_per_usec) * Shift
  BY <1>1, <1>6
<1>12. u * median_tsc_per_usec \in Nat /\ Shift * delta = delta * Shift
  BY <1>1, <1>6
<1>13. (u * median_tsc_per_usec) * Shift <= delta * Shift
  <2> DEFINE a == (u * Shift) * median_tsc_per_usec
             b == (delta * m) * median_tsc_per_usec
             c == delta * Shift
  <2>1. a \in Nat /\ b \in Nat /\ c \in Nat
    BY <1>1, <1>2, <1>6
  <2>2. a <= b /\ b <= c
    BY <1>8, <1>9, <1>10, <1>12
  <2>3. a = (u * median_tsc_per_usec) * Shift
    BY <1>11
  <2> HIDE DEF a, b, c
  <2>4. a <= c
    BY <2>1, <2>2
  <2> QED
    BY <2>3, <2>4 DEF c
<1>14. u * median_tsc_per_usec <= delta
  BY <1>1, <1>12, <1>13, TimesCancel
<1> QED
  BY <1>6, <1>14 DEF u

-----------------------------------------------------------------------------
(* A step of the clock. *)

LEMMA BehindLater ==
  ASSUME NEW lag \in Nat, NEW now \in Int, NEW from \in Int, NEW d \in Nat,
         NEW then, then = (now + d) % Wrap, Behind(lag, now, from)
  PROVE  Behind(lag + d, then, from)
<1>1. Wrap \in Nat \ {0}
  BY ClockAssumption
<1>2. ((lag % Wrap) + d) % Wrap = (lag + d) % Wrap
  BY <1>1, RemainderPlus, lag \in Int, d \in Int
<1>3. (((now - from) % Wrap) + d) % Wrap = ((now - from) + d) % Wrap
  BY <1>1, RemainderPlus, now - from \in Int, d \in Int
<1>4. (((now + d) % Wrap) + (-from)) % Wrap = ((now + d) + (-from)) % Wrap
  BY <1>1, RemainderPlus, now + d \in Int, -from \in Int
<1>5. then \in Int
  BY <1>1, Remainder, now + d \in Int
<1>6. then + (-from) = then - from /\ (now - from) + d = (now + d) + (-from)
  BY <1>5
<1> QED
  BY <1>2, <1>3, <1>4, <1>6 DEF Behind

\* The clock advances only when a whole step has gone by.
LEMMA AdvancesLate ==
  ASSUME NEW lag \in Nat \ {0}, NEW step \in Nat, ~((step - lag) % Wrap < step)
  PROVE  lag >= step
<1>1. SUFFICES ASSUME lag < step PROVE FALSE
  OBVIOUS
<1>2. (step - lag) % Wrap \in 0 .. step - lag
  BY <1>1, RemainderLess, ClockAssumption, step - lag \in Nat
<1> QED
  BY <1>1, <1>2

\* The next step of a clock that is behind: how far ahead it is, and how far the
\* clock is behind once it has made it.
LEMMA BehindNext ==
  ASSUME ClockTypeOK, NEW lag \in Nat \ {0}, NEW now \in Int, NEW from \in Int,
         NEW next, next = (from + tsc_step) % Wrap, Behind(lag, now, from)
  PROVE  /\ ~Early(now, next) => tsc_step <= lag
         /\ tsc_step <= lag => Behind(lag - tsc_step, now, next)
<1> DEFINE step == tsc_step
<1>0. step \in Nat
  BY StepType
<1> HIDE DEF step
<1> DEFINE k == (now - from) % Wrap
<1>1. Wrap \in Nat \ {0}
  BY ClockAssumption
<1>2. next \in Int /\ k \in Int
  BY <1>0, <1>1, Remainder, from + step \in Int, now - from \in Int DEF step
<1>3. (next + (-now)) % Wrap = ((from + step) + (-now)) % Wrap
  BY <1>0, <1>1, RemainderPlus, from + step \in Int, -now \in Int DEF step
<1>4. (now - next) % Wrap = (now - (from + step)) % Wrap
  BY <1>0, <1>1, RemainderMinus, from + step \in Int, now \in Int DEF step
<1>5. (step - k) % Wrap = (step - (now - from)) % Wrap
  BY <1>0, <1>1, RemainderMinus, now - from \in Int, step \in Int
<1>6. (step - (lag % Wrap)) % Wrap = (step - lag) % Wrap
  BY <1>0, <1>1, RemainderMinus, lag \in Int, step \in Int
<1>7. (k + (-step)) % Wrap = ((now - from) + (-step)) % Wrap
  BY <1>0, <1>1, RemainderPlus, now - from \in Int, -step \in Int
<1>8. ((lag % Wrap) + (-step)) % Wrap = (lag + (-step)) % Wrap
  BY <1>0, <1>1, RemainderPlus, lag \in Int, -step \in Int
<1>9. lag % Wrap = k
  BY DEF Behind
<1> HIDE DEF k
<1>10. /\ (from + step) + (-now) = step - (now - from)
       /\ next + (-now) = next - now
       /\ now - (from + step) = (now - from) + (-step)
       /\ lag + (-step) = lag - step
  BY <1>0, <1>2
<1>11. (next - now) % Wrap = (step - lag) % Wrap
  BY <1>3, <1>5, <1>6, <1>9, <1>10
<1>12. (lag - step) % Wrap = (now - next) % Wrap
  BY <1>4, <1>7, <1>8, <1>9, <1>10
<1>13. ~Early(now, next) => step <= lag
  BY <1>0, <1>11, AdvancesLate DEF Early, step
<1> QED
  BY <1>12, <1>13 DEF Behind, step

\* How far ahead the next step is, with or without the wrap.
LEMMA NextIsAhead ==
  ASSUME NEW now \in Int, NEW from \in Int, NEW step \in Int,
         NEW next, next = (from + step) % Wrap
  PROVE  (next - now) % Wrap = (from + step - now) % Wrap
<1>1. Wrap \in Nat \ {0}
  BY ClockAssumption
<1>2. next \in Int
  BY <1>1, Remainder, from + step \in Int
<1>3. (next + (-now)) % Wrap = ((from + step) + (-now)) % Wrap
  BY <1>1, RemainderPlus, from + step \in Int, -now \in Int
<1>4. (from + step) + (-now) = from + step - now /\ next + (-now) = next - now
  BY <1>2
<1> QED
  BY <1>3, <1>4

LEMMA BehindNothing ==
  ASSUME NEW now \in Int, NEW from, from = now
  PROVE  Behind(0, now, from)
BY NoDifference DEF Behind

LEMMA ClockStepTyped ==
  ASSUME ClockTypeOK, NEW d \in 1 .. MaxDelta, clock_sync(d)
  PROVE  /\ ClockTypeOK'
         /\ tsc_step' = tsc_step
<1> DEFINE next == (tsc_clock + tsc_step) % Wrap
<1>1. Wrap \in Nat \ {0} /\ d \in Nat /\ tsc_step \in Nat \ {0}
  BY ClockAssumption, StepType
<1>2. /\ tsc' \in 0 .. Wrap - 1 /\ elapsed' \in Nat
      /\ next \in 0 .. Wrap - 1
  <2>1. tsc + d \in Int /\ tsc_clock + tsc_step \in Int /\ elapsed + d \in Nat
    BY <1>1 DEF ClockTypeOK
  <2> QED
    BY <1>1, <2>1, Remainder DEF clock_sync, Read
<1>3. median_tsc_per_usec' = median_tsc_per_usec
  BY DEF clock_sync
<1> HIDE DEF next
<1>4. CASE Early(tsc', next)
  <2>1. (next - tsc') % Wrap \in Nat
    <3> next - tsc' \in Int
      BY <1>2
    <3> QED
      BY <1>1, Remainder
  <2>2. sleep_usec' \in Nat /\ synced' = FALSE
        /\ UNCHANGED <<tsc_clock, jerk, frame_to_frame_tsc, steps>>
    BY <1>4, <2>1, UsecNoLonger DEF clock_sync, next
  <2> QED
    BY <1>2, <1>3, <2>2 DEF ClockTypeOK, tsc_step
<1>5. CASE ~Early(tsc', next)
  <2>1. /\ tsc_clock' \in {next, tsc'} /\ jerk' \in {jerk, jerk + 1}
        /\ frame_to_frame_tsc' = tsc' /\ synced' = TRUE /\ steps' = steps + 1
        /\ UNCHANGED sleep_usec
    BY <1>5 DEF clock_sync, next, Advance
  <2>2. jerk' \in Nat /\ steps' \in Nat
    BY <2>1 DEF ClockTypeOK
  <2> QED
    BY <1>2, <1>3, <2>1, <2>2 DEF ClockTypeOK, tsc_step
<1> QED
  BY <1>4, <1>5

LEMMA ClockStep ==
  ASSUME ClockInv, NEW d \in 1 .. MaxDelta, clock_sync(d)
  PROVE  ClockInv'
<1> DEFINE next == (tsc_clock + tsc_step) % Wrap
<1> USE DEF ClockInv
<1>1. ClockTypeOK' /\ tsc_step' = tsc_step
  BY ClockStepTyped
<1>2. /\ Wrap \in Nat \ {0} /\ d \in Nat /\ tsc_step \in Nat \ {0}
      /\ tsc \in Int /\ tsc_clock \in Int /\ frame_to_frame_tsc \in Int
      /\ tsc' \in Int /\ steps \in Nat /\ elapsed \in Nat /\ jerk \in Nat
  BY <1>1, ClockAssumption, StepType DEF ClockTypeOK
<1>3. tsc' = (tsc + d) % Wrap /\ elapsed' = elapsed + d
  BY DEF clock_sync, Read
<1>4. PICK lag \in Nat : /\ Behind(lag, tsc, tsc_clock)
                         /\ steps * tsc_step + lag <= elapsed
                         /\ jerk = 0 => steps * tsc_step + lag = elapsed
  BY DEF LagInv
<1> DEFINE lagged == lag + d
<1>5. Behind(lagged, tsc', tsc_clock)
  BY <1>2, <1>3, <1>4, BehindLater
<1>6. lagged \in Nat \ {0}
  BY <1>2
<1>7. steps * tsc_step \in Nat
  BY <1>2
<1>8. /\ steps * tsc_step + lagged <= elapsed'
      /\ jerk = 0 => steps * tsc_step + lagged = elapsed'
  BY <1>2, <1>3, <1>4, <1>7
<1> HIDE DEF lagged
<1>8n. next = (tsc_clock + tsc_step) % Wrap
  OBVIOUS
<1> HIDE DEF next
<1>9. /\ ~Early(tsc', next) => tsc_step <= lagged
      /\ tsc_step <= lagged => Behind(lagged - tsc_step, tsc', next)
  <2> DEFINE now == tsc'
  <2>1. now \in Int /\ tsc_clock \in Int /\ Behind(lagged, now, tsc_clock)
    BY <1>2, <1>5
  <2> HIDE DEF now
  <2>2. ~Early(now, next) => tsc_step <= lagged
    BY <1>6, <1>8n, <2>1, BehindNext
  <2>3. tsc_step <= lagged => Behind(lagged - tsc_step, now, next)
    BY <1>6, <1>8n, <2>1, BehindNext
  <2> QED
    BY <2>2, <2>3 DEF now
<1>10. next \in Int
  BY <1>2, <1>8n, Remainder, tsc_clock + tsc_step \in Int
<1>11. PICK since \in 0 .. elapsed : Behind(since, tsc, frame_to_frame_tsc)
  BY DEF SinceInv
<1>12. Behind(since + d, tsc', frame_to_frame_tsc) /\ since + d \in 0 .. elapsed'
  BY <1>2, <1>3, <1>11, BehindLater
<1>13. samples' = samples /\ median_tsc_per_usec' = median_tsc_per_usec
  BY DEF clock_sync
<1>14. CASE Early(tsc', next)
  <2>1. /\ sleep_usec' = tscdelta_to_usec((next - tsc') % Wrap)
        /\ synced' = FALSE
        /\ UNCHANGED <<tsc_clock, jerk, frame_to_frame_tsc, steps>>
    BY <1>14 DEF clock_sync, next
  <2>2. LagInv'
    BY <1>1, <1>5, <1>6, <1>8, <2>1 DEF LagInv
  <2>3. SinceInv'
    BY <1>12, <2>1 DEF SinceInv
  <2>4. (next - tsc') % Wrap \in Nat
    <3> next - tsc' \in Int
      BY <1>2, <1>10
    <3> QED
      BY <1>2, Remainder
  <2>5. sleep_usec' * median_tsc_per_usec <= (next - tsc') % Wrap
    BY <2>1, <2>4, UsecNoLonger
  <2>6. SleepInv'
    <3>1. (next - tsc') % Wrap = (tsc_clock + tsc_step - tsc') % Wrap
      BY <1>2, <1>8n, NextIsAhead
    <3>2. sleep_usec' * median_tsc_per_usec' <= (tsc_clock' + tsc_step' - tsc') % Wrap
      BY <1>1, <1>13, <2>1, <2>5, <3>1
    <3> QED
      BY <1>13, <3>2 DEF SleepInv, MostSamplesCount, MedianCounts
  <2> QED
    BY <1>1, <2>2, <2>3, <2>6
<1>15. CASE ~Early(tsc', next)
  <2>1. /\ frame_to_frame_tsc' = tsc' /\ synced' = TRUE /\ steps' = steps + 1
        /\ tsc_clock' = Advance(tsc', next)
        /\ jerk' = IF SlightlyOver(tsc', next) THEN jerk ELSE jerk + 1
    BY <1>15 DEF clock_sync, next
  <2>2. lagged >= tsc_step
    BY <1>2, <1>6, <1>9, <1>15
  <2>3. steps' * tsc_step = steps * tsc_step + tsc_step
    BY <1>2, <2>1
  <2>4. LagInv'
    <3>1. CASE SlightlyOver(tsc', next)
      <4>1. tsc_clock' = next /\ jerk' = jerk
        BY <2>1, <3>1 DEF Advance
      <4> DEFINE left == lagged - tsc_step
      <4>2. left \in Nat /\ Behind(left, tsc', tsc_clock')
        BY <1>2, <1>6, <1>9, <2>2, <4>1
      <4>3. steps' * tsc_step + left = steps * tsc_step + lagged
        BY <1>2, <1>6, <1>7, <2>3
      <4> HIDE DEF left
      <4>4. /\ steps' * tsc_step' + left <= elapsed'
            /\ jerk' = 0 => steps' * tsc_step' + left = elapsed'
        BY <1>1, <1>8, <4>1, <4>3
      <4> QED
        BY <4>2, <4>4 DEF LagInv
    <3>2. CASE ~SlightlyOver(tsc', next)
      <4>1. tsc_clock' = tsc' /\ jerk' = jerk + 1
        BY <2>1, <3>2 DEF Advance
      <4>2. jerk' # 0
        BY <1>2, <4>1
      <4>4. Behind(0, tsc', tsc_clock')
        BY <1>2, <4>1, BehindNothing
      <4>3. steps' * tsc_step' + 0 <= elapsed'
        BY <1>1, <1>2, <1>3, <1>6, <1>7, <1>8, <2>2, <2>3
      <4> QED
        BY <4>2, <4>3, <4>4, 0 \in Nat DEF LagInv
    <3> QED
      BY <3>1, <3>2
  <2>5. SinceInv'
    <3>1. Behind(0, tsc', frame_to_frame_tsc') /\ 0 \in 0 .. elapsed'
      BY <1>2, <1>3, <2>1, BehindNothing
    <3> QED
      BY <3>1 DEF SinceInv
  <2>6. SleepInv'
    BY <1>13, <2>1 DEF SleepInv, MostSamplesCount, MedianCounts
  <2> QED
    BY <1>1, <2>4, <2>5, <2>6
<1> QED
  BY <1>14, <1>15

-----------------------------------------------------------------------------
(* The median. *)

LEMMA DividedBelow ==
  ASSUME NEW a \in Nat, NEW d \in Nat \ {0}
  PROVE  a \div d \in Nat /\ a <= ((a \div d) + 1) * d
<1> DEFINE q == a \div d
           r == a % d
<1>1. q \in Nat /\ r \in 0 .. d - 1 /\ a = d * q + r
  <2>1. a \in Int
    OBVIOUS
  <2>2. r \in 0 .. d - 1 /\ a = d * q + r
    BY <2>1, Remainder
  <2>3. q \in Nat
    BY DividedTimes
  <2> QED
    BY <2>2, <2>3
<1> HIDE DEF q, r
<1>2. (q + 1) * d = d * q + d
  BY <1>1
<1>3. d * q \in Nat
  BY <1>1
<1>4. a <= (q + 1) * d
  <2> DEFINE k == d * q
  <2>1. a = k + r /\ (q + 1) * d = k + d /\ k \in Nat
    BY <1>1, <1>2, <1>3
  <2> HIDE DEF k
  <2> QED
    BY <1>1, <2>1
<1> QED
  BY <1>1, <1>4 DEF q

\* Longer at least as many times.
LEMMA ProductMonotone ==
  ASSUME NEW a \in Nat, NEW b \in Nat, NEW c \in Nat, NEW d \in Nat,
         a <= b, c <= d
  PROVE  a * c <= b * d
<1>1. a * c <= b * c
  BY TimesMonotone
<1>2. c * b <= d * b
  BY TimesMonotone
<1>3. c * b = b * c /\ d * b = b * d /\ a * c \in Nat /\ b * c \in Nat /\ b * d \in Nat
  OBVIOUS
<1> QED
  BY <1>1, <1>2, <1>3

\* What a sample makes of the rate is a cycle at least; and if it has counted
\* enough cycles it loses less than a cycle, and the error of the float.
LEMMA SampleType ==
  ASSUME NEW s \in Samples, NEW v \in TscPerUsec(s)
  PROVE  /\ v \in Nat \ {0}
         /\ ~(s.cycles * Msec < Rate * s.usec)
              => Rate * (Precision - 1) <= (v + 1) * (Msec * Precision)
<1> DEFINE c == s.cycles
           n == s.usec
           p == Precision - 1
           unit == (Msec * Msec) * Precision
           low == ((c * n) * p) \div unit
<1>1. /\ Msec \in Nat \ {0} /\ Rate \in Nat \ {0} /\ Precision \in Nat \ {0, 1}
      /\ c \in Nat /\ n \in Nat /\ n >= Msec /\ c >= 2 * Msec
  BY ClockAssumption
<1>2. p \in Nat \ {0} /\ Precision = p + 1 /\ Precision <= 2 * p
  BY <1>1
<1>3. v \in Int /\ v >= low
  <2>1. TscPerUsec(s) = low .. ((c * n) * (Precision + 1)) \div unit
    BY DEF TscPerUsec
  <2>2. unit \in Nat \ {0}
    <3>1. Msec * Msec \in Nat \ {0}
      BY <1>1
    <3> QED
      BY <1>1, <3>1
  <2>3. (c * n) * p \in Nat /\ (c * n) * (Precision + 1) \in Nat
    <3>1. c * n \in Nat
      BY <1>1
    <3> QED
      BY <1>1, <1>2, <3>1
  <2>4. low \in Nat /\ ((c * n) * (Precision + 1)) \div unit \in Nat
    BY <2>2, <2>3, DividedTimes
  <2> HIDE DEF low, unit, c, n, p
  <2> QED
    BY <2>1, <2>4
<1> HIDE DEF c, n, p
<1>4. Msec * Msec \in Nat \ {0} /\ c * n \in Nat
  BY <1>1
<1>5. unit \in Nat \ {0} /\ (c * n) * p \in Nat
  BY <1>1, <1>2, <1>4
<1>6. low \in Nat /\ (c * n) * p <= (low + 1) * unit
  <2> HIDE DEF unit
  <2> QED
    BY <1>5, DividedBelow
<1>7. low # 0
  <2>1. (2 * Msec) * Msec <= c * n
    BY <1>1, ProductMonotone, 2 * Msec \in Nat
  <2>2. ((2 * Msec) * Msec) * p <= (c * n) * p
    <3>1. (2 * Msec) * Msec \in Nat
      BY <1>1
    <3> QED
      BY <1>2, <1>4, <2>1, <3>1, TimesMonotone
  <2>3. Precision * (Msec * Msec) <= (2 * p) * (Msec * Msec)
    BY <1>1, <1>2, <1>4, TimesMonotone, 2 * p \in Nat
  <2>4. /\ Precision * (Msec * Msec) = unit
        /\ (2 * p) * (Msec * Msec) = ((2 * Msec) * Msec) * p
    BY <1>1, <1>2
  <2>5. unit <= (c * n) * p
    <3> DEFINE a == ((2 * Msec) * Msec) * p
    <3>1. a \in Nat
      BY <1>1, <1>2, <1>4
    <3>2. unit <= a /\ a <= (c * n) * p
      BY <2>2, <2>3, <2>4
    <3> HIDE DEF a, unit
    <3> QED
      BY <1>5, <3>1, <3>2
  <2> DEFINE a == (c * n) * p
  <2>6. a % unit \in 0 .. unit - 1 /\ a = unit * low + (a % unit)
    <3>1. a \in Int /\ low = a \div unit
      BY <1>5
    <3> HIDE DEF a, unit, low
    <3> QED
      BY <1>5, <3>1, Remainder
  <2>7. a \in Nat /\ unit <= a
    BY <1>5, <2>5
  <2> HIDE DEF a, unit, low
  <2> QED
    BY <1>5, <1>6, <2>6, <2>7
<1>8. ASSUME ~(c * Msec < Rate * n)
      PROVE  Rate * p <= (low + 1) * (Msec * Precision)
  <2>1. Rate * Msec <= Rate * n
    BY <1>1, ProductMonotone
  <2>2. Rate * Msec <= c * Msec
    BY <1>1, <1>8, <2>1, Rate * Msec \in Nat, Rate * n \in Nat, c * Msec \in Nat
  <2>3. Rate <= c
    BY <1>1, <2>2, TimesCancel
  <2>4. Rate * Msec <= c * n
    BY <1>1, <2>3, ProductMonotone
  <2>5. (Rate * Msec) * p <= (c * n) * p
    BY <1>1, <1>2, <1>4, <2>4, TimesMonotone, Rate * Msec \in Nat
  <2>6. (low + 1) * unit = ((low + 1) * (Msec * Precision)) * Msec
    <3> HIDE DEF low
    <3> QED
      BY <1>1, <1>6
  <2>7. (Rate * Msec) * p = (Rate * p) * Msec
    BY <1>1, <1>2
  <2> DEFINE a == Rate * p
             b == (low + 1) * (Msec * Precision)
  <2>8. a \in Nat
    BY <1>1, <1>2
  <2>9. b \in Nat
    <3>1. Msec * Precision \in Nat
      BY <1>1
    <3> HIDE DEF low
    <3> QED
      BY <1>6, <3>1
  <2>10. a * Msec <= b * Msec
    <3> DEFINE x == (c * n) * p
               y == (low + 1) * unit
    <3>1. a * Msec <= x /\ x <= y /\ y = b * Msec
      BY <1>6, <2>5, <2>6, <2>7
    <3>2. a * Msec \in Nat /\ b * Msec \in Nat /\ x \in Nat
      <4> HIDE DEF a, b
      <4> QED
        BY <1>1, <1>5, <2>8, <2>9
    <3> HIDE DEF a, b, x, y
    <3> QED
      BY <3>1, <3>2
  <2> HIDE DEF a, b
  <2>11. a <= b
    BY <1>1, <2>8, <2>9, <2>10, TimesCancel
  <2> QED
    BY <2>11 DEF a, b
<1> HIDE DEF low
<1>9. (low + 1) * (Msec * Precision) <= (v + 1) * (Msec * Precision)
  BY <1>1, <1>3, <1>6, TimesMonotone, Msec * Precision \in Nat, low + 1 \in Nat, v + 1 \in Nat
<1>10. ASSUME ~(c * Msec < Rate * n)
       PROVE  Rate * p <= (v + 1) * (Msec * Precision)
  <2> DEFINE u == Msec * Precision
  <2>1. u \in Nat /\ Rate * p \in Nat
    BY <1>1, <1>2
  <2>2. (low + 1) * u <= (v + 1) * u /\ Rate * p <= (low + 1) * u
    BY <1>8, <1>9, <1>10
  <2> HIDE DEF u
  <2>3. (low + 1) * u \in Nat /\ (v + 1) * u \in Nat
    BY <1>3, <1>6, <2>1
  <2>4. Rate * p <= (v + 1) * u
    BY <2>1, <2>2, <2>3
  <2> QED
    BY <2>4 DEF u
<1> QED
  BY <1>3, <1>6, <1>7, <1>10 DEF c, n, p

\* Finitely many numbers have a greatest.
LEMMA Greatest ==
  ASSUME NEW m \in Nat \ {0}, NEW f \in [1 .. m -> Nat]
  PROVE  \E i \in 1 .. m : \A j \in 1 .. m : f[j] <= f[i]
<1> DEFINE greatest(n) == \E i \in 1 .. n : \A j \in 1 .. n : f[j] <= f[i]
           N == {n \in Nat : n + 1 <= m => greatest(n + 1)}
<1>1. 0 \in N
  <2>1. f[1] <= f[1]
    OBVIOUS
  <2> QED
    BY <2>1
<1>2. ASSUME NEW n \in Nat, n \in N
      PROVE  n + 1 \in N
  <2>1. SUFFICES ASSUME n + 2 <= m
                 PROVE  greatest(n + 2)
    OBVIOUS
  <2>2. PICK i \in 1 .. n + 1 : \A j \in 1 .. n + 1 : f[j] <= f[i]
    BY <1>2, <2>1
  <2>3. f[i] \in Nat /\ f[n + 2] \in Nat /\ n + 2 \in 1 .. n + 2 /\ i \in 1 .. n + 2
    BY <2>1
  <2>4. CASE f[n + 2] <= f[i]
    <3>1. \A j \in 1 .. n + 2 : f[j] <= f[i]
      BY <2>2, <2>4
    <3> QED
      BY <2>3, <3>1
  <2>5. CASE f[n + 2] > f[i]
    <3>1. \A j \in 1 .. n + 2 : f[j] <= f[n + 2]
      <4>1. TAKE j \in 1 .. n + 2
      <4>2. f[j] \in Nat
        BY <2>1
      <4>3. CASE j = n + 2
        BY <2>3, <4>3
      <4>4. CASE j \in 1 .. n + 1
        BY <2>2, <2>3, <2>5, <4>2, <4>4
      <4> QED
        BY <4>3, <4>4
    <3> QED
      BY <2>3, <3>1
  <2> QED
    BY <2>3, <2>4, <2>5
<1>3. Nat \subseteq N
  <2> HIDE DEF N
  <2> QED BY <1>1, <1>2, Procs!NatSetInduction
<1>4. \A n \in Nat : n + 1 <= m => greatest(n + 1)
  BY <1>3
<1> HIDE DEF greatest
<1>5. PICK n \in Nat : n + 1 = m
  <2>1. m - 1 \in Nat /\ (m - 1) + 1 = m
    OBVIOUS
  <2> QED
    BY <2>1
<1>6. greatest(n + 1)
  BY <1>4, <1>5
<1> QED
  BY <1>5, <1>6 DEF greatest

\* Numbers have a least.
LEMMA Least ==
  ASSUME NEW V \in SUBSET Nat, V # {}
  PROVE  Min(V) \in V /\ \A v \in V : Min(V) <= v
<1>1. \E x \in V : \A y \in V : x <= y
  <2> DEFINE N == {n \in Nat : \A v \in V : n <= v}
  <2>1. SUFFICES ASSUME \A x \in V : \E y \in V : ~(x <= y) PROVE FALSE
    OBVIOUS
  <2>2. 0 \in N
    OBVIOUS
  <2>3. ASSUME NEW n \in Nat, n \in N
        PROVE  n + 1 \in N
    <3>1. n \notin V
      BY <2>1, <2>3
    <3> QED
      BY <2>3, <3>1
  <2>4. Nat \subseteq N
    <3> HIDE DEF N
    <3> QED BY <2>2, <2>3, Procs!NatSetInduction
  <2>5. PICK v \in V : TRUE
    OBVIOUS
  <2>6. v + 1 \in N /\ v \in Nat
    BY <2>4
  <2> QED
    BY <2>6
<1> QED
  BY <1>1 DEF Min

\* At least one of any half of the values is no more than the median.
LEMMA MedianIsMiddle ==
  ASSUME NEW value \in [1 .. MaxSamples -> Nat \ {0}],
         NEW bad \in SUBSET (1 .. MaxSamples), 2 * Cardinality(bad) <= MaxSamples
  PROVE  /\ Median(value) \in Nat \ {0}
         /\ \E i \in (1 .. MaxSamples) \ bad : value[i] <= Median(value)
<1> DEFINE upTo(v) == {i \in 1 .. MaxSamples : value[i] <= v}
           V == {v \in Range(value) : Cardinality(upTo(v)) > MaxSamples \div 2}
<1>1. MaxSamples \in Nat \ {0}
  BY ClockAssumption
<1>2. /\ MaxSamples \div 2 \in Nat /\ MaxSamples \div 2 < MaxSamples
      /\ MaxSamples <= 2 * (MaxSamples \div 2) + 1
  BY <1>1
<1>3. Median(value) = Min(V)
  BY DEF Median
<1>4. V \in SUBSET (Nat \ {0})
  BY DEF Range
<1>6. IsFiniteSet(1 .. MaxSamples) /\ Cardinality(1 .. MaxSamples) = MaxSamples
  BY <1>1, FS_Interval
<1>7. V # {}
  <2>1. PICK i \in 1 .. MaxSamples : \A j \in 1 .. MaxSamples : value[j] <= value[i]
    BY <1>1, Greatest
  <2>2. upTo(value[i]) = 1 .. MaxSamples
    BY <2>1
  <2>3. value[i] \in Range(value)
    BY DEF Range
  <2> QED
    BY <1>2, <1>6, <2>2, <2>3
<1> DEFINE m == Min(V)
<1>8. m \in V
  <2>1. V \in SUBSET Nat
    BY <1>4
  <2> HIDE DEF V
  <2> QED
    BY <1>7, <2>1, Least
<1>9. Cardinality(upTo(m)) > MaxSamples \div 2
  BY <1>8
<1> HIDE DEF m
<1>10. ~(upTo(m) \subseteq bad)
  <2>1. SUFFICES ASSUME upTo(m) \subseteq bad PROVE FALSE
    OBVIOUS
  <2>2. IsFiniteSet(bad)
    BY <1>6, FS_Subset
  <2>3. Cardinality(upTo(m)) <= Cardinality(bad) /\ IsFiniteSet(upTo(m))
    <3> HIDE DEF upTo
    <3> QED
      BY <2>1, <2>2, FS_Subset
  <2>4. Cardinality(bad) \in Nat /\ Cardinality(upTo(m)) \in Nat
    <3> HIDE DEF upTo
    <3> QED
      BY <2>2, <2>3, FS_CardinalityType
  <2> DEFINE half == MaxSamples \div 2
             some == Cardinality(upTo(m))
             few == Cardinality(bad)
  <2>5. /\ half \in Nat /\ some \in Nat /\ few \in Nat /\ some <= few
        /\ some > half /\ 2 * few <= MaxSamples /\ MaxSamples <= 2 * half + 1
    BY <1>2, <1>9, <2>3, <2>4
  <2> HIDE DEF half, some, few
  <2> QED
    BY <1>1, <2>5
<1>11. PICK i \in (1 .. MaxSamples) \ bad : value[i] <= m
  BY <1>10
<1> QED
  BY <1>3, <1>4, <1>8, <1>11 DEF m

\* The median loses as little of the rate as half of the samples do.
LEMMA MedianIsRate ==
  ASSUME NEW counted \in [1 .. MaxSamples -> Samples], NEW value,
         value \in [1 .. MaxSamples -> UNION {TscPerUsec(s) : s \in Range(counted)}],
         \A i \in 1 .. MaxSamples : value[i] \in TscPerUsec(counted[i])
  PROVE  /\ Median(value) \in Nat \ {0}
         /\ 2 * Cardinality({i \in 1 .. MaxSamples :
                               counted[i].cycles * Msec < Rate * counted[i].usec})
                <= MaxSamples
              => Rate * (Precision - 1) <= (Median(value) + 1) * (Msec * Precision)
<1> DEFINE bad == {i \in 1 .. MaxSamples :
                     counted[i].cycles * Msec < Rate * counted[i].usec}
           u == Msec * Precision
           r == Rate * (Precision - 1)
<1>1. value \in [1 .. MaxSamples -> Nat \ {0}]
  BY SampleType
<1>2. \A i \in (1 .. MaxSamples) \ bad : r <= (value[i] + 1) * u
  BY SampleType
<1>3. u \in Nat /\ r \in Nat
  BY ClockAssumption
<1>4. Median(value) \in Nat \ {0}
  <2>1. {} \in SUBSET (1 .. MaxSamples) /\ 2 * Cardinality({}) <= MaxSamples
    BY FS_EmptySet, ClockAssumption
  <2> QED
    BY <1>1, <2>1, MedianIsMiddle
<1>5. ASSUME 2 * Cardinality(bad) <= MaxSamples
      PROVE  r <= (Median(value) + 1) * u
  <2>1. bad \in SUBSET (1 .. MaxSamples)
    OBVIOUS
  <2> HIDE DEF bad, u, r
  <2>2. PICK i \in (1 .. MaxSamples) \ bad : value[i] <= Median(value)
    BY <1>1, <1>5, <2>1, MedianIsMiddle
  <2>3. value[i] \in Nat
    BY <1>1
  <2>4. (value[i] + 1) * u <= (Median(value) + 1) * u
    BY <1>3, <1>4, <2>2, <2>3, TimesMonotone
  <2>5. r <= (value[i] + 1) * u
    BY <1>2, <2>2
  <2> QED
    BY <1>3, <1>4, <2>3, <2>4, <2>5
<1> QED
  BY <1>4, <1>5

LEMMA ClockInitHolds == ClockInit => ClockInv
<1> SUFFICES ASSUME ClockInit PROVE ClockInv
  OBVIOUS
<1>1. median_tsc_per_usec \in Nat \ {0} /\ (MostSamplesCount => MedianCounts)
  <2>1. PICK value \in [1 .. MaxSamples ->
                          UNION {TscPerUsec(s) : s \in Range(samples)}] :
            /\ \A i \in 1 .. MaxSamples : value[i] \in TscPerUsec(samples[i])
            /\ median_tsc_per_usec = Median(value)
    BY DEF ClockInit
  <2>2. samples \in [1 .. MaxSamples -> Samples]
    BY DEF ClockInit
  <2> QED
    BY <2>1, <2>2, MedianIsRate DEF MostSamplesCount, MedianCounts
<1>2. /\ tsc \in 0 .. Wrap - 1 /\ tsc_clock = tsc /\ frame_to_frame_tsc = tsc
      /\ tsc \in Int
  BY ClockAssumption DEF ClockInit
<1>3. ClockTypeOK
  BY <1>1, <1>2 DEF ClockInit, ClockTypeOK
<1>4. Behind(0, tsc, tsc_clock) /\ Behind(0, tsc, frame_to_frame_tsc)
  BY <1>2, BehindNothing
<1>5. LagInv
  <2>1. tsc_step \in Nat
    BY <1>3, StepType
  <2>2. steps * tsc_step + 0 = 0 /\ elapsed = 0
    BY <2>1 DEF ClockInit
  <2> QED
    BY <1>4, <2>2 DEF LagInv
<1>6. SinceInv
  BY <1>4 DEF SinceInv, ClockInit
<1>7. SleepInv
  BY <1>1 DEF SleepInv, ClockInit
<1> QED
  BY <1>3, <1>5, <1>6, <1>7 DEF ClockInv

\* What the median makes of some microseconds is over in true time.
LEMMA TrueTime ==
  ASSUME ClockTypeOK, MedianCounts, NEW usec \in Nat, NEW cycles \in Nat,
         usec * median_tsc_per_usec <= cycles
  PROVE  OverAfter(usec, cycles)
<1> DEFINE m == median_tsc_per_usec
           u == Msec * Precision
           r == Rate * (Precision - 1)
<1>1. m \in Nat /\ u \in Nat /\ r \in Nat
  BY ClockAssumption DEF ClockTypeOK
<1>2. r <= (m + 1) * u /\ usec * m <= cycles
  BY DEF MedianCounts
<1> HIDE DEF m, u, r
<1>3. (m + 1) * u \in Nat
  BY <1>1
<1>4. r * usec <= ((m + 1) * u) * usec
  BY <1>1, <1>2, <1>3, TimesMonotone
<1>5. ((m + 1) * u) * usec = (usec * m + usec) * u /\ r * usec = usec * r
  BY <1>1
<1>6. usec * m \in Nat
  BY <1>1
<1>7. (usec * m + usec) * u <= (cycles + usec) * u
  BY <1>1, <1>2, <1>6, TimesMonotone
<1>8. usec * r <= (cycles + usec) * u
  <2> DEFINE a == (usec * m + usec) * u
             b == (cycles + usec) * u
             d == usec * r
  <2>1. a \in Nat /\ b \in Nat /\ d \in Nat
    BY <1>1, <1>6
  <2>2. d <= a /\ a <= b
    BY <1>4, <1>5, <1>7
  <2> HIDE DEF a, b, d
  <2>3. d <= b
    BY <2>1, <2>2
  <2> QED
    BY <2>3 DEF b, d
<1> QED
  BY <1>8 DEF OverAfter, u, r

LEMMA ClockInvHolds == ClockSpec => []ClockInv
<1>1. ClockInit => ClockInv
  BY ClockInitHolds
<1>2. ClockInv /\ UNCHANGED clockvars => ClockInv'
  BY DEF ClockInv, ClockTypeOK, LagInv, SinceInv, SleepInv, clockvars, tsc_step,
         MostSamplesCount, MedianCounts
<1>3. ClockInv /\ [ClockNext]_clockvars => ClockInv'
  BY <1>2, ClockStep DEF ClockNext
<1> QED
  BY <1>1, <1>3, PTL DEF ClockSpec

\* At every rate of the processor, from every value of its counter, and however
\* late clock_sync is called.
THEOREM ClockIsNeverAhead == ClockSpec => []ClockNeverAhead
<1>1. ASSUME ClockInv
      PROVE  ClockNeverAhead
  <2>1. PICK lag \in Nat : /\ Behind(lag, tsc, tsc_clock)
                           /\ steps * tsc_step + lag <= elapsed
                           /\ jerk = 0 => steps * tsc_step + lag = elapsed
    BY <1>1 DEF ClockInv, LagInv
  <2>2. steps * tsc_step \in Nat /\ elapsed \in Nat
    BY <1>1, StepType DEF ClockInv, ClockTypeOK
  <2>3. steps * tsc_step <= elapsed
    BY <2>1, <2>2
  <2>4. jerk = 0 => elapsed - steps * tsc_step = lag
    BY <2>1, <2>2
  <2>5. lag % Wrap = (tsc - tsc_clock) % Wrap
    BY <2>1 DEF Behind
  <2>6. MostSamplesCount => OverAfter(steps * Goal, elapsed)
    <3>1. /\ steps \in Nat /\ Goal \in Nat /\ median_tsc_per_usec \in Nat
      BY <1>1, ClockAssumption DEF ClockInv, ClockTypeOK
    <3>2. steps * Goal \in Nat
      BY <3>1
    <3>3. (steps * Goal) * median_tsc_per_usec = steps * tsc_step
      BY <3>1 DEF tsc_step
    <3>4. (steps * Goal) * median_tsc_per_usec <= elapsed
      BY <2>3, <3>3
    <3> QED
      BY <1>1, <2>2, <3>2, <3>4, TrueTime DEF ClockInv, SleepInv
  <2> QED
    BY <2>3, <2>4, <2>5, <2>6 DEF ClockNeverAhead
<1> QED
  BY <1>1, ClockInvHolds, PTL

\* At every rate, which need be no whole number of cycles per microsecond, however
\* late clock_sync is called and whatever clock_init samples, its float rounded and
\* truncated: no sleep lasts beyond the next step of the clock, and a frame took as
\* long as is shown, by the rate that was found; and by the true one, but for what
\* is lost by the truncation and the float, if half of the samples count enough.
THEOREM SleepsAreNoLonger == ClockSpec => []SleepsNoLonger
<1>1. ASSUME ClockInv
      PROVE  SleepsNoLonger
  <2>1. PICK since \in 0 .. elapsed : Behind(since, tsc, frame_to_frame_tsc)
    BY <1>1 DEF ClockInv, SinceInv
  <2> DEFINE shown == (tsc - frame_to_frame_tsc) % Wrap
  <2>2. since % Wrap = shown
    BY <2>1 DEF Behind
  <2>3. elapsed \in Nat /\ since \in Nat /\ since <= elapsed /\ Wrap \in Nat \ {0}
    BY <1>1, ClockAssumption DEF ClockInv, ClockTypeOK
  <2> HIDE DEF shown
  <2>4. shown \in Nat /\ shown <= elapsed
    BY <2>2, <2>3, RemainderLess
  <2>5. tscdelta_to_usec(shown) \in Nat /\ tscdelta_to_usec(shown) * median_tsc_per_usec <= shown
    BY <1>1, <2>4, UsecNoLonger DEF ClockInv
  <2>6. delta_usec = tscdelta_to_usec(shown)
    BY DEF delta_usec, shown
  <2>7. delta_usec \in Nat /\ delta_usec * median_tsc_per_usec <= elapsed
    <3>1. median_tsc_per_usec \in Nat
      BY <1>1 DEF ClockInv, ClockTypeOK
    <3>2. tscdelta_to_usec(shown) * median_tsc_per_usec \in Nat
      BY <2>5, <3>1
    <3> QED
      BY <2>3, <2>4, <2>5, <2>6, <3>2
  <2> DEFINE remaining == (tsc_clock + tsc_step - tsc) % Wrap
  <2>8. ~synced => sleep_usec * median_tsc_per_usec <= remaining
    BY <1>1 DEF ClockInv, SleepInv
  <2>9. remaining \in Nat /\ sleep_usec \in Nat
    <3>1. tsc_clock + tsc_step - tsc \in Int
      BY <1>1, StepType DEF ClockInv, ClockTypeOK
    <3>2. sleep_usec \in Nat
      BY <1>1 DEF ClockInv, ClockTypeOK
    <3> QED
      BY <2>3, <3>1, <3>2, Remainder
  <2> HIDE DEF remaining
  <2>10. MostSamplesCount => MedianCounts /\ ClockTypeOK
    BY <1>1 DEF ClockInv, SleepInv
  <2>11. MostSamplesCount => OverAfter(delta_usec, elapsed)
    <3> HIDE DEF delta_usec
    <3> QED
      BY <2>3, <2>7, <2>10, TrueTime
  <2>12. MostSamplesCount /\ ~synced => OverAfter(sleep_usec, remaining)
    BY <2>8, <2>9, <2>10, TrueTime
  <2> QED
    BY <2>7, <2>8, <2>11, <2>12 DEF SleepsNoLonger, remaining
<1> QED
  BY <1>1, ClockInvHolds, PTL

-----------------------------------------------------------------------------
(* The grid. *)

LEMMA MultipleOf ==
  ASSUME NEW d \in Nat \ {0}, NEW a \in Int, a % d = 0
  PROVE  \E q \in Int : a = d * q
<1> DEFINE q == a \div d
           r == a % d
<1>1. q \in Int /\ a = d * q + r /\ r = 0
  BY Remainder
<1> HIDE DEF q, r
<1>2. a = d * q
  BY <1>1
<1> QED
  BY <1>1, <1>2

\* A multiple plus a multiple is a multiple.
LEMMA MultiplePlus ==
  ASSUME NEW d \in Nat \ {0}, NEW a \in Int, NEW k \in Int, a % d = 0
  PROVE  (a + k * d) % d = 0
<1>1. PICK q \in Int : a = d * q
  BY MultipleOf
<1>2. a + k * d \in Int /\ a + k * d = d * (q + k) + 0 /\ q + k \in Int /\ 0 \in 0 .. d - 1
  BY <1>1
<1> QED
  BY ONLY <1>2, d \in Nat \ {0}, RemainderOf

\* As far from each other as some multiple.
LEMMA MultipleMinus ==
  ASSUME NEW d \in Nat \ {0}, NEW a \in Int, NEW b \in Int, a % d = 0, b % d = 0
  PROVE  \E k \in Int : b - a = k * d
<1>1. PICK p \in Int : a = d * p
  BY MultipleOf
<1>2. PICK q \in Int : b = d * q
  BY MultipleOf
<1>3. q - p \in Int /\ b - a = (q - p) * d
  BY <1>1, <1>2
<1> QED
  BY <1>3

Multiple(a, d) == a % d = 0

\* A grid begins at a multiple of its spacing, before the view.
LEMMA GridStarts ==
  ASSUME NEW min \in Int, NEW grid \in Nat \ {0}
  PROVE  /\ AlignToGrid(min, grid) \in Int
         /\ AlignToGrid(min, grid) < min
         /\ Multiple(AlignToGrid(min, grid), grid)
<1>1. CASE min >= 0
  <2>1. /\ min % grid \in 0 .. grid - 1 /\ min \div grid \in Int
        /\ min = grid * (min \div grid) + (min % grid)
    BY Remainder
  <2>2. AlignToGrid(min, grid) = min - ((min % grid) + grid)
    BY <1>1 DEF AlignToGrid, Fmod
  <2> DEFINE r == min % grid
             q == min \div grid
             a == AlignToGrid(min, grid)
  <2>3. /\ r \in 0 .. grid - 1 /\ q \in Int /\ min = grid * q + r
        /\ a = min - (r + grid)
    BY <2>1, <2>2
  <2> HIDE DEF r, q, a
  <2>4. /\ a \in Int /\ a < min /\ a = grid * (q - 1) + 0
        /\ q - 1 \in Int /\ 0 \in 0 .. grid - 1
    BY <2>3
  <2>5. a % grid = 0
    BY <2>4, RemainderOf
  <2> QED
    BY <2>4, <2>5 DEF a, Multiple
<1>2. CASE min < 0
  <2>1. /\ (-min) % grid \in 0 .. grid - 1 /\ (-min) \div grid \in Int
        /\ -min = grid * ((-min) \div grid) + ((-min) % grid)
    BY -min \in Int, Remainder
  <2>2. AlignToGrid(min, grid) = min - (-((-min) % grid) + grid)
    BY <1>2 DEF AlignToGrid, Fmod
  <2> DEFINE r == (-min) % grid
             q == (-min) \div grid
             a == AlignToGrid(min, grid)
  <2>3. /\ r \in 0 .. grid - 1 /\ q \in Int /\ -min = grid * q + r
        /\ a = min - (-r + grid)
    BY <2>1, <2>2
  <2> HIDE DEF r, q, a
  <2>4. /\ a \in Int /\ a < min /\ a = grid * (-q - 1) + 0
        /\ -q - 1 \in Int /\ 0 \in 0 .. grid - 1
    BY <2>3
  <2>5. a % grid = 0
    BY <2>4, RemainderOf
  <2> QED
    BY <2>4, <2>5 DEF a, Multiple
<1> QED
  BY <1>1, <1>2

\* Numbers at the multiples from min to max, none of which they miss.
MultiplesTo(t, min, max, grid) ==
  /\ t \in Seq(Int)
  /\ \A k \in DOMAIN t : t[k] \in Int /\ Multiple(t[k], grid)
  /\ \A z \in min .. max - 1 : Multiple(z, grid) => \E k \in DOMAIN t : t[k] = z

\* The lines from there are at multiples, and miss none before the last.
LEMMA GridLinesFrom ==
  ASSUME NEW min \in Int, NEW max \in Int, NEW grid \in Nat \ {0},
         Multiple(min, grid)
  PROVE  MultiplesTo(LinesFrom(min, max, grid), min, max, grid)
<1> DEFINE wide == max - min + grid - 1
           n == IF max > min THEN wide \div grid ELSE 0
<1>1. wide \in Int /\ wide \div grid \in Int /\ wide % grid \in 0 .. grid - 1
      /\ wide = grid * (wide \div grid) + (wide % grid)
  <2>1. wide \in Int
    OBVIOUS
  <2> HIDE DEF wide
  <2> QED
    BY <2>1, Remainder
<1>2. n \in Nat
  <2> DEFINE p == wide \div grid
             r == wide % grid
  <2>1. p \in Int /\ r \in 0 .. grid - 1 /\ wide = grid * p + r
    BY <1>1
  <2>2. max > min => wide >= grid
    OBVIOUS
  <2> HIDE DEF wide, p, r
  <2>3. ASSUME wide >= grid PROVE p \in Nat
    <3>1. CASE p <= -1
      <4>1. grid * p <= grid * (-1)
        BY <2>1, <3>1
      <4> QED
        BY <2>1, <2>3, <4>1
    <3> QED
      BY <2>1, <3>1
  <2> QED
    BY <2>2, <2>3 DEF p
<1>3. LinesFrom(min, max, grid) = [k \in 1 .. n |-> min + (k - 1) * grid]
  BY DEF LinesFrom
<1> HIDE DEF n
<1>4. \A k \in 1 .. n : min + (k - 1) * grid \in Int
  BY <1>2
<1>5. LinesFrom(min, max, grid) \in Seq(Int)
  <2>1. LinesFrom(min, max, grid) \in [1 .. n -> Int]
    BY <1>3, <1>4
  <2> QED
    BY <1>2, <2>1
<1>6. ASSUME NEW k \in 1 .. n
      PROVE  Multiple(LinesFrom(min, max, grid)[k], grid)
  <2>1. k - 1 \in Int
    BY <1>2
  <2>2. (min + (k - 1) * grid) % grid = 0
    BY <2>1, MultiplePlus DEF Multiple
  <2> QED
    BY <1>3, <2>2 DEF Multiple
<1>7. ASSUME NEW z \in min .. max - 1, Multiple(z, grid)
      PROVE  \E k \in 1 .. n : LinesFrom(min, max, grid)[k] = z
  <2>1. PICK k \in Int : z - min = k * grid
    <3>1. z \in Int
      OBVIOUS
    <3> QED
      BY <1>7, <3>1, MultipleMinus DEF Multiple
  <2>2. k >= 0
    <3>1. SUFFICES ASSUME k <= -1 PROVE FALSE
      OBVIOUS
    <3>2. k * grid <= (-1) * grid
      BY <3>1
    <3> QED
      BY <2>1, <3>2
  <2> DEFINE p == wide \div grid
             r == wide % grid
  <2>3. p \in Int /\ r \in 0 .. grid - 1 /\ wide = grid * p + r
        /\ wide >= k * grid + grid
    <3>1. wide >= (z - min) + grid
      OBVIOUS
    <3> QED
      BY <1>1, <2>1, <3>1
  <2>4. n = p
    BY DEF n
  <2> HIDE DEF wide, p, r
  <2>5. p >= k + 1
    <3>1. SUFFICES ASSUME p <= k PROVE FALSE
      BY <2>3
    <3>2. grid * p <= k * grid
      BY <2>3, <3>1
    <3> QED
      BY <2>3, <3>2
  <2>6. k + 1 \in 1 .. n /\ (k + 1) - 1 = k
    BY <1>2, <2>2, <2>3, <2>4, <2>5
  <2>7. LinesFrom(min, max, grid)[k + 1] = min + k * grid
    BY <1>3, <2>6
  <2>8. min + k * grid = z
    BY <2>1
  <2> QED
    BY <2>6, <2>7, <2>8
<1>8. /\ DOMAIN LinesFrom(min, max, grid) = 1 .. n
      /\ \A k \in 1 .. n : LinesFrom(min, max, grid)[k] \in Int
  BY <1>3, <1>4
<1> QED
  BY <1>5, <1>6, <1>7, <1>8 DEF MultiplesTo

Rectangle == [min : Int \X Int, max : Int \X Int]

\* What the matrices of the grid's lines tell.
Line == Rectangle \X (Int \X Int) \X (Int \X Int)

\* Two runs of lines, one after the other, have the lines of both.
BothIn(t, r, c) ==
  /\ t \in Seq(Line)
  /\ \A n \in DOMAIN t : \/ \E k \in DOMAIN r : t[n] = r[k]
                        \/ \E k \in DOMAIN c : t[n] = c[k]
  /\ \A k \in DOMAIN r : \E n \in DOMAIN t : t[n] = r[k]
  /\ \A k \in DOMAIN c : \E n \in DOMAIN t : t[n] = c[k]

LEMMA BothRuns ==
  ASSUME NEW r \in Seq(Line), NEW c \in Seq(Line), NEW t, t = r \o c
  PROVE  BothIn(t, r, c)
<1>1. /\ t \in Seq(Line) /\ Len(t) = Len(r) + Len(c) /\ DOMAIN t = 1 .. Len(t)
      /\ Len(r) \in Nat /\ Len(c) \in Nat
      /\ DOMAIN r = 1 .. Len(r) /\ DOMAIN c = 1 .. Len(c)
  OBVIOUS
<1>2. \A n \in 1 .. Len(r) : t[n] = r[n]
  OBVIOUS
<1>3. \A k \in 1 .. Len(c) : t[Len(r) + k] = c[k]
  OBVIOUS
<1>4. ASSUME NEW n \in DOMAIN t
      PROVE  \/ \E k \in DOMAIN r : t[n] = r[k]
             \/ \E k \in DOMAIN c : t[n] = c[k]
  <2>1. CASE n <= Len(r)
    BY <1>1, <1>2, <2>1
  <2>2. CASE n > Len(r)
    <3>1. n - Len(r) \in 1 .. Len(c) /\ Len(r) + (n - Len(r)) = n
      BY <1>1, <2>2
    <3> QED
      BY <1>1, <1>3, <3>1
  <2> QED
    BY <1>1, <2>1, <2>2
<1>5. ASSUME NEW k \in DOMAIN r
      PROVE  \E n \in DOMAIN t : t[n] = r[k]
  <2>1. k \in DOMAIN t
    BY <1>1
  <2> QED
    BY <1>1, <1>2, <2>1
<1>6. ASSUME NEW k \in DOMAIN c
      PROVE  \E n \in DOMAIN t : t[n] = c[k]
  <2>1. Len(r) + k \in DOMAIN t
    BY <1>1
  <2> QED
    BY <1>1, <1>3, <2>1
<1> QED
  BY <1>1, <1>4, <1>5, <1>6 DEF BothIn

Left(grid) == AlignToGrid(view.min[1], grid)

Bottom(grid) == AlignToGrid(view.min[2], grid)

Right == view.max[1]

Top == view.max[2]

\* Where the horizontal lines are, and the vertical ones.
Rows(grid) == LinesFrom(Bottom(grid), Top, grid)

Columns(grid) == LinesFrom(Left(grid), Right, grid)

\* A line from edge to edge, at the height or at the side it is given.
Across(grid, y) == LineFromTo(<<Left(grid), y>>, <<Right, y>>)

Upward(grid, x) == LineFromTo(<<x, Bottom(grid)>>, <<x, Top>>)

\* The edges of the view are numbers, and the grid begins before them.
LEMMA GridEdges ==
  ASSUME view \in Rectangle, NEW grid \in Nat \ {0}
  PROVE  /\ Left(grid) \in Int /\ Left(grid) < view.min[1] /\ view.min[1] \in Int
         /\ Bottom(grid) \in Int /\ Bottom(grid) < view.min[2] /\ view.min[2] \in Int
         /\ Right \in Int /\ Top \in Int
         /\ Multiple(Left(grid), grid) /\ Multiple(Bottom(grid), grid)
<1>1. /\ view.min[1] \in Int /\ view.min[2] \in Int
      /\ view.max[1] \in Int /\ view.max[2] \in Int
  BY DEF Rectangle
<1> QED
  BY <1>1, GridStarts DEF Left, Bottom, Right, Top

\* A line at every row and at every column, and no other.
LinesAre(lines, grid) ==
  /\ lines \in Seq(Line)
  /\ \A n \in DOMAIN lines :
       \/ \E k \in DOMAIN Rows(grid) : lines[n] = Across(grid, Rows(grid)[k])
       \/ \E k \in DOMAIN Columns(grid) : lines[n] = Upward(grid, Columns(grid)[k])
  /\ \A k \in DOMAIN Rows(grid) : \E n \in DOMAIN lines :
       lines[n] = Across(grid, Rows(grid)[k])
  /\ \A k \in DOMAIN Columns(grid) : \E n \in DOMAIN lines :
       lines[n] = Upward(grid, Columns(grid)[k])

LEMMA LinesOfGrid ==
  ASSUME view \in Rectangle, NEW grid \in Nat \ {0}
  PROVE  LinesAre(GridLines(grid), grid)
<1> DEFINE ys   == Rows(grid)
           xs   == Columns(grid)
           rows == [k \in DOMAIN ys |-> Across(grid, ys[k])]
           columns == [k \in DOMAIN xs |-> Upward(grid, xs[k])]
           lines == GridLines(grid)
<1>1. /\ Left(grid) \in Int /\ Bottom(grid) \in Int /\ Right \in Int /\ Top \in Int
      /\ Multiple(Left(grid), grid) /\ Multiple(Bottom(grid), grid)
  BY GridEdges
<1>2. ys \in Seq(Int) /\ xs \in Seq(Int)
  BY <1>1, GridLinesFrom DEF Rows, Columns, MultiplesTo
<1>3. lines = rows \o columns
  BY DEF GridLines, Across, Upward, Rows, Columns, Left, Bottom, Right, Top
<1> HIDE DEF ys, xs
<1>4. ASSUME NEW z \in Int
      PROVE  Across(grid, z) \in Line /\ Upward(grid, z) \in Line
  BY <1>1 DEF Across, Upward, LineFromTo, Line
<1>5. rows \in Seq(Line) /\ DOMAIN rows = DOMAIN ys
  <2>1. rows \in [1 .. Len(ys) -> Line] /\ Len(ys) \in Nat /\ DOMAIN ys = 1 .. Len(ys)
    BY <1>2, <1>4
  <2> HIDE DEF rows
  <2> QED
    BY <2>1
<1>6. columns \in Seq(Line) /\ DOMAIN columns = DOMAIN xs
  <2>1. columns \in [1 .. Len(xs) -> Line] /\ Len(xs) \in Nat /\ DOMAIN xs = 1 .. Len(xs)
    BY <1>2, <1>4
  <2> HIDE DEF columns
  <2> QED
    BY <2>1
<1>7. /\ \A k \in DOMAIN ys : rows[k] = Across(grid, ys[k])
      /\ \A k \in DOMAIN xs : columns[k] = Upward(grid, xs[k])
  OBVIOUS
<1> HIDE DEF rows, columns, lines
<1>8. BothIn(lines, rows, columns)
  BY ONLY <1>3, <1>5, <1>6, BothRuns
<1>9. ASSUME NEW n \in DOMAIN lines
      PROVE  \/ \E k \in DOMAIN ys : lines[n] = Across(grid, ys[k])
             \/ \E k \in DOMAIN xs : lines[n] = Upward(grid, xs[k])
  <2>1. \/ \E k \in DOMAIN rows : lines[n] = rows[k]
        \/ \E k \in DOMAIN columns : lines[n] = columns[k]
    BY <1>8 DEF BothIn
  <2> QED
    BY ONLY <1>5, <1>6, <1>7, <2>1
<1>10. ASSUME NEW k \in DOMAIN ys
       PROVE  \E n \in DOMAIN lines : lines[n] = Across(grid, ys[k])
  <2>1. k \in DOMAIN rows /\ rows[k] = Across(grid, ys[k])
    BY ONLY k \in DOMAIN ys, <1>5, <1>7
  <2> QED
    BY <1>8, <2>1 DEF BothIn
<1>11. ASSUME NEW k \in DOMAIN xs
       PROVE  \E n \in DOMAIN lines : lines[n] = Upward(grid, xs[k])
  <2>1. k \in DOMAIN columns /\ columns[k] = Upward(grid, xs[k])
    BY ONLY k \in DOMAIN xs, <1>6, <1>7
  <2> QED
    BY <1>8, <2>1 DEF BothIn
<1>12. lines \in Seq(Line)
  BY <1>8 DEF BothIn
<1> QED
  BY <1>9, <1>10, <1>11, <1>12 DEF lines, ys, xs, LinesAre

LEMMA GridFills == ASSUME view \in Rectangle PROVE GridFillsView
<1> SUFFICES ASSUME NEW s \in DOMAIN Spacing, NEW axis \in 1 .. 2
    PROVE LET lines == {GridLines(Spacing[s])[n] : n \in DOMAIN GridLines(Spacing[s])}
              along == {l \in lines : l[2][axis] = l[3][axis]}
              across == 3 - axis
          IN  /\ \A l \in along : l[2][axis] % Spacing[s] = 0
              /\ \A z \in view.min[axis] .. view.max[axis] - 1 :
                   z % Spacing[s] = 0 =>
                     \E l \in along : /\ l[2][axis] = z
                                      /\ l[2][across] <= view.min[across]
                                      /\ l[3][across] >= view.max[across]
  BY DEF GridFillsView
<1> DEFINE grid == Spacing[s]
           lines == {GridLines(grid)[n] : n \in DOMAIN GridLines(grid)}
           along == {l \in lines : l[2][axis] = l[3][axis]}
           ys == Rows(grid)
           xs == Columns(grid)
<1>1. grid \in Nat \ {0}
  BY RendererAssumption
<1> HIDE DEF grid
<1>2. /\ Left(grid) \in Int /\ Left(grid) < view.min[1] /\ view.min[1] \in Int
      /\ Bottom(grid) \in Int /\ Bottom(grid) < view.min[2] /\ view.min[2] \in Int
      /\ Right \in Int /\ Top \in Int
      /\ Multiple(Left(grid), grid) /\ Multiple(Bottom(grid), grid)
  BY <1>1, GridEdges
<1>3. /\ \A l \in lines : \/ \E k \in DOMAIN ys : l = Across(grid, ys[k])
                          \/ \E k \in DOMAIN xs : l = Upward(grid, xs[k])
      /\ \A k \in DOMAIN ys : Across(grid, ys[k]) \in lines
      /\ \A k \in DOMAIN xs : Upward(grid, xs[k]) \in lines
  <2>1. LinesAre(GridLines(grid), grid)
    BY <1>1, LinesOfGrid
  <2> QED
    BY <2>1 DEF LinesAre
<1>4. /\ \A k \in DOMAIN ys : ys[k] \in Int /\ Multiple(ys[k], grid)
      /\ \A z \in Bottom(grid) .. Top - 1 :
           Multiple(z, grid) => \E k \in DOMAIN ys : ys[k] = z
  <2>1. MultiplesTo(ys, Bottom(grid), Top, grid)
    BY <1>1, <1>2, GridLinesFrom DEF Rows
  <2> HIDE DEF ys
  <2> QED
    BY <2>1 DEF MultiplesTo
<1>5. /\ \A k \in DOMAIN xs : xs[k] \in Int /\ Multiple(xs[k], grid)
      /\ \A z \in Left(grid) .. Right - 1 :
           Multiple(z, grid) => \E k \in DOMAIN xs : xs[k] = z
  <2>1. MultiplesTo(xs, Left(grid), Right, grid)
    BY <1>1, <1>2, GridLinesFrom DEF Columns
  <2> HIDE DEF xs
  <2> QED
    BY <2>1 DEF MultiplesTo
<1> HIDE DEF ys, xs, lines
<1>6. \A z : /\ Across(grid, z)[2] = <<Left(grid), z>>
             /\ Across(grid, z)[3] = <<Right, z>>
             /\ Upward(grid, z)[2] = <<z, Bottom(grid)>>
             /\ Upward(grid, z)[3] = <<z, Top>>
  BY DEF Across, Upward, LineFromTo
<1>7. ASSUME NEW l \in along
      PROVE  Multiple(l[2][axis], grid)
  <2>1. l \in lines /\ l[2][axis] = l[3][axis]
    OBVIOUS
  <2>2. CASE \E k \in DOMAIN ys : l = Across(grid, ys[k])
    <3>1. PICK k \in DOMAIN ys : l = Across(grid, ys[k])
      BY <2>2
    <3>2. l[2] = <<Left(grid), ys[k]>>
      BY <1>6, <3>1
    <3> QED
      BY <1>2, <1>4, <3>2
  <2>3. CASE \E k \in DOMAIN xs : l = Upward(grid, xs[k])
    <3>1. PICK k \in DOMAIN xs : l = Upward(grid, xs[k])
      BY <2>3
    <3>2. l[2] = <<xs[k], Bottom(grid)>>
      BY <1>6, <3>1
    <3> QED
      BY <1>2, <1>5, <3>2
  <2> QED
    BY <1>3, <2>1, <2>2, <2>3
<1>8. ASSUME NEW z \in view.min[axis] .. view.max[axis] - 1, Multiple(z, grid)
      PROVE  \E l \in along : /\ l[2][axis] = z
                              /\ l[2][3 - axis] <= view.min[3 - axis]
                              /\ l[3][3 - axis] >= view.max[3 - axis]
  <2>1. CASE axis = 1
    <3>1. z \in Left(grid) .. Right - 1
      BY <1>2, <2>1 DEF Right
    <3>2. PICK k \in DOMAIN xs : xs[k] = z
      BY <1>5, <1>8, <3>1
    <3> DEFINE l == Upward(grid, z)
    <3>3. l \in lines
      BY <1>3, <3>2
    <3>4. l[2] = <<z, Bottom(grid)>> /\ l[3] = <<z, Top>>
      BY <1>6
    <3> HIDE DEF l
    <3>5. l \in along
      BY <2>1, <3>3, <3>4
    <3>6. l[2][1] = z /\ l[2][2] <= view.min[2] /\ l[3][2] >= view.max[2]
      BY <1>2, <3>4 DEF Top
    <3> QED
      BY <2>1, <3>5, <3>6
  <2>2. CASE axis = 2
    <3>1. z \in Bottom(grid) .. Top - 1
      BY <1>2, <2>2 DEF Top
    <3>2. PICK k \in DOMAIN ys : ys[k] = z
      BY <1>4, <1>8, <3>1
    <3> DEFINE l == Across(grid, z)
    <3>3. l \in lines
      BY <1>3, <3>2
    <3>4. l[2] = <<Left(grid), z>> /\ l[3] = <<Right, z>>
      BY <1>6
    <3> HIDE DEF l
    <3>5. l \in along
      BY <2>2, <3>3, <3>4
    <3>6. l[2][2] = z /\ l[2][1] <= view.min[1] /\ l[3][1] >= view.max[1]
      BY <1>2, <3>4 DEF Right
    <3> QED
      BY <2>2, <3>5, <3>6
  <2> QED
    BY <2>1, <2>2
<1> QED
  BY <1>7, <1>8 DEF grid, Multiple, lines

\* The grids of the code, and of any other spacing, fill the view, wherever the
\* camera looks and however large the window is.
THEOREM GridAlwaysFillsView == RendererSpec => []GridFillsView
<1>1. RendererInit => view \in Rectangle
  BY RendererAssumption DEF RendererInit, Rectangle
<1>2. view \in Rectangle /\ [RendererNext]_renderer => (view \in Rectangle)'
  BY RendererAssumption DEF Rectangle, RendererNext, renderer, SetupProgram, SetupShape, Render, EndFrame, BeginFrame
<1>3. view \in Rectangle => GridFillsView
  BY GridFills
<1> QED
  BY <1>1, <1>2, <1>3, PTL DEF RendererSpec

-----------------------------------------------------------------------------
(* GL. *)

Char == {"a", "b"}

\* What vertex arrays and buffers there are.
Name == Shape \cup {"font"}

\* What a buffer may hold, and what a matrix may tell.
Content == Shape \cup {"nothing"} \cup Char

Told == Matrix \cup {<<>>, <<"window">>} \cup Line

GL ==
  [program : Program \cup {"none"}, vao : Name \cup {"none"},
   array_buffer : Name \cup {"none"},
   source : [Name -> Name \cup {"none"}],
   data : [Name -> Content],
   matrix : [Program -> Told],
   linked : SUBSET Program]

\* Every vertex array takes its vertices from its own buffer, and the shapes are
\* in theirs.
Ready(g) ==
  /\ g \in GL
  /\ \A v \in Name : g.source[v] = v
  /\ \A s \in Shape : g.data[s] = s
  /\ g.linked = Program

LEMMA UseProgramReady ==
  ASSUME NEW g, Ready(g), NEW p \in Program, NEW h, h = UseProgram(g, p)
  PROVE  Ready(h) /\ h.program = p /\ h.vao = g.vao /\ h.matrix = g.matrix
<1>1. g \in GL
  BY DEF Ready
<1>2. h \in GL /\ h.program = p /\ h.vao = g.vao /\ h.matrix = g.matrix
      /\ h.source = g.source /\ h.data = g.data /\ h.linked = g.linked
  BY <1>1 DEF GL, UseProgram
<1> QED
  BY <1>2 DEF Ready

LEMMA BindVertexArrayReady ==
  ASSUME NEW g, Ready(g), NEW v \in Name, NEW h, h = BindVertexArray(g, v)
  PROVE  Ready(h) /\ h.program = g.program /\ h.vao = v /\ h.matrix = g.matrix
<1>1. g \in GL
  BY DEF Ready
<1>2. h \in GL /\ h.program = g.program /\ h.vao = v /\ h.matrix = g.matrix
      /\ h.source = g.source /\ h.data = g.data /\ h.linked = g.linked
  BY <1>1 DEF GL, BindVertexArray
<1> QED
  BY <1>2 DEF Ready

LEMMA UniformReady ==
  ASSUME NEW g, Ready(g), g.program \in Program, NEW m \in Told, NEW h, h = Uniform(g, m)
  PROVE  Ready(h) /\ h.program = g.program /\ h.vao = g.vao
         /\ h.matrix[g.program] = m
<1>1. g \in GL
  BY DEF Ready
<1>2. h \in GL /\ h.program = g.program /\ h.vao = g.vao /\ h.matrix[g.program] = m
      /\ h.source = g.source /\ h.data = g.data /\ h.linked = g.linked
  BY <1>1 DEF GL, Uniform
<1> QED
  BY <1>2 DEF Ready

\* The text has a buffer of its own: the shapes stay in theirs.
LEMMA DrawCharacterReady ==
  ASSUME NEW g, Ready(g), NEW c \in Char, NEW h, h = DrawCharacter(g, c)
  PROVE  Ready(h) /\ h.program = g.program /\ h.vao = g.vao /\ h.matrix = g.matrix
         /\ h.data["font"] = c
<1>1. g \in GL
  BY DEF Ready
<1> DEFINE b == BindBuffer(g, "font")
<1>2. b \in GL /\ b.program = g.program /\ b.vao = g.vao /\ b.matrix = g.matrix
      /\ b.source = g.source /\ b.data = g.data /\ b.linked = g.linked
      /\ b.array_buffer = "font"
  BY <1>1 DEF GL, BindBuffer, Name
<1>3. h = BufferData(b, c)
  BY DEF DrawCharacter
<1> HIDE DEF b
<1>4. h = [b EXCEPT !.data["font"] = c]
  BY <1>2, <1>3 DEF BufferData
<1>5. h \in GL /\ h.program = b.program /\ h.vao = b.vao /\ h.matrix = b.matrix
      /\ h.source = b.source /\ h.data = [b.data EXCEPT !["font"] = c]
      /\ h.linked = b.linked
  BY <1>2, <1>4 DEF GL, Name, Content
<1>6. "font" \in Name /\ "font" \notin Shape /\ Shape \subseteq Name /\ b.data \in [Name -> Content]
  BY <1>2 DEF Name, Shape, GL
<1>7. h.data["font"] = c /\ \A s \in Shape : h.data[s] = b.data[s]
  BY <1>5, <1>6
<1> QED
  BY <1>2, <1>5, <1>7 DEF Ready

LEMMA DrawsReady ==
  ASSUME NEW g, Ready(g), g.vao \in Name
  PROVE  /\ g.vao \in Shape => DrawArrays(g) = Picture(g.program, g.vao, g.matrix[g.program])
         /\ g.vao = "font" => DrawArrays(g) = Picture(g.program, g.data["font"], g.matrix[g.program])
BY DEF Ready, DrawArrays, Picture

\* Shapes and circles.
LEMMA ShapeDrawn ==
  ASSUME NEW g, Ready(g), NEW p \in Program, NEW v \in Shape, NEW m \in Told,
         NEW h, h = Uniform(BindVertexArray(UseProgram(g, p), v), m)
  PROVE  Ready(h) /\ DrawArrays(h) = Picture(p, v, m)
<1> DEFINE a == UseProgram(g, p)
           b == BindVertexArray(a, v)
<1>1. Ready(a) /\ a.program = p
  BY UseProgramReady
<1> HIDE DEF a
<1>2. v \in Name
  BY DEF Name
<1>3. Ready(b) /\ b.program = p /\ b.vao = v
  BY <1>1, <1>2, BindVertexArrayReady
<1>4. h = Uniform(b, m)
  BY DEF a
<1> HIDE DEF b
<1>5. Ready(h) /\ h.program = p /\ h.vao = v /\ h.matrix[p] = m
  BY <1>3, <1>4, UniformReady
<1> QED
  BY <1>2, <1>5, DrawsReady

Characters == INSTANCE FoldProofs WITH op <- NextCharacter

Lines == INSTANCE FoldProofs WITH op <- NextLine

\* What is drawn of a text when n of its characters are.
TextDrawn(r, msg, n) ==
  /\ Ready(r.gl) /\ r.gl.program = "font" /\ r.gl.vao = "font"
  /\ r.gl.matrix["font"] = <<"window">>
  /\ r.screen = [k \in 1 .. n |-> Picture("font", msg[k], <<"window">>)]

LEMMA TextGrows ==
  ASSUME NEW r, NEW msg \in Seq(Char), NEW n \in Nat, n + 1 <= Len(msg),
         TextDrawn(r, msg, n)
  PROVE  TextDrawn(NextCharacter(r, msg[n + 1]), msg, n + 1)
<1> DEFINE c == msg[n + 1]
           drawn == DrawCharacter(r.gl, c)
           next == NextCharacter(r, c)
           pictures == [k \in 1 .. n |-> Picture("font", msg[k], <<"window">>)]
<1>1. c \in Char
  OBVIOUS
<1> HIDE DEF c
<1>2. /\ Ready(drawn) /\ drawn.program = "font" /\ drawn.vao = "font"
      /\ drawn.matrix["font"] = <<"window">> /\ drawn.data["font"] = c
  <2> DEFINE g == r.gl
  <2>1. /\ Ready(g) /\ g.program = "font" /\ g.vao = "font"
        /\ g.matrix["font"] = <<"window">>
    BY DEF TextDrawn
  <2>2. drawn = DrawCharacter(g, c)
    OBVIOUS
  <2> HIDE DEF g, drawn
  <2>3. /\ Ready(drawn) /\ drawn.program = g.program /\ drawn.vao = g.vao
        /\ drawn.matrix = g.matrix /\ drawn.data["font"] = c
    BY ONLY <1>1, <2>1, <2>2, DrawCharacterReady
  <2> QED
    BY ONLY <2>1, <2>3
<1>3. next.gl = drawn /\ next.screen = Append(r.screen, DrawArrays(drawn))
  BY DEF NextCharacter
<1> HIDE DEF drawn, next
<1>4. DrawArrays(drawn) = Picture("font", c, <<"window">>)
  <2>1. drawn.vao \in Name
    BY <1>2 DEF Name
  <2> QED
    BY <1>2, <2>1, DrawsReady
<1>5. r.screen = pictures
  BY DEF TextDrawn
<1>6. Append(pictures, Picture("font", c, <<"window">>))
        = [k \in 1 .. n + 1 |-> Picture("font", msg[k], <<"window">>)]
  BY DEF c
<1> QED
  BY <1>2, <1>3, <1>4, <1>5, <1>6 DEF TextDrawn, next, c

LEMMA TextIsDrawn ==
  ASSUME Ready(gl), NEW msg \in Seq(Char)
  PROVE  LET r == RenderText(gl, msg)
         IN  /\ Ready(r.gl)
             /\ r.screen = [k \in DOMAIN msg |-> Picture("font", msg[k], <<"window">>)]
<1> DEFINE base == [gl |-> PrepareText(gl), screen |-> <<>>]
           first(n) == SubSeq(msg, 1, n)
           N == {n \in Nat : n <= Len(msg) => TextDrawn(Characters!Fold(base, first(n)), msg, n)}
<1>1. TextDrawn(base, msg, 0)
  <2> DEFINE a == UseProgram(gl, "font")
             b == BindVertexArray(a, "font")
             d == Uniform(b, <<"window">>)
  <2>1. "font" \in Program /\ "font" \in Name /\ <<"window">> \in Told
    BY DEF Program, Name, Told
  <2>2. Ready(a) /\ a.program = "font"
    BY <2>1, UseProgramReady
  <2> HIDE DEF a
  <2>3. Ready(b) /\ b.program = "font" /\ b.vao = "font"
    BY <2>1, <2>2, BindVertexArrayReady
  <2> HIDE DEF b
  <2>4. Ready(d) /\ d.program = "font" /\ d.vao = "font" /\ d.matrix["font"] = <<"window">>
    BY <2>1, <2>3, UniformReady
  <2> HIDE DEF d
  <2>5. base = [gl |-> d, screen |-> <<>>]
    BY DEF PrepareText, d, b, a
  <2>6. base.gl = d /\ base.screen = [k \in 1 .. 0 |-> Picture("font", msg[k], <<"window">>)]
    BY <2>5
  <2> QED
    BY <2>4, <2>6 DEF TextDrawn
<1> HIDE DEF base
<1>2. 0 \in N
  <2>1. first(0) = <<>>
    OBVIOUS
  <2>2. Characters!Fold(base, <<>>) = base
    BY Characters!FoldEmpty
  <2> QED
    BY <1>1, <2>1, <2>2
<1>3. ASSUME NEW n \in Nat, n \in N
      PROVE  n + 1 \in N
  <2>1. SUFFICES ASSUME n + 1 <= Len(msg)
                 PROVE  TextDrawn(Characters!Fold(base, first(n + 1)), msg, n + 1)
    OBVIOUS
  <2>2. TextDrawn(Characters!Fold(base, first(n)), msg, n)
    BY <1>3, <2>1
  <2>3. Characters!Fold(base, SubSeq(msg, 1, n + 1))
          = NextCharacter(Characters!Fold(base, SubSeq(msg, 1, n)), msg[n + 1])
    BY <2>1, Characters!FoldPrefix
  <2> QED
    BY <2>1, <2>2, <2>3, TextGrows
<1>4. Nat \subseteq N
  <2> HIDE DEF N
  <2> QED
    BY <1>2, <1>3, Characters!NatSetInduction
<1>5. TextDrawn(Characters!Fold(base, first(Len(msg))), msg, Len(msg))
  <2>1. Len(msg) \in Nat
    OBVIOUS
  <2> QED
    BY <1>4, <2>1
<1>6. first(Len(msg)) = msg
  OBVIOUS
<1>7. RenderText(gl, msg) = Characters!Fold(base, msg)
  BY DEF RenderText, base, FoldLeft, MapThenFoldSet, Max, Characters!Fold,
     Characters!FoldLeft, Characters!MapThenFoldSet, Characters!Max
<1>8. TextDrawn(RenderText(gl, msg), msg, Len(msg))
  BY <1>5, <1>6, <1>7, Zenon
<1>9. DOMAIN msg = 1 .. Len(msg)
  OBVIOUS
<1> QED
  BY <1>8, <1>9 DEF TextDrawn

\* What is drawn of a grid when n of its lines are.
GridDrawn(r, lines, n) ==
  /\ Ready(r.gl) /\ r.gl.program = "geometry" /\ r.gl.vao = "line"
  /\ r.screen = [k \in 1 .. n |-> Picture("geometry", "line", lines[k])]

LEMMA GridGrows ==
  ASSUME NEW r, NEW lines \in Seq(Line), NEW n \in Nat, n + 1 <= Len(lines),
         GridDrawn(r, lines, n)
  PROVE  GridDrawn(NextLine(r, lines[n + 1]), lines, n + 1)
<1> DEFINE m == lines[n + 1]
           drawn == Uniform(r.gl, m)
           next == NextLine(r, m)
           pictures == [k \in 1 .. n |-> Picture("geometry", "line", lines[k])]
<1>1. m \in Line /\ m \in Told
  BY DEF Told
<1> HIDE DEF m
<1>2. /\ Ready(drawn) /\ drawn.program = "geometry" /\ drawn.vao = "line"
      /\ drawn.matrix["geometry"] = m
  <2> DEFINE g == r.gl
  <2>1. Ready(g) /\ g.program = "geometry" /\ g.vao = "line" /\ g.program \in Program
    BY DEF GridDrawn, Program
  <2>2. drawn = Uniform(g, m)
    OBVIOUS
  <2> HIDE DEF g, drawn
  <2> QED
    BY <1>1, <2>1, <2>2, UniformReady
<1>3. next.gl = drawn /\ next.screen = Append(r.screen, DrawArrays(drawn))
  BY DEF NextLine
<1> HIDE DEF drawn, next
<1>4. DrawArrays(drawn) = Picture("geometry", "line", m)
  <2>1. drawn.vao \in Name /\ drawn.vao \in Shape
    BY <1>2 DEF Name, Shape
  <2> QED
    BY <1>2, <2>1, DrawsReady
<1>5. r.screen = pictures
  BY DEF GridDrawn
<1>6. Append(pictures, Picture("geometry", "line", m))
        = [k \in 1 .. n + 1 |-> Picture("geometry", "line", lines[k])]
  BY DEF m
<1> QED
  BY <1>2, <1>3, <1>4, <1>5, <1>6 DEF GridDrawn, next, m

LEMMA GridIsDrawn ==
  ASSUME Ready(gl), view \in Rectangle, NEW grid \in Nat \ {0}
  PROVE  LET r == RenderGrid(gl, grid)
             lines == GridLines(grid)
         IN  /\ Ready(r.gl)
             /\ lines \in Seq(Line)
             /\ r.screen = [k \in DOMAIN lines |-> Picture("geometry", "line", lines[k])]
<1> DEFINE base == [gl |-> PrepareGrid(gl), screen |-> <<>>]
           lines == GridLines(grid)
           first(n) == SubSeq(lines, 1, n)
           N == {n \in Nat : n <= Len(lines) => GridDrawn(Lines!Fold(base, first(n)), lines, n)}
<1>1. GridDrawn(base, lines, 0)
  <2> DEFINE a == UseProgram(gl, "geometry")
             b == BindVertexArray(a, "line")
  <2>1. "geometry" \in Program /\ "line" \in Name
    BY DEF Program, Name, Shape
  <2>2. Ready(a) /\ a.program = "geometry"
    BY <2>1, UseProgramReady
  <2> HIDE DEF a
  <2>3. Ready(b) /\ b.program = "geometry" /\ b.vao = "line"
    BY <2>1, <2>2, BindVertexArrayReady
  <2> HIDE DEF b
  <2>4. base = [gl |-> b, screen |-> <<>>]
    BY DEF PrepareGrid, b, a
  <2> HIDE DEF lines
  <2>5. base.gl = b
        /\ base.screen = [k \in 1 .. 0 |-> Picture("geometry", "line", lines[k])]
    BY <2>4
  <2> QED
    BY <2>3, <2>5 DEF GridDrawn
<1>2. lines \in Seq(Line)
  <2>1. LinesAre(lines, grid)
    BY LinesOfGrid
  <2> QED
    BY <2>1 DEF LinesAre
<1>3. RenderGrid(gl, grid) = Lines!Fold(base, lines)
  BY DEF RenderGrid, FoldLeft, MapThenFoldSet, Max, Lines!Fold,
     Lines!FoldLeft, Lines!MapThenFoldSet, Lines!Max
<1> HIDE DEF base, lines
<1>4. 0 \in N
  <2>1. first(0) = <<>>
    BY <1>2
  <2>2. Lines!Fold(base, <<>>) = base
    BY Lines!FoldEmpty
  <2> QED
    BY <1>1, <2>1, <2>2
<1>5. ASSUME NEW n \in Nat, n \in N
      PROVE  n + 1 \in N
  <2>1. SUFFICES ASSUME n + 1 <= Len(lines)
                 PROVE  GridDrawn(Lines!Fold(base, first(n + 1)), lines, n + 1)
    OBVIOUS
  <2>2. GridDrawn(Lines!Fold(base, first(n)), lines, n)
    BY <1>2, <1>5, <2>1
  <2>3. Lines!Fold(base, SubSeq(lines, 1, n + 1))
          = NextLine(Lines!Fold(base, SubSeq(lines, 1, n)), lines[n + 1])
    BY <1>2, <2>1, Lines!FoldPrefix
  <2> QED
    BY <1>2, <2>1, <2>2, <2>3, GridGrows
<1>6. Nat \subseteq N
  <2> HIDE DEF N
  <2> QED
    BY <1>4, <1>5, Lines!NatSetInduction
<1>7. GridDrawn(Lines!Fold(base, first(Len(lines))), lines, Len(lines))
  <2>1. Len(lines) \in Nat
    BY <1>2
  <2> QED
    BY <1>6, <2>1
<1>8. first(Len(lines)) = lines
  BY <1>2
<1>9. GridDrawn(RenderGrid(gl, grid), lines, Len(lines))
  BY <1>3, <1>7, <1>8, Zenon
<1>10. DOMAIN lines = 1 .. Len(lines)
  BY <1>2
<1> QED
  BY <1>2, <1>9, <1>10 DEF GridDrawn, lines

-----------------------------------------------------------------------------
(* What is asked for, and what GL then shows. *)

Item ==
  [kind : {"text"}, msg : Seq(Char)] \cup SceneItem
    \cup [kind : {"grid"}, grid : Nat \ {0}]

AnyPicture ==
  [program : Program, shape : Shape \cup Char, matrix : Told]

\* Drawing one item shows what is meant by it, and leaves GL as ready.
LEMMA ItemIsDrawn ==
  ASSUME Ready(gl), view \in Rectangle, NEW item \in Item
  PROVE  LET r == RenderItem(item)
         IN  /\ Ready(r.gl)
             /\ r.screen = Meant(item)
             /\ Meant(item) \in Seq(AnyPicture)
<1>1. CASE item \in [kind : {"text"}, msg : Seq(Char)]
  <2> DEFINE r == RenderText(gl, item.msg)
             msg == item.msg
  <2>1. item.kind = "text" /\ msg \in Seq(Char)
    BY <1>1
  <2>2. RenderItem(item) = r
    BY <2>1 DEF RenderItem
  <2>3. Meant(item) = [k \in DOMAIN msg |-> Picture("font", msg[k], <<"window">>)]
    BY <2>1 DEF Meant
  <2> HIDE DEF msg
  <2>4. Ready(r.gl)
        /\ r.screen = [k \in DOMAIN msg |-> Picture("font", msg[k], <<"window">>)]
    BY <2>1, TextIsDrawn DEF msg
  <2>5. [k \in DOMAIN msg |-> Picture("font", msg[k], <<"window">>)] \in Seq(AnyPicture)
    <3>1. \A k \in 1 .. Len(msg) : Picture("font", msg[k], <<"window">>) \in AnyPicture
      BY <2>1 DEF AnyPicture, Picture, Program, Told
    <3>2. Len(msg) \in Nat /\ DOMAIN msg = 1 .. Len(msg)
      BY <2>1
    <3> QED
      BY <3>1, <3>2
  <2> HIDE DEF r
  <2> QED
    BY <2>2, <2>3, <2>4, <2>5
<1>2. CASE item \in [kind : {"shape"}, shape : Shape, matrix : Matrix]
  <2> DEFINE h == Uniform(BindVertexArray(UseProgram(gl, "geometry"), item.shape), item.matrix)
             shape == item.shape
             m == item.matrix
  <2>1. item.kind = "shape" /\ shape \in Shape /\ m \in Told /\ "geometry" \in Program
    BY <1>2 DEF Told, Program
  <2>2. RenderItem(item) = RenderShape(gl, item)
    BY <2>1 DEF RenderItem
  <2>3. RenderShape(gl, item) = [gl |-> h, screen |-> <<DrawArrays(h)>>]
    BY DEF RenderShape
  <2>4. Meant(item) = <<Picture("geometry", shape, m)>>
    BY <2>1 DEF Meant
  <2>5. Ready(h) /\ DrawArrays(h) = Picture("geometry", shape, m)
    <3> HIDE DEF shape, m
    <3>1. \A g : g = Uniform(BindVertexArray(UseProgram(gl, "geometry"), shape), m)
                   => Ready(g) /\ DrawArrays(g) = Picture("geometry", shape, m)
      BY <2>1, ShapeDrawn
    <3> QED
      BY <3>1 DEF shape, m
  <2> HIDE DEF h, shape, m
  <2>6. <<Picture("geometry", shape, m)>> \in Seq(AnyPicture)
    BY <2>1 DEF AnyPicture, Picture, Program
  <2> QED
    BY <2>2, <2>3, <2>4, <2>5, <2>6
<1>3. CASE item \in [kind : {"circle"}, matrix : Matrix]
  <2> DEFINE h == Uniform(BindVertexArray(UseProgram(gl, "circle"), "rectangle"), item.matrix)
             m == item.matrix
  <2>1. item.kind = "circle" /\ "rectangle" \in Shape /\ m \in Told /\ "circle" \in Program
    BY <1>3 DEF Told, Program, Shape
  <2>2. RenderItem(item) = RenderCircle(gl, item)
    BY <2>1 DEF RenderItem
  <2>3. RenderCircle(gl, item) = [gl |-> h, screen |-> <<DrawArrays(h)>>]
    BY DEF RenderCircle
  <2>4. Meant(item) = <<Picture("circle", "rectangle", m)>>
    BY <2>1 DEF Meant
  <2>5. Ready(h) /\ DrawArrays(h) = Picture("circle", "rectangle", m)
    <3> HIDE DEF m
    <3>1. \A g : g = Uniform(BindVertexArray(UseProgram(gl, "circle"), "rectangle"), m)
                   => Ready(g) /\ DrawArrays(g) = Picture("circle", "rectangle", m)
      BY <2>1, ShapeDrawn
    <3> QED
      BY <3>1 DEF m
  <2> HIDE DEF h, m
  <2>6. <<Picture("circle", "rectangle", m)>> \in Seq(AnyPicture)
    BY <2>1 DEF AnyPicture, Picture, Program
  <2> QED
    BY <2>2, <2>3, <2>4, <2>5, <2>6
<1>4. CASE item \in [kind : {"grid"}, grid : Nat \ {0}]
  <2> DEFINE grid == item.grid
             r == RenderGrid(gl, grid)
             lines == GridLines(grid)
  <2>1. item.kind = "grid" /\ grid \in Nat \ {0}
    BY <1>4
  <2>2. RenderItem(item) = r
    BY <2>1 DEF RenderItem
  <2>3. Meant(item) = [k \in DOMAIN lines |-> Picture("geometry", "line", lines[k])]
    BY <2>1 DEF Meant
  <2> HIDE DEF grid
  <2>4. Ready(r.gl) /\ lines \in Seq(Line)
        /\ r.screen = [k \in DOMAIN lines |-> Picture("geometry", "line", lines[k])]
    BY <2>1, GridIsDrawn
  <2> HIDE DEF r, lines
  <2>5. [k \in DOMAIN lines |-> Picture("geometry", "line", lines[k])] \in Seq(AnyPicture)
    <3>1. \A k \in 1 .. Len(lines) : Picture("geometry", "line", lines[k]) \in AnyPicture
      BY <2>4 DEF AnyPicture, Picture, Program, Shape, Told
    <3>2. Len(lines) \in Nat /\ DOMAIN lines = 1 .. Len(lines)
      BY <2>4
    <3> QED
      BY <3>1, <3>2
  <2> QED
    BY <2>2, <2>3, <2>4, <2>5
<1> QED
  BY <1>1, <1>2, <1>3, <1>4 DEF Item, SceneItem

-----------------------------------------------------------------------------
(* The renderer. *)

\* What a step of gfx::Initialize leaves behind.
IsSetUp(g, step) ==
  /\ step \in Program => step \in g.linked
  /\ step \in Name => g.source[step] = step
  /\ step \in Shape => g.data[step] = step

RendererTypeOK ==
  /\ setup \in 1 .. 9
  /\ status \in BOOLEAN
  /\ phase \in {"setup", "frame", "render", "exit1", "abort"}
  /\ gl \in GL
  /\ view \in Rectangle
  /\ todo \in Seq(Item)
  /\ asked \in Seq(Item)

\* Who draws has been set up without a failure.
SetupInv ==
  /\ phase \in {"setup", "abort"} =>
       setup <= 8 /\ rendered = 0 /\ screen = <<>> /\ asked = <<>> /\ todo = <<>>
  /\ phase \in {"frame", "render"} => setup = 9 /\ status
  /\ status => \A i \in 1 .. setup - 1 : IsSetUp(gl, Setup[i])

\* What is still to be drawn is the end of what was asked for.
TodoInv ==
  /\ Len(todo) <= Len(asked)
  /\ \A k \in 1 .. Len(todo) : todo[k] = asked[Len(asked) - Len(todo) + k]

RendererInv ==
  /\ RendererTypeOK
  /\ SetupInv
  /\ TodoInv
  /\ phase = "render" => Len(text) = messages
  /\ DrawsWhatIsMeant

LEMMA SetupSteps ==
  /\ Len(Setup) = 8
  /\ \A i \in 1 .. 8 : Setup[i] \in Program \cup Shape
  /\ \A s \in Program \cup Shape : \E i \in 1 .. 8 : Setup[i] = s
<1>1. /\ Setup[1] = "geometry" /\ Setup[2] = "circle" /\ Setup[3] = "triangle"
      /\ Setup[4] = "rectangle" /\ Setup[5] = "line" /\ Setup[6] = "font"
      /\ Setup[7] = "asteroid" /\ Setup[8] = "pod" /\ Len(Setup) = 8
  BY DEF Setup
<1>2. \A i \in 1 .. 8 : i = 1 \/ i = 2 \/ i = 3 \/ i = 4 \/ i = 5 \/ i = 6 \/ i = 7 \/ i = 8
  OBVIOUS
<1> QED
  BY <1>1, <1>2 DEF Program, Shape

\* GL is ready when every step has been taken.
LEMMA AllSetUp ==
  ASSUME NEW g \in GL, \A i \in 1 .. 8 : IsSetUp(g, Setup[i])
  PROVE  Ready(g)
<1>1. \A s \in Program \cup Shape : IsSetUp(g, s)
  BY SetupSteps
<1>2. Name \subseteq Program \cup Shape /\ Shape \subseteq Name
  BY DEF Name, Program, Shape
<1>3. g.linked \subseteq Program
  BY DEF GL
<1> QED
  BY <1>1, <1>2, <1>3 DEF IsSetUp, Ready

\* A shape gets a vertex array and a buffer, and no other loses its own.
LEMMA ShapeSetUp ==
  ASSUME NEW g \in GL, NEW s \in Shape, NEW h, h = CreateGeometryVAO(g, s)
  PROVE  /\ h \in GL
         /\ IsSetUp(h, s)
         /\ \A step \in Program \cup Shape : IsSetUp(g, step) => IsSetUp(h, step)
<1> DEFINE a == BindBuffer(g, s)
           b == BufferData(a, s)
           c == BindVertexArray(b, s)
           d == BindBuffer(c, s)
<1>1. s \in Name /\ s \in Content /\ s \notin Program
  BY DEF Name, Content, Shape, Program
<1>2. a \in GL /\ a.array_buffer = s /\ a.source = g.source /\ a.data = g.data
      /\ a.linked = g.linked
  BY <1>1 DEF GL, BindBuffer
<1>3. b = [a EXCEPT !.data[s] = s]
  BY <1>2 DEF BufferData
<1> HIDE DEF a
<1>4. b \in GL /\ b.source = g.source /\ b.data = [g.data EXCEPT ![s] = s]
      /\ b.linked = g.linked
  <2> HIDE DEF b
  <2> QED
    BY <1>1, <1>2, <1>3 DEF GL
<1> HIDE DEF b
<1>5. c \in GL /\ c.vao = s /\ c.source = g.source /\ c.data = b.data /\ c.linked = g.linked
  BY <1>1, <1>4 DEF GL, BindVertexArray
<1> HIDE DEF c
<1>6. d \in GL /\ d.vao = s /\ d.array_buffer = s /\ d.source = g.source
      /\ d.data = b.data /\ d.linked = g.linked
  BY <1>1, <1>5 DEF GL, BindBuffer
<1>7. h = VertexAttribPointer(d)
  BY DEF CreateGeometryVAO, a, b, c
<1> HIDE DEF d
<1>8. h = [d EXCEPT !.source[s] = s]
  BY <1>6, <1>7 DEF VertexAttribPointer
<1>9. h \in GL /\ h.source = [g.source EXCEPT ![s] = s] /\ h.data = b.data
      /\ h.linked = g.linked
  BY <1>1, <1>6, <1>8 DEF GL
<1>10. g.source \in [Name -> Name \cup {"none"}] /\ g.data \in [Name -> Content]
       /\ Shape \subseteq Name
  BY DEF GL, Name
<1> QED
  BY <1>1, <1>4, <1>9, <1>10 DEF IsSetUp

\* So does the font.
LEMMA FontSetUp ==
  ASSUME NEW g \in GL, NEW h, h = CreateFontVAO(g)
  PROVE  /\ h \in GL
         /\ h.source["font"] = "font"
         /\ h.linked = g.linked
         /\ \A step \in Program \cup Shape : IsSetUp(g, step) => IsSetUp(h, step)
<1> DEFINE a == BindVertexArray(g, "font")
           b == BindBuffer(a, "font")
<1>1. "font" \in Name
  BY DEF Name
<1>2. a \in GL /\ a.vao = "font" /\ a.source = g.source /\ a.data = g.data
      /\ a.linked = g.linked
  BY <1>1 DEF GL, BindVertexArray
<1> HIDE DEF a
<1>3. b \in GL /\ b.vao = "font" /\ b.array_buffer = "font" /\ b.source = g.source
      /\ b.data = g.data /\ b.linked = g.linked
  BY <1>1, <1>2 DEF GL, BindBuffer
<1>4. h = VertexAttribPointer(b)
  BY DEF CreateFontVAO, a
<1> HIDE DEF b
<1>5. h = [b EXCEPT !.source["font"] = "font"]
  BY <1>3, <1>4 DEF VertexAttribPointer
<1>6. h \in GL /\ h.source = [g.source EXCEPT !["font"] = "font"] /\ h.data = g.data
      /\ h.linked = g.linked
  BY <1>1, <1>3, <1>5 DEF GL
<1>7. g.source \in [Name -> Name \cup {"none"}] /\ g.data \in [Name -> Content]
  BY DEF GL
<1> QED
  BY <1>1, <1>6, <1>7 DEF IsSetUp

LEMMA RendererInitHolds == RendererInit => RendererInv
<1> SUFFICES ASSUME RendererInit PROVE RendererInv
  OBVIOUS
<1>1. gl \in GL
  BY DEF RendererInit, GL, Name, Content, Told
<1>2. view \in Rectangle
  BY RendererAssumption DEF RendererInit, Rectangle
<1>3. todo = <<>> /\ asked = <<>> /\ screen = <<>> /\ Len(asked) - Len(todo) = 0
  BY DEF RendererInit
<1>4. RendererTypeOK
  BY <1>1, <1>2, <1>3 DEF RendererInit, RendererTypeOK
<1>5. SetupInv
  BY <1>3 DEF RendererInit, SetupInv
<1>6. TodoInv
  BY <1>3 DEF TodoInv
<1>7. DrawsWhatIsMeant
  BY DEF RendererInit, DrawsWhatIsMeant
<1> QED
  BY <1>4, <1>5, <1>6, <1>7 DEF RendererInit, RendererInv

\* A step of gfx::Initialize: the next one sets up one thing more.
LEMMA SetupStepped ==
  ASSUME RendererInv, phase = "setup",
         gl' \in GL, status' \in BOOLEAN,
         \/ NextStep(setup + 1) /\ (status' => status /\ IsSetUp(gl', Setup[setup]))
         \/ NextStep(FirstRenderable) /\ ~status'
         \/ phase' = "abort" /\ UNCHANGED <<setup, status, gl>>,
         status' => \A step \in Program \cup Shape : IsSetUp(gl, step) => IsSetUp(gl', step),
         UNCHANGED <<text, view, todo, screen, asked, messages, rendered>>
  PROVE  RendererInv'
<1>1. setup \in 1 .. 8 /\ rendered = 0 /\ screen = <<>> /\ asked = <<>> /\ todo = <<>>
  BY DEF RendererInv, RendererTypeOK, SetupInv
<1>2. /\ setup' \in 1 .. 9
      /\ phase' \in {"setup", "frame", "exit1", "abort"}
      /\ phase' \in {"setup", "abort"} => setup' <= 8
      /\ phase' = "frame" => setup' = 9 /\ status'
  BY <1>1, SetupSteps DEF NextStep, FirstRenderable
<1>3. status' => \A i \in 1 .. setup' - 1 : IsSetUp(gl, Setup[i])'
  <2>1. SUFFICES ASSUME status', NEW i \in 1 .. setup' - 1
                 PROVE  IsSetUp(gl', Setup[i])
    BY DEF IsSetUp, Setup
  <2>2. /\ status
        /\ \/ setup' = setup /\ gl' = gl
           \/ setup' = setup + 1 /\ IsSetUp(gl', Setup[setup])
    BY <2>1 DEF NextStep
  <2>3. CASE i = setup
    BY <1>1, <2>1, <2>2, <2>3
  <2>4. CASE i # setup
    <3>1. i \in 1 .. setup - 1
      BY <1>1, <2>1, <2>2, <2>4
    <3>2. IsSetUp(gl, Setup[i]) /\ Setup[i] \in Program \cup Shape
      BY <1>1, <2>2, <3>1, SetupSteps DEF RendererInv, SetupInv
    <3> QED
      BY <2>1, <3>2
  <2> QED
    BY <2>3, <2>4
<1>4. RendererTypeOK'
  BY <1>2 DEF RendererInv, RendererTypeOK
<1>5. SetupInv'
  BY <1>1, <1>2, <1>3 DEF SetupInv
<1>6. TodoInv'
  BY DEF RendererInv, TodoInv
<1>7. DrawsWhatIsMeant'
  <2>1. (asked = <<>> /\ todo = <<>>)' /\ Len(asked') - Len(todo') = 0 /\ screen' = <<>>
    BY <1>1
  <2>2. FlattenSeq([k \in 1 .. Len(asked') - Len(todo') |-> Meant(asked[k])'])  = <<>>
    <3>1. [k \in 1 .. 0 |-> Meant(asked[k])'] = <<>>
      OBVIOUS
    <3>2. FlattenSeq(<<>>) = <<>>
      BY DEF FlattenSeq
    <3> QED
      BY <2>1, <3>1, <3>2
  <2> QED
    BY <2>1, <2>2 DEF DrawsWhatIsMeant
<1>8. (phase = "render" => Len(text) = messages)'
  BY <1>2
<1> QED
  BY <1>4, <1>5, <1>6, <1>7, <1>8 DEF RendererInv

LEMMA SetupProgramStep == ASSUME RendererInv, SetupProgram PROVE RendererInv'
<1> DEFINE s == Setup[setup]
<1>1. /\ gl \in GL /\ phase = "setup" /\ s \in Program /\ status \in BOOLEAN
      /\ UNCHANGED <<text, view, todo, screen, asked, messages, rendered>>
  BY DEF RendererInv, RendererTypeOK, SetupProgram
<1>2. CASE /\ gl' = LET linked == [gl EXCEPT !.linked = @ \cup {s}]
                    IN  IF s = "font" THEN CreateFontVAO(linked) ELSE linked
           /\ NextStep(setup + 1)
           /\ UNCHANGED status
  <2> DEFINE linked == [gl EXCEPT !.linked = @ \cup {s}]
  <2> HIDE DEF s
  <2>1. /\ linked \in GL /\ linked.source = gl.source /\ linked.data = gl.data
        /\ linked.linked = gl.linked \cup {s}
    BY <1>1 DEF GL
  <2>2. gl' = IF s = "font" THEN CreateFontVAO(linked) ELSE linked
    BY <1>2
  <2> HIDE DEF linked
  <2>3. \A step : IsSetUp(gl, step) => IsSetUp(linked, step)
    BY <2>1 DEF IsSetUp
  <2>4. s # "font" => s \notin Name
    BY <1>1 DEF Program, Name, Shape
  <2>5. "font" \notin Shape
    BY DEF Shape
  <2>6. /\ gl' \in GL /\ IsSetUp(gl', s)
        /\ \A step \in Program \cup Shape : IsSetUp(gl, step) => IsSetUp(gl', step)
    <3>1. CASE s = "font"
      <4>1. gl' = CreateFontVAO(linked)
        BY <2>2, <3>1
      <4>2. /\ gl' \in GL
            /\ gl'.source["font"] = "font"
            /\ gl'.linked = linked.linked
            /\ \A step \in Program \cup Shape : IsSetUp(linked, step) => IsSetUp(gl', step)
        BY <2>1, <4>1, FontSetUp
      <4> QED
        BY <2>1, <2>3, <2>5, <3>1, <4>2 DEF IsSetUp
    <3>2. CASE s # "font"
      <4>1. gl' = linked
        BY <2>2, <3>2
      <4>2. s \notin Name /\ s \notin Shape
        BY <2>4, <3>2 DEF Name
      <4>3. IsSetUp(linked, s)
        BY <2>1, <4>2 DEF IsSetUp
      <4> QED
        BY <2>1, <2>3, <4>1, <4>3
    <3> QED
      BY <3>1, <3>2
  <2> QED
    BY <1>1, <1>2, <2>6, SetupStepped DEF s
<1>3. CASE status' = FALSE /\ NextStep(FirstRenderable) /\ UNCHANGED gl
  BY <1>1, <1>3, SetupStepped
<1>4. CASE phase' = "abort" /\ UNCHANGED <<setup, status, gl>>
  BY <1>1, <1>4, SetupStepped
<1> QED
  BY <1>2, <1>3, <1>4 DEF SetupProgram

LEMMA SetupShapeStep == ASSUME RendererInv, SetupShape PROVE RendererInv'
<1> DEFINE s == Setup[setup]
<1>1. /\ gl \in GL /\ phase = "setup" /\ s \in Shape /\ status \in BOOLEAN
      /\ UNCHANGED <<text, view, todo, screen, asked, messages, rendered>>
      /\ gl' = CreateGeometryVAO(gl, s) /\ status' = status /\ NextStep(setup + 1)
  BY DEF RendererInv, RendererTypeOK, SetupShape
<1>2. /\ gl' \in GL /\ IsSetUp(gl', s)
      /\ \A step \in Program \cup Shape : IsSetUp(gl, step) => IsSetUp(gl', step)
  <2> HIDE DEF s
  <2> QED
    BY <1>1, ShapeSetUp
<1> QED
  BY <1>1, <1>2, SetupStepped

\* There is room for every message, and drawing begins with all there is to draw.
LEMMA BeginFrameStep ==
  ASSUME RendererInv, NEW scene \in Scenes, NEW v \in Views, NEW hovered \in 0 .. kMaxAsteroid,
         BeginFrame(scene, v, hovered)
  PROVE  RendererInv'
<1> DEFINE n == 3 + hovered
           pushed == [k \in 1 .. n |-> <<"a", "b">>]
<1>1. n \in Nat /\ n <= kMaxTextCount - 1 - 0 /\ messages' = n
  BY RendererAssumption DEF BeginFrame, PushText
<1>2. Reset = <<>> /\ Len(Reset) = 0 /\ Reset \o pushed = pushed
  BY <1>1 DEF Reset
<1>3. /\ phase' = "render"
      /\ text' = SubSeq(pushed, 1, n)
  BY <1>1, <1>2 DEF BeginFrame, PushText
<1>4. pushed \in Seq(Seq(Char)) /\ Len(pushed) = n
  <2>1. <<"a", "b">> \in Seq(Char)
    BY DEF Char
  <2> QED
    BY <1>1, <2>1
<1>5. text' \in Seq(Seq(Char)) /\ Len(text') = n
  <2> HIDE DEF pushed, n
  <2> QED
    BY <1>1, <1>3, <1>4
<1>6. TextItems \in Seq(Item)
  <2> DEFINE t == text'
  <2>1. \A k \in 1 .. Len(t) : [kind |-> "text", msg |-> t[k]] \in Item
    BY <1>5 DEF Item
  <2>2. Len(t) \in Nat /\ DOMAIN t = 1 .. Len(t)
    BY <1>5
  <2>3. TextItems = [k \in DOMAIN t |-> [kind |-> "text", msg |-> t[k]]]
    BY DEF TextItems
  <2> HIDE DEF t
  <2> QED
    BY <2>1, <2>2, <2>3
<1>7. scene \in Seq(Item)
  BY RendererAssumption DEF Item
<1>8. GridItems \in Seq(Item)
  <2>1. \A k \in 1 .. Len(Spacing) : [kind |-> "grid", grid |-> Spacing[k]] \in Item
    BY RendererAssumption DEF Item
  <2>2. Len(Spacing) \in Nat /\ DOMAIN Spacing = 1 .. Len(Spacing)
    BY RendererAssumption
  <2> QED
    BY <2>1, <2>2 DEF GridItems
<1>9. todo' \in Seq(Item) /\ asked' = todo' /\ screen' = <<>>
      /\ Len(asked') - Len(todo') = 0
  BY <1>6, <1>7, <1>8 DEF BeginFrame
<1>10. phase = "frame" /\ view' = v /\ UNCHANGED <<setup, status, gl>>
  BY DEF BeginFrame
<1>11. RendererTypeOK'
  <2>1. v \in Rectangle
    BY RendererAssumption DEF Rectangle
  <2> QED
    BY <1>3, <1>9, <1>10, <2>1 DEF RendererInv, RendererTypeOK
<1>12. SetupInv'
  BY <1>3, <1>10 DEF RendererInv, SetupInv, IsSetUp, Setup
<1>13. TodoInv'
  BY <1>9 DEF TodoInv
<1>14. DrawsWhatIsMeant'
  <2>1. FlattenSeq([k \in 1 .. Len(asked') - Len(todo') |-> Meant(asked[k])']) = <<>>
    <3>1. [k \in 1 .. 0 |-> Meant(asked[k])'] = <<>>
      OBVIOUS
    <3>2. FlattenSeq(<<>>) = <<>>
      BY DEF FlattenSeq
    <3> QED
      BY <1>9, <3>1, <3>2
  <2> QED
    BY <1>9, <2>1 DEF DrawsWhatIsMeant
<1>15. (phase = "render" => Len(text) = messages)'
  BY <1>1, <1>5
<1> QED
  BY <1>11, <1>12, <1>13, <1>14, <1>15 DEF RendererInv

LEMMA RenderStep == ASSUME RendererInv, Render PROVE RendererInv'
<1> DEFINE item == Head(todo)
           d == Len(asked) - Len(todo)
           r == RenderItem(item)
           shown == [k \in 1 .. d |-> Meant(asked[k])]
<1>1. /\ phase = "render" /\ todo # <<>> /\ gl' = r.gl /\ screen' = screen \o r.screen
      /\ todo' = Tail(todo)
      /\ UNCHANGED <<setup, status, phase, text, view, asked, messages, rendered>>
  BY DEF Render
<1>2. /\ todo \in Seq(Item) /\ asked \in Seq(Item) /\ view \in Rectangle /\ gl \in GL
      /\ Len(todo) <= Len(asked)
      /\ \A k \in 1 .. Len(todo) : todo[k] = asked[Len(asked) - Len(todo) + k]
  BY DEF RendererInv, RendererTypeOK, TodoInv
<1>3. Ready(gl)
  <2>1. setup = 9 /\ status /\ \A i \in 1 .. setup - 1 : IsSetUp(gl, Setup[i])
    BY <1>1 DEF RendererInv, SetupInv
  <2>2. \A i \in 1 .. 8 : IsSetUp(gl, Setup[i])
    BY <2>1
  <2> QED
    BY <1>2, <2>2, AllSetUp
<1>4. /\ item \in Item /\ d \in Nat /\ d + 1 <= Len(asked) /\ item = asked[d + 1]
      /\ Len(asked') - Len(todo') = d + 1
  <2>1. Len(todo) \in Nat \ {0} /\ Len(Tail(todo)) = Len(todo) - 1 /\ Len(asked) \in Nat
        /\ item = todo[1] /\ item \in Item
    BY <1>1, <1>2
  <2>2. todo[1] = asked[Len(asked) - Len(todo) + 1]
    BY <1>2, <2>1
  <2> QED
    BY <1>1, <1>2, <2>1, <2>2
<1> HIDE DEF item
<1>5. Ready(r.gl) /\ r.screen = Meant(item) /\ Meant(item) \in Seq(AnyPicture)
  BY <1>2, <1>3, <1>4, ItemIsDrawn
<1> HIDE DEF r, d
<1>6. screen = FlattenSeq(shown)
  BY <1>1 DEF RendererInv, DrawsWhatIsMeant, d
<1>7. shown \in Seq(Seq(AnyPicture))
  <2>1. ASSUME NEW k \in 1 .. d
        PROVE  Meant(asked[k]) \in Seq(AnyPicture)
    <3>1. asked[k] \in Item
      BY <1>2, <1>4
    <3> DEFINE one == asked[k]
    <3> HIDE DEF one
    <3>2. Meant(one) \in Seq(AnyPicture)
      BY <1>2, <1>3, <3>1, ItemIsDrawn DEF one
    <3> QED
      BY <3>2 DEF one
  <2> QED
    BY <1>4, <2>1
<1>8. [k \in 1 .. d + 1 |-> Meant(asked[k])] = Append(shown, Meant(item))
  BY <1>4
<1> HIDE DEF shown
<1>9. FlattenSeq(Append(shown, Meant(item))) = FlattenSeq(shown) \o Meant(item)
  <2>1. \A t : FlattenSeq(t) = Lines!FlattenSeq(t)
    BY DEF FlattenSeq, Lines!FlattenSeq
  <2>2. \A x \in Seq(AnyPicture) : Lines!FlattenSeq(Append(shown, x)) = Lines!FlattenSeq(shown) \o x
    BY <1>7, Lines!FlattenAppend
  <2> QED
    BY <1>5, <2>1, <2>2
<1>10. screen' = FlattenSeq([k \in 1 .. d + 1 |-> Meant(asked[k])])
  BY <1>1, <1>5, <1>6, <1>8, <1>9
<1>11. DrawsWhatIsMeant'
  <2>1. \A one : Meant(one)' = Meant(one)
    <3>1. \A grid : GridLines(grid)' = GridLines(grid)
      BY <1>1 DEF GridLines, LineFromTo
    <3> QED
      BY <3>1 DEF Meant
  <2>2. [k \in 1 .. d + 1 |-> Meant(asked[k])'] = [k \in 1 .. d + 1 |-> Meant(asked[k])]
    BY <1>1, <2>1
  <2> QED
    BY <1>4, <1>10, <2>2 DEF DrawsWhatIsMeant
<1>12. RendererTypeOK'
  <2>1. gl' \in GL
    BY <1>1, <1>5 DEF Ready
  <2>2. todo' \in Seq(Item)
    BY <1>1, <1>2
  <2> QED
    BY <1>1, <2>1, <2>2 DEF RendererInv, RendererTypeOK
<1>13. SetupInv'
  <2>1. \A s : IsSetUp(gl', s)
    BY <1>1, <1>5 DEF Ready, IsSetUp
  <2> QED
    BY <1>1, <2>1 DEF RendererInv, SetupInv, Setup
<1>14. TodoInv'
  <2>1. /\ Len(todo) \in Nat \ {0} /\ Len(asked) \in Nat
        /\ Len(todo') = Len(todo) - 1
        /\ \A k \in 1 .. Len(todo') : todo'[k] = todo[k + 1]
    BY <1>1, <1>2
  <2>2. ASSUME NEW k \in 1 .. Len(todo')
        PROVE  todo'[k] = asked[Len(asked) - Len(todo') + k]
    <3>1. k + 1 \in 1 .. Len(todo) /\ todo'[k] = todo[k + 1]
      BY <2>1
    <3>2. todo[k + 1] = asked[Len(asked) - Len(todo) + (k + 1)]
      BY <1>2, <3>1
    <3>3. Len(asked) - Len(todo) + (k + 1) = Len(asked) - Len(todo') + k
      BY <2>1
    <3> QED
      BY <3>1, <3>2, <3>3
  <2>3. Len(todo') <= Len(asked)
    BY <1>2, <2>1
  <2> QED
    BY <1>1, <2>2, <2>3 DEF TodoInv
<1>15. (phase = "render" => Len(text) = messages)'
  BY <1>1 DEF RendererInv
<1> QED
  BY <1>11, <1>12, <1>13, <1>14, <1>15 DEF RendererInv

\* The invariant speaks of nothing else.
LEMMA RendererStutters ==
  ASSUME RendererInv,
         UNCHANGED <<setup, status, gl, text, view, todo, screen, asked, messages>>,
         \/ UNCHANGED <<phase, rendered>>
         \/ phase = "render" /\ phase' = "frame"
  PROVE  RendererInv'
<1>1. RendererTypeOK'
  BY DEF RendererInv, RendererTypeOK
<1>2. SetupInv'
  <2>1. \A s : IsSetUp(gl, s)' = IsSetUp(gl, s)
    BY DEF IsSetUp
  <2> QED
    BY <2>1 DEF RendererInv, SetupInv, Setup
<1>3. TodoInv'
  BY DEF RendererInv, TodoInv
<1>4. DrawsWhatIsMeant'
  <2>1. \A one : Meant(one)' = Meant(one)
    <3>1. \A grid : GridLines(grid)' = GridLines(grid)
      BY DEF GridLines, LineFromTo
    <3> QED
      BY <3>1 DEF Meant
  <2> QED
    BY <2>1 DEF RendererInv, DrawsWhatIsMeant
<1>5. (phase = "render" => Len(text) = messages)'
  BY DEF RendererInv
<1> QED
  BY <1>1, <1>2, <1>3, <1>4, <1>5 DEF RendererInv

LEMMA RendererInvHolds == RendererSpec => []RendererInv
<1>1. RendererInv /\ [RendererNext]_renderer => RendererInv'
  <2> SUFFICES ASSUME RendererInv, [RendererNext]_renderer PROVE RendererInv'
    OBVIOUS
  <2>1. CASE UNCHANGED renderer
    BY <2>1, RendererStutters DEF renderer
  <2>2. CASE EndFrame
    BY <2>2, RendererStutters DEF EndFrame
  <2> QED
    BY <2>1, <2>2, SetupProgramStep, SetupShapeStep, RenderStep, BeginFrameStep
       DEF RendererNext
<1> QED
  BY <1>1, RendererInitHolds, PTL DEF RendererSpec

\* Whatever the scenes, the views, the grids and the text are, in every order of
\* the calls: a draw call shows its item, with the program, vertices and matrix
\* of that item.
THEOREM AlwaysDrawsWhatIsMeant == RendererSpec => []DrawsWhatIsMeant
<1>1. RendererInv => DrawsWhatIsMeant
  BY DEF RendererInv
<1> QED
  BY <1>1, RendererInvHolds, PTL

\* Wherever there is room for three messages and one for every asteroid, the
\* frame shows all of them, and nothing is drawn with a program not linked.
THEOREM TextAlwaysFits == RendererSpec => []TextFits
<1>1. ASSUME RendererInv
      PROVE  TextFits
  <2>1. phase \in {"render", "frame"} => gl.linked = Program
    <3>1. SUFFICES ASSUME phase \in {"render", "frame"} PROVE Ready(gl)
      BY DEF Ready
    <3>2. setup = 9 /\ status /\ gl \in GL /\ \A i \in 1 .. setup - 1 : IsSetUp(gl, Setup[i])
      BY <1>1, <3>1 DEF RendererInv, SetupInv, RendererTypeOK
    <3>3. \A i \in 1 .. 8 : IsSetUp(gl, Setup[i])
      BY <3>2
    <3> QED
      BY <3>2, <3>3, AllSetUp
  <2>2. phase = "abort" => rendered = 0 /\ screen = <<>> /\ setup <= Len(Setup)
    BY <1>1, SetupSteps DEF RendererInv, SetupInv
  <2> QED
    BY <1>1, <2>1, <2>2 DEF TextFits, RendererInv
<1> QED
  BY <1>1, RendererInvHolds, PTL
==============================================================================
