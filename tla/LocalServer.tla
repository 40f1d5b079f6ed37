----------------------------- MODULE LocalServer -----------------------------
(***************************************************************************)
(* One process and its threads: the program `space' playing on a remote    *)
(* server ("client"), `space' with a server thread of its own ("both", the *)
(* server's address is localhost), and `space_server' ("server"); over the *)
(* sockets of unix_udp.cc or win32_udp.cc.  The two threads share          *)
(* udp_errno and the hints of GetAddr4 without synchronisation.  What the  *)
(* datagrams mean is the subject of Game; here they are a Handshake and    *)
(* its answer.                                                             *)
(***************************************************************************)
EXTENDS Naturals

CONSTANT MaxHandshakes  \* NetworkSetup gives up after so many (500)

ASSUME MaxHandshakesAssumption == MaxHandshakes \in Nat

VARIABLES
  build,        \* the system and the program, fixed
  main,         \* where the main thread is
  serv,         \* where the server thread is
  errno,        \* per thread: "none" (0), "again" (EAGAIN) or "other"
  udp_errno,    \* the same values, one for the process
  hints,        \* of GetAddr4: "zero" or "udp4"
  socket,       \* per thread: "none", "udp4" or, of another kind, "other"
  thread_id,    \* whether thread.id is set
  running,
  return_value,
  arrived,      \* per thread: what its socket holds
  handshakes,   \* the loop variable of NetworkSetup
  failed        \* history: threads one of whose receives met an error

process == <<build, main, serv, errno, udp_errno, hints, socket, thread_id,
             running, return_value, arrived, handshakes, failed>>

Thread == {"main", "server"}

Systems == {"unix", "win32"}

Programs == {"client", "both", "server"}

MainEnded == {"exit1", "exit3", "failed", "closed", "waited"}

LocalInit ==
  /\ build \in [system : Systems, program : Programs]
  /\ main = "start"
  /\ serv = "none"
  /\ errno = [t \in Thread |-> "none"]
  /\ udp_errno = "none"
  /\ hints = "zero"
  /\ socket = [t \in Thread |-> "none"]
  /\ thread_id = FALSE
  /\ running = TRUE
  /\ return_value = 0
  /\ arrived = [t \in Thread |-> "nothing"]
  /\ handshakes = 0
  /\ failed = {}

-----------------------------------------------------------------------------
(* Where the threads are.  The server thread dies with its process. *)

At(t, l) == IF t = "main" THEN main = l ELSE serv = l /\ main \notin MainEnded

Goto(t, l) == IF t = "main" THEN main' = l /\ serv' = serv
                            ELSE serv' = l /\ main' = main

Return(value) == return_value' = value /\ serv' = "returned" /\ main' = main

\* What the caller of GetAddr4 does when it returns false.
GiveUp(t) ==
  IF t = "main" THEN Goto(t, "failed") /\ UNCHANGED return_value
                ELSE Return(2)

-----------------------------------------------------------------------------
(* Starting. *)

\* The system may refuse a thread, which neither version notices.  On unix the
\* id is then undefined, on win32 it stays 0.
UnixThreadCreate(created) ==
  build.system = "unix" /\ thread_id' \in {TRUE, created}

Win32ThreadCreate(created) ==
  build.system = "win32" /\ thread_id' = created

CreateNetworkServer ==
  \E created \in BOOLEAN :
    /\ UnixThreadCreate(created) \/ Win32ThreadCreate(created)
    /\ serv' = IF created THEN "init" ELSE "none"

\* NetworkSetup and space_server's main up to their call of GetAddr4 or
\* WaitForNetworkServer.  udp::Init does nothing on unix; WSAStartup may fail.
Start ==
  /\ main = "start"
  /\ \/ build.system = "win32" /\ Goto("main", "failed") /\ UNCHANGED thread_id
     \/ /\ build.program = "client"
        /\ Goto("main", "addr")
        /\ UNCHANGED thread_id
     \/ /\ build.program # "client"
        /\ CreateNetworkServer
        /\ main' = IF build.program = "both" THEN "addr" ELSE "wait"
  /\ UNCHANGED <<build, errno, udp_errno, hints, socket, running,
                 return_value, arrived, handshakes, failed>>

ServerStart ==
  /\ At("server", "init")
  /\ \/ Goto("server", "addr") /\ UNCHANGED return_value
     \/ build.system = "win32" /\ Return(1)
  /\ UNCHANGED <<build, errno, udp_errno, hints, socket, thread_id, running,
                 arrived, handshakes, failed>>
-----------------------------------------------------------------------------
(* GetAddr4, by either thread: its hints are static. *)

ClearHints(t) ==
  /\ At(t, "addr")
  /\ hints' = "zero"
  /\ Goto(t, "hints")
  /\ UNCHANGED <<build, errno, udp_errno, socket, thread_id, running,
                 return_value, arrived, handshakes, failed>>

FillHints(t) ==
  /\ At(t, "hints")
  /\ hints' = "udp4"
  /\ Goto(t, "lookup")
  /\ UNCHANGED <<build, errno, udp_errno, socket, thread_id, running,
                 return_value, arrived, handshakes, failed>>

\* getaddrinfo or socket fail, or the first address is too long (it cannot be
\* when the hints ask for IPv4).  Whether getaddrinfo leaves something in errno
\* is its affair; udp_errno is set to it even if all went well.
LookupFails(t) ==
  /\ At(t, "lookup")
  /\ \E e \in {"none", "other"} :
       /\ errno' = [errno EXCEPT ![t] = e]
       /\ udp_errno' = e
  /\ GiveUp(t)
  /\ UNCHANGED <<build, hints, socket, thread_id, running, arrived,
                 handshakes, failed>>

\* What the system finds: of another kind (TCP) if it was not told which.
UnixLookup(t) ==
  /\ build.system = "unix"
  /\ At(t, "lookup")
  /\ socket' = [socket EXCEPT ![t] = IF hints = "udp4" THEN "udp4"
                                                       ELSE "other"]
  /\ \E e \in {"none", "other"} :
       /\ errno' = [errno EXCEPT ![t] = e]
       /\ udp_errno' = e
  /\ Goto(t, IF t = "main" THEN "send" ELSE "bind")
  /\ UNCHANGED <<build, hints, thread_id, running, return_value, arrived,
                 handshakes, failed>>

\* The same, and ioctlsocket so that the socket does not block.  Calls of
\* winsock do not touch errno: what is there is what other calls left.
Win32Lookup(t) ==
  /\ build.system = "win32"
  /\ At(t, "lookup")
  /\ socket' = [socket EXCEPT ![t] = IF hints = "udp4" THEN "udp4"
                                                       ELSE "other"]
  /\ \E e \in {"none", "other"} :
       /\ errno' = [errno EXCEPT ![t] = e]
       /\ udp_errno' = e
  /\ \/ Goto(t, IF t = "main" THEN "send" ELSE "bind") /\ UNCHANGED return_value
     \/ GiveUp(t)
  /\ UNCHANGED <<build, hints, thread_id, running, arrived, handshakes, failed>>

-----------------------------------------------------------------------------
(* The server thread. *)

Bind ==
  /\ At("server", "bind")
  /\ \/ Goto("server", "receive") /\ UNCHANGED <<errno, udp_errno, return_value>>
     \/ /\ build.system = "unix"
        /\ errno' = [errno EXCEPT !["server"] = "other"]
        /\ udp_errno' = "other"
        /\ Return(3)
     \/ /\ build.system = "win32"
        /\ udp_errno' = errno["server"]
        /\ Return(3)
        /\ UNCHANGED errno
  /\ UNCHANGED <<build, hints, socket, thread_id, running, arrived, handshakes,
                 failed>>

\* A datagram was there: if it is a Handshake it is answered.
ServerReceive ==
  /\ At("server", "receive")
  /\ running
  /\ socket["server"] = "udp4"
  /\ arrived["server"] # "nothing"
  /\ arrived' = [arrived EXCEPT
                   !["server"] = "nothing",
                   !["main"] = IF arrived["server"] = "handshake" THEN "answer" ELSE @]
  /\ UNCHANGED <<build, main, serv, errno, udp_errno, hints, socket, thread_id,
                 running, return_value, handshakes, failed>>

\* What a failing receive of thread t leaves in errno: EAGAIN if there was
\* nothing, something else for an error; a socket of another kind always fails.
Failing(t, e) ==
  \/ e = "again" /\ arrived[t] = "nothing" /\ socket[t] = "udp4"
  \/ e = "other"

\* (Bug: an error is taken for an empty socket.)
NoErrno(e) == "none"

\* EAGAIN is no error.
UdpErrno(e) == IF e = "again" THEN "none" ELSE e

\* A receive that fails, on unix.
UnixReceiveFails(t, e) ==
  /\ build.system = "unix"
  /\ Failing(t, e)
  /\ errno' = [errno EXCEPT ![t] = e]
  /\ udp_errno' = UdpErrno(e)
  /\ failed' = IF e = "other" THEN failed \cup {t} ELSE failed
  /\ UNCHANGED arrived

\* On win32: errno is what it was.
Win32ReceiveFails(t, e) ==
  /\ build.system = "win32"
  /\ Failing(t, e)
  /\ udp_errno' = UdpErrno(errno[t])
  /\ failed' = IF e = "other" THEN failed \cup {t} ELSE failed
  /\ UNCHANGED <<errno, arrived>>

\* The address of the sender has another length than was asked for: the datagram is
\* gone, and udp_errno still tells of an earlier call.
AddressMismatch(t) ==
  /\ arrived[t] # "nothing"
  /\ socket[t] = "udp4"
  /\ arrived' = [arrived EXCEPT ![t] = "nothing"]
  /\ UNCHANGED <<errno, udp_errno, failed>>

ReceiveFails(t) ==
  \/ \E e \in {"again", "other"} : UnixReceiveFails(t, e) \/ Win32ReceiveFails(t, e)
  \/ AddressMismatch(t)

ReceiveAnyFails ==
  /\ At("server", "receive")
  /\ running
  /\ ReceiveFails("server")
  /\ Goto("server", "check")
  /\ UNCHANGED <<build, hints, socket, thread_id, running, return_value, handshakes>>

\* Meanwhile the other thread may have written udp_errno; or nobody has since
\* GetAddr4, which leaves there what errno was.
CheckErrno ==
  /\ At("server", "check")
  /\ running' = (running /\ udp_errno = "none")
  /\ Goto("server", "receive")
  /\ UNCHANGED <<build, errno, udp_errno, hints, socket, thread_id,
                 return_value, arrived, handshakes, failed>>

ServerReturn ==
  /\ At("server", "receive")
  /\ ~running
  /\ Return(0)
  /\ UNCHANGED <<build, errno, udp_errno, hints, socket, thread_id, running,
                 arrived, handshakes, failed>>

-----------------------------------------------------------------------------
(* The main thread: the client. *)

\* The Handshake reaches a server thread that has bound its socket, or is
\* answered by the remote server, or is lost.
Send ==
  /\ main = "send"
  /\ handshakes < MaxHandshakes
  /\ socket["main"] = "udp4"
  /\ handshakes' = handshakes + 1
  /\ arrived' \in {arrived} \cup
       (IF build.program = "client" THEN {[arrived EXCEPT !["main"] = "answer"]}
        ELSE IF serv \in {"receive", "check"}
        THEN {[arrived EXCEPT !["server"] = "handshake"]} ELSE {})
  /\ Goto("main", "poll")
  /\ UNCHANGED <<build, errno, udp_errno, hints, socket, thread_id, running,
                 return_value, failed>>

SendFails ==
  /\ main = "send"
  /\ handshakes < MaxHandshakes
  /\ Goto("main", "exit1")
  /\ UNCHANGED <<build, errno, udp_errno, hints, socket, thread_id, running,
                 return_value, arrived, handshakes, failed>>

NoAnswer ==
  /\ main = "send"
  /\ handshakes = MaxHandshakes
  /\ Goto("main", "exit3")
  /\ UNCHANGED <<build, errno, udp_errno, hints, socket, thread_id, running,
                 return_value, arrived, handshakes, failed>>

\* In NetworkSetup, and later in NetworkIngress.
ReceiveAnswer ==
  /\ main \in {"poll", "play"}
  /\ arrived["main"] = "answer"
  /\ arrived' = [arrived EXCEPT !["main"] = "nothing"]
  /\ Goto("main", "play")
  /\ UNCHANGED <<build, errno, udp_errno, hints, socket, thread_id, running,
                 return_value, handshakes, failed>>

\* A datagram of another sender reaches the client, which takes it from its socket
\* and ignores it, or the server, whose other clients are not modelled here.
Stranger ==
  /\ \E t \in Thread :
       /\ IF t = "main" THEN main \in {"poll", "play"} ELSE serv \in {"receive", "check"}
       /\ arrived[t] = "nothing"
       /\ arrived' = [arrived EXCEPT ![t] = "stranger"]
  /\ UNCHANGED <<build, main, serv, errno, udp_errno, hints, socket, thread_id,
                 running, return_value, handshakes, failed>>

Filter ==
  /\ main \in {"poll", "play"}
  /\ arrived["main"] = "stranger"
  /\ arrived' = [arrived EXCEPT !["main"] = "nothing"]
  /\ UNCHANGED <<build, main, serv, errno, udp_errno, hints, socket, thread_id,
                 running, return_value, handshakes, failed>>

\* Ten of them in NetworkSetup, then the next Handshake.
ReceiveFromFails ==
  /\ main \in {"poll", "play"}
  /\ ReceiveFails("main")
  /\ \/ main = "poll" /\ Goto("main", "send")
     \/ UNCHANGED <<main, serv>>
  /\ UNCHANGED <<build, hints, socket, thread_id, running, return_value, handshakes>>

\* The user ends the game, and with it the process and its server.
CloseGame ==
  /\ main = "play"
  /\ Goto("main", "closed")
  /\ UNCHANGED <<build, errno, udp_errno, hints, socket, thread_id, running,
                 return_value, arrived, handshakes, failed>>
-----------------------------------------------------------------------------
(* The main thread: space_server, which waits for its server. *)

\* What pthread_join does if there is no such thread is undefined.
UnixJoin == build.system = "unix" /\ serv \in {"none", "returned"}

Win32Join == build.system = "win32" /\ serv = "returned"

WaitForNetworkServer ==
  /\ main = "wait"
  /\ thread_id => UnixJoin \/ Win32Join
  /\ Goto("main", "waited")
  /\ UNCHANGED <<build, errno, udp_errno, hints, socket, thread_id, running,
                 return_value, arrived, handshakes, failed>>

-----------------------------------------------------------------------------
MainNext ==
  \/ Start \/ WaitForNetworkServer
  \/ ClearHints("main") \/ FillHints("main")
  \/ UnixLookup("main") \/ Win32Lookup("main") \/ LookupFails("main")
  \/ Send \/ SendFails \/ NoAnswer
  \/ ReceiveAnswer \/ Filter \/ ReceiveFromFails

ServerThreadNext ==
  \/ ServerStart
  \/ ClearHints("server") \/ FillHints("server")
  \/ UnixLookup("server") \/ Win32Lookup("server") \/ LookupFails("server")
  \/ Bind \/ ServerReceive \/ ReceiveAnyFails \/ CheckErrno \/ ServerReturn

LocalNext == MainNext \/ ServerThreadNext \/ Stranger \/ CloseGame

LocalSpec == LocalInit /\ [][LocalNext]_process

-----------------------------------------------------------------------------
(* A property. *)

\* A server alone in its process does stop when a receive of its own met an error,
\* and its process ends.
ErrorStopsServer ==
  build = [system |-> "unix", program |-> "server"] /\ "server" \in failed
    ~> main = "waited"
==============================================================================
