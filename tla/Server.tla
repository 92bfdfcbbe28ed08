------------------------------- MODULE Server --------------------------------
(***************************************************************************)
(* The life of the server process: runSuedeServer and its accept loop on   *)
(* the main thread, one detached thread per connection, the shutdown that  *)
(* signals request, and the revocation counter all of them share.  The     *)
(* process may end at any point and is started again.  A client connects,  *)
(* sends or stays silent as it likes; what the engine does with a command  *)
(* is the business of the other modules.                                   *)
(***************************************************************************)
EXTENDS RevocationCounter

CONSTANTS
    Connections,       \* slots: at most this many at once
    Signals            \* deliveries of SIGINT or SIGTERM in one life

VARIABLES
    main,              \* where the main thread is
    listener,          \* "none", "open", "closed"
    listenerSocket,    \* published: not -1
    closes,            \* how often the listener has been closed
    shutdownRequested,
    handler,           \* a delivery -> where its signal handler is
    thread,            \* connection -> where its thread is
    token,             \* connection -> the token it presents, until that is verified
    destroyed          \* runSuedeServer's locals are gone

socketVars == <<listener, listenerSocket, closes>>
serverVars == <<main, socketVars, shutdownRequested, handler, thread, token, destroyed>>
vars == <<counterVars, serverVars>>

Up == main # "down"
Signalable == Up /\ main # "starting"        \* the handlers are installed

Fresh ==
    /\ main = "down"
    /\ listener = "none" /\ listenerSocket = FALSE /\ closes = 0
    /\ shutdownRequested = FALSE
    /\ handler = [s \in Signals |-> "none"]
    /\ thread = [c \in Connections |-> "none"]
    /\ token = [c \in Connections |-> Bad]
    /\ destroyed = FALSE

Init == InitCounter /\ Fresh

-----------------------------------------------------------------------------
\* The main thread

At(here, next) == main = here /\ main' = next

\* No counter or no key: the program says so and ends, and nothing has happened.
Start ==
    /\ At("down", "starting")
    /\ readAuthState
    /\ UNCHANGED <<socketVars, shutdownRequested, handler, thread, token, destroyed>>

\* Signal handlers, graph, handler; makeListener may find the port taken.
MakeListener ==
    /\ \/ At("starting", "publish") /\ listener' = "open"
       \/ At("starting", "flush") /\ UNCHANGED listener
    /\ UNCHANGED <<counterVars, listenerSocket, closes, shutdownRequested, handler, thread, token,
                   destroyed>>

PublishListener ==
    /\ At("publish", "loop")
    /\ listenerSocket' = TRUE
    /\ UNCHANGED <<counterVars, listener, closes, shutdownRequested, handler, thread, token,
                   destroyed>>

LoopTest ==
    /\ At("loop", IF shutdownRequested THEN "close" ELSE "accept")
    /\ UNCHANGED <<counterVars, socketVars, shutdownRequested, handler, thread, token, destroyed>>

\* accept() finds nobody waiting.
Block ==
    /\ At("accept", "blocked")
    /\ listener = "open"
    /\ UNCHANGED <<counterVars, socketVars, shutdownRequested, handler, thread, token, destroyed>>

Accept(c) ==
    /\ \E here \in {"accept", "blocked"} : At(here, "loop")
    /\ listener = "open"
    /\ thread[c] = "waiting"
    /\ thread' = [thread EXCEPT ![c] = "reading"]
    /\ UNCHANGED <<counterVars, socketVars, shutdownRequested, handler, token, destroyed>>

AcceptFails ==
    /\ \E here \in {"accept", "blocked"} : At(here, IF shutdownRequested THEN "close" ELSE "loop")
    /\ UNCHANGED <<counterVars, socketVars, shutdownRequested, handler, thread, token, destroyed>>

AcceptOnClosed ==
    /\ listener = "closed"
    /\ main = "accept" \/ platform.wakes
    /\ AcceptFails

AcceptTransient == listener = "open" /\ AcceptFails

\* exchange(-1): only one caller ever gets the handle.
TakeByLoad == UNCHANGED listenerSocket
TakeListener == listenerSocket' = FALSE

CloseSocket == listener' = "closed" /\ closes' = closes + 1

CloseListener ==
    /\ At("close", "flush")
    /\ TakeListener
    /\ IF listenerSocket THEN CloseSocket ELSE UNCHANGED <<listener, closes>>
    /\ UNCHANGED <<counterVars, shutdownRequested, handler, thread, token, destroyed>>

Flush ==
    /\ At("flush", "flushing")
    /\ persistCurrent
    /\ UNCHANGED <<socketVars, shutdownRequested, handler, thread, token, destroyed>>

\* persistCurrent has returned: runSuedeServer returns and destroys its locals.
ReturnFromServer ==
    /\ At("flushing", "returned")
    /\ lock # "persistCurrent"
    /\ destroyed' = TRUE
    /\ UNCHANGED <<counterVars, socketVars, shutdownRequested, handler, thread, token>>

ExitProcess ==
    /\ main' = "down"
    /\ listener' = "none" /\ listenerSocket' = FALSE /\ closes' = 0
    /\ shutdownRequested' = FALSE
    /\ handler' = [s \in Signals |-> "none"]
    /\ thread' = [c \in Connections |-> "none"]
    /\ token' = [c \in Connections |-> Bad]
    /\ destroyed' = FALSE
    /\ ProcessEnds

Exit == main = "returned" /\ ExitProcess
Crash == Up /\ ExitProcess          \* killed, or a signal before its handler is there

-----------------------------------------------------------------------------
\* requestServerShutdown, from a signal handler

HandlerAt(s, here, next) == handler[s] = here /\ handler' = [handler EXCEPT ![s] = next]

RaiseFlag(s) ==
    /\ Signalable
    /\ HandlerAt(s, "none", "flagged")
    /\ shutdownRequested' = TRUE
    /\ UNCHANGED <<counterVars, main, socketVars, thread, token, destroyed>>

SwapListener(s) ==
    /\ HandlerAt(s, "flagged", IF listenerSocket THEN "closing" ELSE "done")
    /\ TakeListener
    /\ UNCHANGED <<counterVars, main, listener, closes, shutdownRequested, thread, token, destroyed>>

CloseTakenNever(s) ==
    /\ HandlerAt(s, "closing", "done")
    /\ UNCHANGED <<counterVars, main, socketVars, shutdownRequested, thread, token, destroyed>>
CloseTaken(s) ==
    /\ HandlerAt(s, "closing", "done")
    /\ CloseSocket
    /\ UNCHANGED <<counterVars, main, listenerSocket, shutdownRequested, thread, token, destroyed>>

-----------------------------------------------------------------------------
\* A connection and its thread

ThreadAt(c, here, next) == thread[c] = here /\ thread' = [thread EXCEPT ![c] = next]
Unshared == UNCHANGED <<counterVars, main, socketVars, shutdownRequested, handler, destroyed>>

Connect(c) ==
    /\ listener = "open"
    /\ ThreadAt(c, "none", "waiting")
    /\ Unshared /\ UNCHANGED token

\* The whole request has come: for the page, for no route or without a usable
\* header (answered as it is), or with a token.
ReadRequest(c) ==
    /\ \/ ThreadAt(c, "reading", "answering") /\ UNCHANGED token
       \/ /\ ThreadAt(c, "reading", "authenticating")
          /\ \E t \in minted \cup {Bad} : token' = [token EXCEPT ![c] = t]
    /\ Unshared

\* recv() ends without it: malformed, too long, client gone.
ReadFails(c) == ThreadAt(c, "reading", "answering") /\ Unshared /\ UNCHANGED token

\* Nothing comes for 10 s.
ReadBlocks(c) == FALSE
ReadTimesOut(c) == ReadFails(c)

\* verifyToken waits for the mutex.  Once AuthState is destroyed the outcome is
\* anything.
authenticate(c) ==
    \E result \in IF destroyed THEN {"Ok", "Revoked", "Invalid"} ELSE {verifyToken(token[c])} :
        /\ lock = "free"
        /\ ThreadAt(c, "authenticating", IF result = "Ok" THEN "executing" ELSE "answering")
        /\ token' = [token EXCEPT ![c] = Bad]
        /\ refused' = IF result = "Revoked" /\ ~destroyed THEN refused \cup {token[c]} ELSE refused
        /\ UNCHANGED <<platform, diskVars, serverCounter, persistVars, minted, forgotten, main,
                       socketVars, shutdownRequested, handler, destroyed>>

\* The engine's answer, or what it threw, or anything once it is destroyed.
Execute(c) == ThreadAt(c, "executing", "answering") /\ Unshared /\ UNCHANGED token

\* writeResponse, which has no timeout, and the close that always follows.
Respond(c) == ThreadAt(c, "answering", "none") /\ Unshared /\ UNCHANGED token

-----------------------------------------------------------------------------

Main ==
    \/ Start \/ MakeListener \/ PublishListener \/ LoopTest
    \/ (\E c \in Connections : Accept(c)) \/ AcceptOnClosed
    \/ CloseListener \/ Flush \/ ReturnFromServer \/ Exit

SignalHandler(s) == SwapListener(s) \/ CloseTaken(s)
Auth == persistServerCounter /\ UNCHANGED serverVars
Revoke == Signalable /\ ~destroyed /\ revokeAll /\ UNCHANGED serverVars
Mint == runMint /\ UNCHANGED serverVars

Next ==
    \/ Main \/ Block \/ AcceptTransient \/ Crash
    \/ Auth \/ Revoke \/ Mint
    \/ \E s \in Signals : RaiseFlag(s) \/ SignalHandler(s)
    \/ \E c \in Connections :
          \/ Connect(c) \/ ReadRequest(c) \/ ReadFails(c) \/ ReadTimesOut(c)
          \/ authenticate(c) \/ Execute(c) \/ Respond(c)

\* Threads are scheduled, file calls and the engine return, a waiting thread gets
\* the mutex in the end.  Nobody has to connect, to send, to read an answer, to
\* signal or to revoke, and no call has to fail.
Fairness ==
    /\ WF_vars(Main) /\ WF_vars(Auth) /\ SF_vars(Flush)
    /\ \A s \in Signals : WF_vars(SignalHandler(s))
    /\ \A c \in Connections :
          WF_vars(ReadTimesOut(c)) /\ SF_vars(authenticate(c)) /\ WF_vars(Execute(c))

Spec == Init /\ [][Next]_vars /\ Fairness

-----------------------------------------------------------------------------

TypeOK ==
    /\ CounterTypeOK
    /\ main \in {"down", "starting", "publish", "loop", "accept", "blocked", "close", "flush",
                 "flushing", "returned"}
    /\ listener \in {"none", "open", "closed"} /\ listenerSocket \in BOOLEAN
    /\ closes \in Nat
    /\ shutdownRequested \in BOOLEAN
    /\ handler \in [Signals -> {"none", "flagged", "closing", "done"}]
    /\ thread \in [Connections -> {"none", "waiting", "reading", "authenticating", "executing",
                                   "answering"}]
    /\ token \in [Connections -> Generations \cup {Bad}]
    /\ destroyed \in BOOLEAN

\* However the shutdown requests and the end of the accept loop interleave, the
\* listener is closed once and only once (a second close could hit a descriptor in
\* use again), and not left open when the loop is over.
ListenerClosedOnce ==
    /\ closes <= 1
    /\ /\ main \in {"flush", "flushing", "returned"} /\ listener # "none"
       => closes = 1 \/ \E s \in Signals : handler[s] = "closing"

\* Auth.h:69 "a revoked user must STAY revoked across a restart": once a token has
\* been refused as revoked, or its generation was left behind by a revokeAll that
\* succeeded, no request is let through with it, over any number of crashes and
\* failed writes, as long as no start has taken a counter file it did not find or could
\* not open for a first run (which CounterKept confines to platforms where the rename
\* or the reading is not to be relied on)
\* and AuthState is still there (see HandlerOutlivesThreads).
RevokedStayRevoked ==
    [][\A c \in Connections :
          ~forgotten /\ ~destroyed /\ thread[c] = "authenticating" /\ thread'[c] = "executing"
             => token[c] \notin refused]_vars

\* http_simple.h:479 a requested shutdown ends the accept loop and the process, from
\* whichever point of its start or its loop, where closing the listener wakes accept().
ShutdownEnds == shutdownRequested /\ platform.wakes ~> ~Up

\* http_simple.h:428 a silent client cannot park a thread: every connection that was
\* accepted comes to its answer, unless the process ends first.
ConnectionsAnswered ==
    \A c \in Connections :
        thread[c] \in {"reading", "authenticating", "executing"} ~> thread[c] \in {"answering", "none"}

-----------------------------------------------------------------------------
\* A statement of a comment that the code does not keep

\* UseServer.cpp:216 the handler "outlives every detached connection thread": no
\* thread verifies a token or runs a command after both objects are destroyed.
HandlerOutlivesThreads ==
    destroyed => \A c \in Connections : thread[c] \notin {"authenticating", "executing"}
=============================================================================
