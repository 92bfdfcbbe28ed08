---------------------------- MODULE ServerProofs -----------------------------
(***************************************************************************)
(* What the properties of Server rest on, for any number of connections,   *)
(* signals and revocations, and on any platform.                           *)
(***************************************************************************)
EXTENDS Server, TLAPS

-----------------------------------------------------------------------------
\* Type correctness

LEMMA ReturnType ==
    ASSUME CounterTypeOK, NEW ok \in BOOLEAN, Return(ok)
    PROVE  /\ lock' = "free" /\ call' = "none" /\ value' \in Generations
           /\ serverCounter' \in Generations /\ refused' \subseteq Generations
           /\ forgotten' \in BOOLEAN
<1> USE CounterAssumption DEF CounterTypeOK, Generations, Return
<1>1. 0..(value - 1) \subseteq Generations
  OBVIOUS
<1>2. refused' \subseteq refused \cup 0..(value - 1)
  OBVIOUS
<1> QED
  BY <1>1, <1>2

LEMMA CounterTypeStep ==
    ASSUME TypeOK, [Next]_vars
    PROVE  CounterTypeOK'
<1> USE CounterAssumption DEF TypeOK, CounterTypeOK, Generations, Contents, diskVars, persistVars
<1>1. CASE UNCHANGED counterVars
  BY <1>1 DEF counterVars
<1>2. CASE readAuthState
  BY <1>2 DEF readAuthState, Opened, readServerCounter
<1>3. CASE persistCurrent
  BY <1>3 DEF persistCurrent, Persist
<1>4. CASE revokeAll
  BY <1>4 DEF revokeAll, Persist
<1>5. CASE runMint
  BY <1>5 DEF runMint, Opened, readServerCounter
<1>6. CASE ProcessEnds
  BY <1>6 DEF ProcessEnds
<1>7. ASSUME NEW c \in Connections, authenticate(c) PROVE CounterTypeOK'
  <2>1. CASE token[c] = Bad
    BY <1>7, <2>1 DEF authenticate, verifyToken
  <2>2. CASE token[c] # Bad
    BY <1>7, <2>2 DEF authenticate
  <2> QED
    BY <2>1, <2>2
<1>8. CASE OpenTemp
  BY <1>8, ReturnType DEF OpenTemp, Goto
<1>9. CASE WriteTemp
  BY <1>9, ReturnType DEF WriteTemp, Goto
<1>10. CASE RenameTemp
  BY <1>10, ReturnType DEF RenameTemp, Renames, Goto
<1>11. CASE RemoveTarget
  BY <1>11 DEF RemoveTarget, Goto
<1>12. CASE RenameAgain
  BY <1>12, ReturnType DEF RenameAgain, Renames
<1> QED
  BY <1>1, <1>2, <1>3, <1>4, <1>5, <1>6, <1>7, <1>8, <1>9, <1>10, <1>11, <1>12
  DEF Next, Main, vars, Start, MakeListener, PublishListener, LoopTest, Accept, AcceptOnClosed,
      AcceptFails, CloseListener, Flush, ReturnFromServer, Exit, ExitProcess, Block, AcceptTransient,
      Crash, Auth, persistServerCounter, Revoke, Mint, RaiseFlag, SignalHandler, SwapListener,
      CloseTaken, Connect, ReadRequest, ReadFails, ReadTimesOut, Execute, Respond, Unshared

LEMMA TypeStep ==
    ASSUME TypeOK, [Next]_vars
    PROVE  TypeOK'
<1> USE DEF TypeOK
<1>0. CounterTypeOK'
  BY CounterTypeStep
<1>1. CASE Start
  BY <1>0, <1>1 DEF Start, At, socketVars
<1>2. CASE MakeListener
  BY <1>0, <1>2 DEF MakeListener, At
<1>3. CASE PublishListener
  BY <1>0, <1>3 DEF PublishListener, At
<1>4. CASE LoopTest
  BY <1>0, <1>4 DEF LoopTest, At, socketVars
<1>5. CASE Block
  BY <1>0, <1>5 DEF Block, At, socketVars
<1>6. ASSUME NEW c \in Connections, Accept(c) PROVE TypeOK'
  BY <1>0, <1>6 DEF Accept, At, socketVars
<1>7. CASE AcceptFails
  BY <1>0, <1>7 DEF AcceptFails, At, socketVars
<1>8. CASE CloseListener
  <2>1. listener' \in {listener, "closed"} /\ closes' \in {closes, closes + 1}
    BY <1>8 DEF CloseListener, CloseSocket
  <2>2. closes + 1 \in Nat
    OBVIOUS
  <2> QED
    BY <1>0, <1>8, <2>1, <2>2 DEF CloseListener, TakeListener, At
<1>9. CASE Flush
  BY <1>0, <1>9 DEF Flush, At, socketVars
<1>10. CASE ReturnFromServer
  BY <1>0, <1>10 DEF ReturnFromServer, At, socketVars
<1>11. CASE ExitProcess
  BY <1>0, <1>11 DEF ExitProcess
<1>12. CASE UNCHANGED serverVars
  BY <1>0, <1>12 DEF serverVars, socketVars
<1>13. ASSUME NEW s \in Signals, RaiseFlag(s) PROVE TypeOK'
  BY <1>0, <1>13 DEF RaiseFlag, HandlerAt, socketVars
<1>17. ASSUME NEW s \in Signals, SwapListener(s) PROVE TypeOK'
  BY <1>0, <1>17 DEF SwapListener, HandlerAt, TakeListener
<1>18. ASSUME NEW s \in Signals, CloseTaken(s) PROVE TypeOK'
  BY <1>0, <1>18 DEF CloseTaken, HandlerAt, CloseSocket
<1>14. ASSUME NEW c \in Connections, Connect(c) \/ ReadFails(c) \/ Execute(c) \/ Respond(c)
       PROVE  TypeOK'
  BY <1>0, <1>14 DEF Connect, ReadFails, Execute, Respond, ThreadAt, Unshared, socketVars
<1>15. ASSUME NEW c \in Connections, ReadRequest(c) PROVE TypeOK'
  BY <1>0, <1>15 DEF ReadRequest, ThreadAt, Unshared, socketVars, CounterTypeOK
<1>16. ASSUME NEW c \in Connections, authenticate(c) PROVE TypeOK'
  BY <1>0, <1>16 DEF authenticate, ThreadAt, socketVars
<1> HIDE DEF TypeOK
<1>19. CASE Main \/ Block \/ AcceptTransient \/ Crash
  BY <1>1, <1>2, <1>3, <1>4, <1>5, <1>6, <1>7, <1>8, <1>9, <1>10, <1>11, <1>19
  DEF Main, AcceptOnClosed, AcceptTransient, Exit, Crash
<1>20. CASE Auth \/ Revoke \/ Mint
  BY <1>12, <1>20 DEF Auth, Revoke, Mint
<1>21. CASE UNCHANGED vars
  BY <1>12, <1>21 DEF vars, serverVars, socketVars
<1>22. ASSUME NEW c \in Connections,
              \/ Connect(c) \/ ReadRequest(c) \/ ReadFails(c) \/ ReadTimesOut(c)
              \/ authenticate(c) \/ Execute(c) \/ Respond(c)
       PROVE  TypeOK'
  BY <1>14, <1>15, <1>16, <1>22 DEF ReadTimesOut
<1> QED
  BY <1>13, <1>17, <1>18, <1>19, <1>20, <1>21, <1>22 DEF Next, SignalHandler

LEMMA TypeInit == Init => TypeOK
<1> SUFFICES ASSUME Init PROVE TypeOK
  OBVIOUS
<1> USE DEF Init
<1>1. CounterTypeOK
  <2>1. 0 \in Generations
    BY CounterAssumption DEF Generations
  <2>2. counterFile \in Contents /\ temp \in Contents
    BY <2>1 DEF InitCounter, Contents
  <2>3. forgotten \in BOOLEAN
    BY DEF InitCounter
  <2> QED
    BY <2>1, <2>2, <2>3 DEF InitCounter, CounterTypeOK
<1> QED
  BY <1>1 DEF Fresh, TypeOK

\* In every life of the server all of its state keeps to its type; in particular a
\* counter read at the start is a generation, whatever a crash has left.
THEOREM TypeCorrect == Spec => []TypeOK
  BY TypeInit, TypeStep, PTL DEF Spec

-----------------------------------------------------------------------------
\* The listener is closed once

\* Who is to close the listener: whoever finds it published, or the one signal
\* handler that has taken it, or nobody any more.
Closer ==
    /\ listenerSocket => main \in {"loop", "accept", "blocked", "close"} /\ listener = "open"
                         /\ \A s \in Signals : handler[s] # "closing"
    /\ \A s \in Signals : handler[s] = "closing" => listener = "open" /\ main # "publish"
    /\ \A s, r \in Signals : handler[s] = "closing" /\ handler[r] = "closing" => s = r
    /\ listener = "open" =>
          listenerSocket \/ main = "publish" \/ \E s \in Signals : handler[s] = "closing"

\* What a listener stands for: whether it has been closed, and where the main
\* thread can be without one.
Closed ==
    /\ closes = IF listener = "closed" THEN 1 ELSE 0
    /\ main = "publish" => listener = "open"
    /\ main \in {"down", "starting"} => listener = "none"
    /\ listener = "none" => main \in {"down", "starting", "flush", "flushing", "returned"}

LInv == Closer /\ Closed

LEMMA ListenerStep ==
    ASSUME TypeOK, LInv, [Next]_vars
    PROVE  LInv'
<1> USE DEF LInv, Closer, Closed
<1>1. CASE Start \/ LoopTest \/ Block \/ AcceptFails \/ Flush \/ ReturnFromServer
  BY <1>1 DEF Start, LoopTest, Block, AcceptFails, Flush, ReturnFromServer, At, socketVars
<1>2. CASE MakeListener
  BY <1>2 DEF MakeListener, At
<1>3. CASE PublishListener
  BY <1>3 DEF PublishListener, At
<1>4. ASSUME NEW c \in Connections, Accept(c) PROVE LInv'
  BY <1>4 DEF Accept, At, socketVars
<1>5. CASE CloseListener
  BY <1>5 DEF CloseListener, At, TakeListener, CloseSocket
<1>6. CASE ExitProcess
  BY <1>6 DEF ExitProcess
<1>7. CASE UNCHANGED <<main, socketVars, handler>>
  BY <1>7 DEF socketVars
<1>8. ASSUME NEW s \in Signals, RaiseFlag(s) PROVE LInv'
  BY <1>8 DEF RaiseFlag, HandlerAt, socketVars, TypeOK
<1>9. ASSUME NEW s \in Signals, SwapListener(s) PROVE LInv'
  BY <1>9 DEF SwapListener, HandlerAt, TakeListener, TypeOK
<1>10. ASSUME NEW s \in Signals, CloseTaken(s) PROVE LInv'
  BY <1>10 DEF CloseTaken, HandlerAt, CloseSocket, TypeOK
<1> HIDE DEF LInv
<1>11. CASE Main \/ Block \/ AcceptTransient \/ Crash
  BY <1>1, <1>2, <1>3, <1>4, <1>5, <1>6, <1>11
  DEF Main, AcceptOnClosed, AcceptTransient, Exit, Crash
<1>12. CASE Auth \/ Revoke \/ Mint \/ UNCHANGED vars
  BY <1>7, <1>12 DEF Auth, Revoke, Mint, vars, serverVars
<1>13. ASSUME NEW c \in Connections,
              \/ Connect(c) \/ ReadRequest(c) \/ ReadFails(c) \/ ReadTimesOut(c)
              \/ authenticate(c) \/ Execute(c) \/ Respond(c)
       PROVE  LInv'
  BY <1>7, <1>13
  DEF Connect, ReadRequest, ReadTimesOut, ReadFails, authenticate, Execute, Respond, Unshared
<1> QED
  BY <1>8, <1>9, <1>10, <1>11, <1>12, <1>13 DEF Next, SignalHandler

LEMMA ListenerInit == Init => LInv
  BY DEF Init, Fresh, LInv, Closer, Closed

LEMMA ListenerImplied == TypeOK /\ LInv => ListenerClosedOnce
  BY DEF TypeOK, LInv, Closer, Closed, ListenerClosedOnce

\* However many shutdown requests come, and wherever in its start, its loop or its
\* end they meet the main thread, the listener is closed exactly once.
THEOREM ListenerClosedOnceCorrect == Spec => []ListenerClosedOnce
  BY TypeInit, TypeStep, ListenerInit, ListenerStep, ListenerImplied, PTL DEF Spec

-----------------------------------------------------------------------------
\* The counter, in memory, on disk and in tokens

\* persistServerCounter: what it writes, and that a whole temp file is renamed.
Persisting ==
    /\ lock = "free" <=> call = "none"
    /\ lock = "revokeAll" => value = serverCounter + 1
    /\ lock = "persistCurrent" => value = serverCounter
    /\ call \in {"rename", "removeTarget", "renameAgain"} => temp = value
    /\ Durable => call \notin {"removeTarget", "renameAgain"}

\* The file is the counter of the running server, or it is lost, or was not opened.
InStep ==
    /\ counterFile # Torn
    /\ IF Up THEN forgotten \/ counterFile \in {NoFile, serverCounter} ELSE lock = "free" /\ serverCounter = 0

\* No token is ahead of the counter, and what was refused is behind it: of the
\* counter in memory, and between two lives of the one on disk.
NewestIs(counter) ==
    /\ \A g \in refused : g < counter
    /\ \A g \in minted : g <= counter
Behind ==
    /\ ~forgotten /\ Up => NewestIs(serverCounter)
    /\ ~forgotten /\ ~Up /\ counterFile # NoFile => NewestIs(counterFile)
    /\ \A c \in Connections : token[c] \in minted \cup {Bad}

\* Where renames replace, a missing file really is a first run.
FirstRun ==
    Durable => /\ ~forgotten
               /\ counterFile = NoFile =>
                    refused = {} /\ minted \subseteq {0} /\ serverCounter = 0

CInv == Persisting /\ InStep /\ Behind /\ FirstRun

LEMMA CounterInit == Init => CInv
<1> SUFFICES ASSUME Init PROVE CInv
  OBVIOUS
<1> USE CounterAssumption DEF Init, InitCounter, Fresh, Up
<1>1. Persisting
  BY DEF Persisting
<1>2. InStep
  BY DEF InStep
<1>3. Behind
  BY DEF Behind, NewestIs
<1>4. FirstRun
  BY DEF FirstRun
<1> QED
  BY <1>1, <1>2, <1>3, <1>4 DEF CInv

\* Every step of the system, seen from the counter.
LEMMA CounterCases ==
    ASSUME [Next]_vars
    PROVE  \/ UNCHANGED counterVars /\ (Up' <=> Up)
              /\ \A c \in Connections : token'[c] = token[c]
           \/ \E c \in Connections : ReadRequest(c)
           \/ Start
           \/ ExitProcess
           \/ Flush
           \/ Revoke
           \/ Auth
           \/ Mint
           \/ \E c \in Connections : authenticate(c)
<1> USE DEF Up
<1>1. CASE Main
  BY <1>1 DEF Main, At, MakeListener, PublishListener, LoopTest, Accept, AcceptOnClosed,
              AcceptFails, CloseListener, ReturnFromServer, Exit
<1>2. CASE Block \/ AcceptTransient \/ Crash
  BY <1>2 DEF At, Block, AcceptTransient, AcceptFails, Crash
<1>3. ASSUME NEW s \in Signals, RaiseFlag(s) \/ SignalHandler(s) PROVE UNCHANGED <<counterVars, main, token>>
  BY <1>3 DEF RaiseFlag, SignalHandler, SwapListener, CloseTaken
<1>4. ASSUME NEW c \in Connections,
             Connect(c) \/ ReadFails(c) \/ ReadTimesOut(c) \/ Execute(c) \/ Respond(c)
      PROVE  UNCHANGED <<counterVars, main, token>>
  BY <1>4 DEF Connect, ReadFails, ReadTimesOut, Execute, Respond, Unshared
<1>5. CASE UNCHANGED vars
  BY <1>5 DEF vars, serverVars
<1> QED
  BY <1>1, <1>2, <1>3, <1>4, <1>5 DEF Next

\* Connections have threads only while the server runs.
Threadless == ~Up => \A c \in Connections : thread[c] = "none"

LEMMA ThreadsStep ==
    ASSUME TypeOK, LInv, Threadless, [Next]_vars
    PROVE  Threadless'
<1> USE DEF Threadless, Up
<1>1. CASE Main
  BY <1>1 DEF Main, At, Start, MakeListener, PublishListener, LoopTest, Accept, AcceptOnClosed,
              AcceptFails, CloseListener, Flush, ReturnFromServer, Exit, ExitProcess
<1>2. CASE Block \/ AcceptTransient \/ Crash
  BY <1>2 DEF At, Block, AcceptTransient, AcceptFails, Crash, ExitProcess
<1>3. CASE Auth \/ Revoke \/ Mint \/ UNCHANGED vars
  BY <1>3 DEF Auth, Revoke, Mint, serverVars, vars
<1>4. ASSUME NEW s \in Signals, RaiseFlag(s) \/ SignalHandler(s) PROVE Threadless'
  BY <1>4 DEF RaiseFlag, SignalHandler, SwapListener, CloseTaken
<1>5. ASSUME NEW c \in Connections, Connect(c) PROVE Threadless'
  BY <1>5 DEF Connect, Unshared, LInv, Closed
<1>6. ASSUME NEW c \in Connections,
             \/ ReadRequest(c) \/ ReadFails(c) \/ ReadTimesOut(c)
             \/ authenticate(c) \/ Execute(c) \/ Respond(c)
      PROVE  Threadless'
  BY <1>6 DEF ReadRequest, ReadFails, ReadTimesOut, authenticate, Execute, Respond, ThreadAt, Unshared
<1> QED
  BY <1>1, <1>2, <1>3, <1>4, <1>5, <1>6 DEF Next

LEMMA CounterStep ==
    ASSUME TypeOK, CInv, Threadless, [Next]_vars
    PROVE  CInv'
<1> USE CounterAssumption DEF CInv, Up
<1>0. CounterTypeOK /\ token \in [Connections -> Generations \cup {Bad}]
  BY DEF TypeOK
<1>1. CASE UNCHANGED counterVars /\ (Up' <=> Up) /\ \A c \in Connections : token'[c] = token[c]
  <2>1. Persisting' /\ FirstRun'
    BY <1>1 DEF counterVars, diskVars, persistVars, Persisting, FirstRun, Durable, Fails
  <2>2. InStep' /\ Behind'
    BY <1>1 DEF counterVars, diskVars, persistVars, InStep, Behind, NewestIs
  <2> QED
    BY <2>1, <2>2
<1>2. ASSUME NEW c \in Connections, ReadRequest(c) PROVE CInv'
  <2>1. Persisting' /\ InStep' /\ FirstRun'
    BY <1>2 DEF ReadRequest, Unshared, counterVars, diskVars, persistVars, Persisting, InStep, FirstRun,
                Durable, Fails
  <2>2. Behind'
    BY <1>0, <1>2 DEF ReadRequest, Unshared, counterVars, Behind, NewestIs, diskVars
  <2> QED
    BY <2>1, <2>2
<1>3. CASE Start
  <2>1. Persisting'
    BY <1>3 DEF Start, At, readAuthState, Persisting, InStep, Durable, Fails, diskVars, persistVars
  <2>2. InStep'
    BY <1>0, <1>3 DEF Start, At, readAuthState, Opened, readServerCounter, InStep, diskVars, persistVars
  <2>3. FirstRun'
    BY <1>3 DEF Start, At, readAuthState, Opened, readServerCounter, FirstRun, Durable, Fails, diskVars
  <2>4. CASE counterFile = NoFile
    <3>1. ~forgotten' => refused = {} /\ minted \ {0} = {}
      BY <1>3, <2>4 DEF Start, readAuthState, Opened
    <3>2. ~forgotten' => \A g \in minted : g = 0
      BY <3>1
    <3>3. refused' = refused /\ minted' = minted /\ serverCounter' = 0 /\ Up' /\ token' = token
      BY <1>3, <2>4 DEF Start, At, readAuthState, Opened, readServerCounter
    <3>4. ~forgotten' => NewestIs(serverCounter)'
      BY <3>1, <3>2, <3>3 DEF NewestIs
    <3>5. Behind'
      BY <3>3, <3>4 DEF Behind, NewestIs
    <3> QED
      BY <2>1, <2>2, <2>3, <3>5
  <2>5. CASE counterFile # NoFile
    BY <1>3, <2>1, <2>2, <2>3, <2>5 DEF Start, At, readAuthState, Opened, readServerCounter, Behind, NewestIs
  <2> QED
    BY <2>4, <2>5
<1>4. CASE ExitProcess
  <2>1. Persisting' /\ InStep' /\ FirstRun'
    BY <1>4 DEF ExitProcess, ProcessEnds, Persisting, InStep, FirstRun, Durable, Fails, diskVars
  <2>2. Behind'
    BY <1>4 DEF ExitProcess, ProcessEnds, InStep, Behind, NewestIs, diskVars
  <2> QED
    BY <2>1, <2>2
<1>5. ASSUME NEW operation \in {"revokeAll", "persistCurrent"}, NEW counter, Up, main' # "down",
             Persist(operation, counter), UNCHANGED <<serverCounter, token>>,
             counter = IF operation = "revokeAll" THEN serverCounter + 1 ELSE serverCounter
      PROVE  CInv'
  <2>1. Persisting' /\ InStep' /\ FirstRun'
    BY <1>5 DEF Persist, Persisting, InStep, FirstRun, Durable, Fails, diskVars
  <2>2. Behind'
    BY <1>5 DEF Persist, Behind, NewestIs, diskVars
  <2> QED
    BY <2>1, <2>2
<1>6. CASE Flush
  BY <1>5, <1>6 DEF Flush, At, persistCurrent
<1>7. CASE Revoke
  BY <1>5, <1>7 DEF Revoke, Signalable, revokeAll, serverVars
<1>8. CASE Mint
  <2>1. Persisting' /\ InStep' /\ FirstRun'
    BY <1>8 DEF Mint, runMint, Opened, readServerCounter, serverVars, Persisting, InStep, FirstRun, Durable,
                Fails, diskVars, persistVars
  <2>2. PICK g : (g = 0 \/ (g = counterFile /\ g # NoFile)) /\ minted' = minted \cup {g}
    BY <1>8 DEF Mint, runMint, Opened, readServerCounter
  <2>3. UNCHANGED <<counterFile, serverCounter, refused, forgotten, main, token>>
    BY <1>8 DEF Mint, runMint, serverVars, diskVars
  <2>4. serverCounter \in Nat /\ (counterFile # NoFile => counterFile \in Nat)
    BY <1>0 DEF CounterTypeOK, Generations, Contents, InStep
  <2>5. Behind'
    BY <2>2, <2>3, <2>4 DEF InStep, Behind, NewestIs
  <2> QED
    BY <2>1, <2>5
<1>9. ASSUME NEW c \in Connections, authenticate(c) PROVE CInv'
  <2>1. Persisting' /\ InStep'
    BY <1>9 DEF authenticate, Persisting, InStep, Durable, Fails, diskVars, persistVars
  <2>2. refused' = refused \/ (/\ refused' = refused \cup {token[c]}
                              /\ token[c] \in minted /\ token[c] # serverCounter /\ Up)
    BY <1>9 DEF authenticate, ThreadAt, Threadless, verifyToken, Behind
  <2>3. FirstRun'
    BY <1>9, <2>2 DEF authenticate, FirstRun, Durable, Fails, diskVars
  <2>4. Behind'
    BY <1>0, <1>9, <2>2 DEF authenticate, Behind, NewestIs, diskVars, CounterTypeOK, Generations
  <2> QED
    BY <2>1, <2>3, <2>4
<1>10. ASSUME NEW ok \in BOOLEAN, Return(ok), call # "none", UNCHANGED serverVars,
              UNCHANGED <<platform, minted>>,
              ok => counterFile' = value,
              ~ok => counterFile' = counterFile
       PROVE  CInv'
  <2>1. lock # "free" /\ Up /\ value \in Int
    BY <1>0, <1>10 DEF Persisting, InStep, CounterTypeOK, Generations
  <2>2. value = IF lock = "revokeAll" THEN serverCounter + 1 ELSE serverCounter
    BY <1>0, <2>1 DEF Persisting, CounterTypeOK
  <2>3. serverCounter' = IF ok THEN value ELSE serverCounter
    BY <1>10, <2>2 DEF Return
  <2>4. \A g \in refused' : g \in refused \/ (ok /\ lock = "revokeAll" /\ g < value)
    BY <1>10, <2>1 DEF Return
  <2>5. Persisting' /\ InStep'
    BY <1>10, <2>1, <2>3 DEF Return, Persisting, InStep, serverVars, Durable, Fails
  <2>6. FirstRun'
    BY <1>10, <2>1, <2>3, <2>4 DEF Return, FirstRun, Durable, Fails
  <2>7. ~forgotten => NewestIs(serverCounter)'
    <3> SUFFICES ASSUME ~forgotten PROVE NewestIs(serverCounter)'
      OBVIOUS
    <3>1. \A g \in refused : g < serverCounter /\ g \in Int
      BY <1>0, <2>1 DEF Behind, NewestIs, CounterTypeOK, Generations
    <3>2. \A g \in minted : g <= serverCounter /\ g \in Int
      BY <1>0, <2>1 DEF Behind, NewestIs, CounterTypeOK, Generations
    <3>3. serverCounter \in Int /\ serverCounter' \in Int /\ serverCounter <= serverCounter'
      BY <1>0, <2>2, <2>3 DEF CounterTypeOK, Generations
    <3>4. \A g \in refused' : g < serverCounter'
      BY <2>1, <2>3, <2>4, <3>1, <3>3
    <3>5. \A g \in minted' : g <= serverCounter'
      BY <1>10, <3>2, <3>3
    <3> QED
      BY <3>4, <3>5 DEF NewestIs
  <2>8. Behind'
    BY <1>10, <2>1, <2>7 DEF Return, Behind, NewestIs, serverVars
  <2> QED
    BY <2>5, <2>6, <2>8
<1>11. ASSUME NEW next \in {"write", "rename", "removeTarget", "renameAgain"}, Goto(next),
              call # "none", UNCHANGED serverVars, UNCHANGED <<platform, minted>>,
              next # "write" => temp' = value,
              next \in {"removeTarget", "renameAgain"} => ~Durable,
              counterFile' = counterFile \/ (counterFile' = NoFile /\ ~Durable)
       PROVE  CInv'
  <2>1. lock # "free" /\ Up
    BY <1>11 DEF Persisting, InStep
  <2>2. Persisting' /\ InStep'
    BY <1>0, <1>11, <2>1 DEF Goto, Persisting, InStep, serverVars, Durable, Fails
  <2>3. FirstRun' /\ Behind'
    BY <1>11, <2>1 DEF Goto, FirstRun, Behind, NewestIs, serverVars, Durable, Fails
  <2> QED
    BY <2>2, <2>3
<1>12. CASE Auth
  <2> USE <1>12 DEF Auth
  <2>1. CASE OpenTemp
    BY <1>10, <1>11, <2>1 DEF OpenTemp
  <2>2. CASE WriteTemp
    BY <1>10, <1>11, <2>2 DEF WriteTemp
  <2>3. CASE RenameTemp
    <3>1. CASE Renames
      BY <1>10, <2>3, <3>1 DEF RenameTemp, Renames, Persisting
    <3>2. CASE ~Renames
      BY <1>0, <1>11, <2>3, <3>2
      DEF RenameTemp, RenameFails, Durable, diskVars, Persisting, InStep, CounterTypeOK
    <3> QED
      BY <3>1, <3>2
  <2>4. CASE RemoveTarget
    BY <1>11, <2>4 DEF RemoveTarget, Persisting
  <2>5. CASE RenameAgain
    <3>1. CASE Renames
      BY <1>10, <2>5, <3>1 DEF RenameAgain, Renames, Persisting
    <3>2. CASE ~Renames
      BY <1>10, <2>5, <3>2 DEF RenameAgain
    <3> QED
      BY <3>1, <3>2
  <2> QED
    BY <2>1, <2>2, <2>3, <2>4, <2>5 DEF persistServerCounter
<1> HIDE DEF CInv
<1> QED
  BY <1>1, <1>2, <1>3, <1>4, <1>6, <1>7, <1>8, <1>9, <1>12, CounterCases

Invariant == TypeOK /\ LInv /\ Threadless /\ CInv

LEMMA InvariantCorrect == Spec => []Invariant
<1>1. Init => Invariant
  BY TypeInit, ListenerInit, CounterInit DEF Invariant, Init, Fresh, Threadless
<1>2. Invariant /\ [Next]_vars => Invariant'
  BY TypeStep, ListenerStep, ThreadsStep, CounterStep DEF Invariant
<1> QED
  BY <1>1, <1>2, PTL DEF Spec

LEMMA CounterImplied == CInv => CounterKept
  BY DEF CInv, InStep, FirstRun, CounterKept

\* Wherever the process ends and whatever calls fail, the counter file is never
\* torn, and with a rename that replaces and can be relied on it is never lost.
THEOREM CounterKeptCorrect == Spec => []CounterKept
  BY InvariantCorrect, CounterImplied, PTL DEF Invariant

LEMMA Refused ==
    ASSUME Invariant, [Next]_vars, NEW c \in Connections, ~forgotten, ~destroyed,
           thread[c] = "authenticating", thread'[c] = "executing"
    PROVE  token[c] \notin refused
<1>1. authenticate(c)
  <2>1. thread'[c] # thread[c]
    OBVIOUS
  <2>2. ASSUME Main \/ Block \/ AcceptTransient \/ Crash PROVE FALSE
    BY <2>1, <2>2
    DEF Main, Start, MakeListener, PublishListener, LoopTest, Accept, AcceptOnClosed, AcceptFails,
        CloseListener, Flush, ReturnFromServer, Exit, Crash, ExitProcess, Block, AcceptTransient,
        Invariant, TypeOK
  <2>3. ASSUME Auth \/ Revoke \/ Mint \/ UNCHANGED vars PROVE FALSE
    BY <2>1, <2>3 DEF Auth, Revoke, Mint, vars, serverVars
  <2>4. ASSUME NEW s \in Signals, RaiseFlag(s) \/ SignalHandler(s) PROVE FALSE
    BY <2>1, <2>4 DEF RaiseFlag, SignalHandler, SwapListener, CloseTaken
  <2>5. ASSUME NEW d \in Connections,
               \/ Connect(d) \/ ReadRequest(d) \/ ReadFails(d) \/ ReadTimesOut(d)
               \/ Execute(d) \/ Respond(d)
        PROVE  FALSE
    BY <2>5 DEF Connect, ReadRequest, ReadFails, ReadTimesOut, Execute, Respond, ThreadAt, Invariant,
                TypeOK
  <2>6. ASSUME NEW d \in Connections, authenticate(d) PROVE d = c
    BY <2>1, <2>6 DEF authenticate, ThreadAt, Invariant, TypeOK
  <2> QED
    BY <2>2, <2>3, <2>4, <2>5, <2>6 DEF Next
<1>2. token[c] # Bad /\ token[c] = serverCounter
  BY <1>1 DEF authenticate, verifyToken, ThreadAt, Invariant, TypeOK
<1>3. Up /\ serverCounter \in Int
  BY DEF Invariant, Threadless, TypeOK, CounterTypeOK, Generations
<1> QED
  BY <1>2, <1>3 DEF Invariant, CInv, Behind, NewestIs

\* No token that was refused as revoked, or that a revokeAll left behind, ever gets
\* a request through again, over any number of lives of the server.
THEOREM RevokedStayRevokedCorrect == Spec => RevokedStayRevoked
<1>1. Invariant /\ [Next]_vars =>
        [\A c \in Connections :
            ~forgotten /\ ~destroyed /\ thread[c] = "authenticating" /\ thread'[c] = "executing"
              => token[c] \notin refused]_vars
  BY Refused
<1> QED
  BY <1>1, InvariantCorrect, PTL DEF Spec, RevokedStayRevoked
=============================================================================
