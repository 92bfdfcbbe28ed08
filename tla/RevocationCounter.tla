------------------------- MODULE RevocationCounter --------------------------
(***************************************************************************)
(* The revocation counter of the server: AuthState in memory, the text     *)
(* file that carries it over a restart, and the file calls of              *)
(* persistServerCounter, any of which may fail or be the last before the   *)
(* process ends.  A token is its generation: seal, expiry and address are  *)
(* one way of being Bad.  Nothing in src/ calls revokeAll yet              *)
(* (UseServer.cpp:203): here any thread of the running server may.         *)
(***************************************************************************)
EXTENDS Integers

CONSTANTS
    MaxCounter,        \* bound: generations
    NoFile, Torn,      \* contents that are no counter
    Bad,               \* any token that fails another check than the generation
    Platforms          \* what the process may run on

\* What a platform makes of the calls: whether std::rename replaces a file, the
\* calls that may fail, and whether closing the listener wakes a blocked accept().
Platform ==
    [replacing : BOOLEAN, faults : SUBSET {"read", "open", "write", "rename", "remove"}, wakes : BOOLEAN]

ASSUME CounterAssumption ==
    /\ MaxCounter \in Nat
    /\ NoFile \notin Int /\ Torn \notin Int /\ NoFile # Torn /\ Bad \notin Int
    /\ Platforms \subseteq Platform

VARIABLES
    platform,
    counterFile, temp,     \* server_counter.txt and its .tmp
    serverCounter,         \* AuthState's, in memory
    lock,                  \* who holds AuthState's mutex: "free", or an operation
    call,                  \* its next file call
    value,                 \* the counter it writes
    minted,                \* generations tokens have been minted under
    refused,               \* generations refused as revoked, or left behind
    forgotten              \* a start took a file lost, or not opened, for a first run

persistVars == <<lock, call, value>>
diskVars == <<counterFile, temp>>
counterVars == <<platform, diskVars, serverCounter, persistVars, minted, refused, forgotten>>

Generations == 0..MaxCounter
Contents == Generations \cup {NoFile, Torn}

Fails(fault) == fault \in platform.faults
\* rename is atomic and goes through: the fallback is never needed.  And the file
\* can be read back.
Durable == platform.replacing /\ ~Fails("rename") /\ ~Fails("read")

InitCounter ==
    /\ platform \in Platforms
    /\ counterFile \in {0, NoFile} /\ temp = NoFile      \* as shipped; a new volume
    /\ serverCounter = 0
    /\ lock = "free" /\ call = "none" /\ value = 0
    /\ minted = {} /\ refused = {} /\ forgotten = FALSE

-----------------------------------------------------------------------------
\* AuthState

\* What the ifstream finds: a file that cannot be opened looks like none.
Opened == {counterFile} \cup (IF Fails("read") THEN {NoFile} ELSE {})

\* No file is a first run; one without a number keeps the server from starting.
readServerCounterRaw(file) == file
readServerCounter(file) == IF file = NoFile THEN 0 ELSE file

readAuthState ==
    \E file \in Opened \ {Torn} :
        /\ serverCounter' = readServerCounter(file)
        /\ forgotten' = (forgotten \/ (/\ file = NoFile
                                      /\ \/ counterFile \notin {0, NoFile}
                                         \/ refused # {} \/ minted \ {0} # {}))
        /\ UNCHANGED <<platform, diskVars, persistVars, minted, refused>>

Persist(operation, counter) ==
    /\ lock = "free"
    /\ lock' = operation /\ value' = counter /\ call' = "open"
    /\ UNCHANGED <<platform, diskVars, minted, refused, forgotten>>

\* A revokeAll that counts in memory before the file has it.
revokeAllMemoryFirst ==
    /\ serverCounter < MaxCounter
    /\ serverCounter' = serverCounter + 1
    /\ Persist("revokeAll", serverCounter + 1)

revokeAll ==
    /\ serverCounter < MaxCounter
    /\ Persist("revokeAll", serverCounter + 1)
    /\ UNCHANGED serverCounter

persistCurrent == Persist("persistCurrent", serverCounter) /\ UNCHANGED serverCounter

Return(ok) ==
    LET revoked == lock = "revokeAll" /\ ok
    IN  /\ lock' = "free" /\ call' = "none" /\ value' = 0
        /\ serverCounter' = IF revoked THEN value ELSE serverCounter
        /\ refused' = IF revoked THEN refused \cup 0..(value - 1) ELSE refused
        /\ UNCHANGED forgotten

Goto(next) == call' = next /\ UNCHANGED <<lock, value, serverCounter, refused, forgotten>>

OpenTemp ==
    /\ call = "open"
    /\ \/ temp' = Torn /\ Goto("write")
       \/ Fails("open") /\ UNCHANGED temp /\ Return(FALSE)
    /\ UNCHANGED <<platform, counterFile, minted>>

\* Insertion, flush and close, and the look at the stream after them.
WriteUnchecked ==
    /\ call = "write"
    /\ \/ temp' = value
       \/ Fails("write") /\ UNCHANGED temp
    /\ Goto("rename")
    /\ UNCHANGED <<platform, counterFile, minted>>
WriteTemp ==
    /\ call = "write"
    /\ \/ temp' = value /\ Goto("rename")
       \/ Fails("write") /\ temp' = NoFile /\ Return(FALSE)
    /\ UNCHANGED <<platform, counterFile, minted>>

\* The call: it needs a free destination where it does not replace.
Renames ==
    /\ platform.replacing \/ counterFile = NoFile
    /\ counterFile' = temp /\ temp' = NoFile
    /\ Return(TRUE)
RenameFails == Fails("rename") \/ ~(platform.replacing \/ counterFile = NoFile)

RenameTemp ==
    /\ call = "rename"
    /\ \/ Renames
       \/ RenameFails /\ Goto("removeTarget") /\ UNCHANGED diskVars
    /\ UNCHANGED <<platform, minted>>

RemoveTarget ==
    /\ call = "removeTarget"
    /\ \/ counterFile' = NoFile
       \/ Fails("remove") /\ UNCHANGED counterFile
    /\ Goto("renameAgain")
    /\ UNCHANGED <<platform, temp, minted>>

RenameAgain ==
    /\ call = "renameAgain"
    /\ \/ Renames
       \/ RenameFails /\ temp' = NoFile /\ Return(FALSE) /\ UNCHANGED counterFile
    /\ UNCHANGED <<platform, minted>>

persistServerCounter == OpenTemp \/ WriteTemp \/ RenameTemp \/ RemoveTarget \/ RenameAgain

\* Another process, `SuedeServer --mint`: it reads the file, whoever is writing it.
runMint ==
    /\ \E file \in Opened \ {Torn} : minted' = minted \cup {readServerCounter(file)}
    /\ UNCHANGED <<platform, diskVars, serverCounter, persistVars, refused, forgotten>>

\* For the thread that calls it, once it has the mutex.
verifyToken(token) == IF token = Bad THEN "Invalid" ELSE
                      IF token # serverCounter THEN "Revoked" ELSE "Ok"

\* The process ends, whatever it was doing: the disk stays.
ProcessEnds ==
    /\ lock' = "free" /\ call' = "none" /\ value' = 0
    /\ serverCounter' = 0
    /\ UNCHANGED <<platform, diskVars, minted, refused, forgotten>>

-----------------------------------------------------------------------------

CounterTypeOK ==
    /\ platform \in Platforms
    /\ counterFile \in Contents /\ temp \in Contents
    /\ serverCounter \in Generations
    /\ lock \in {"free", "revokeAll", "persistCurrent"}
    /\ call \in {"none", "open", "write", "rename", "removeTarget", "renameAgain"}
    /\ value \in Generations
    /\ minted \subseteq Generations /\ refused \subseteq Generations
    /\ forgotten \in BOOLEAN

\* Auth.h:76 "a crash mid-write can never leave a truncated/empty counter file", on
\* no platform; and where the rename replaces, and neither it nor reading fails, no
\* crash and no other failing call leaves a revocation without the file that
\* remembers it.
CounterKept ==
    /\ counterFile # Torn
    /\ Durable => ~forgotten /\ (refused # {} => counterFile # NoFile)
=============================================================================
