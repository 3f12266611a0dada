--------------------- MODULE StreamPluginManagerProofs ---------------------
(***************************************************************************)
(* What is proved of StreamPluginManager for every number of libraries,    *)
(* threads and signals.  LoadInv says what the sets hold at each step of   *)
(* loadPlugins(); HandlerInv who is in the signal handler, what it has done*)
(* and that nothing is loaded once it unloads.                             *)
(***************************************************************************)
EXTENDS StreamPluginManager, FiniteSetTheorems, TLAPS

ManagerType == TypeOK /\ (step \notin {"open", "serve"} => lib \in Libs)

Taken == IF step \in {"open", "serve"} THEN {} ELSE {lib}

LoadInv ==
  /\ step \in {"open", "symbols", "create", "register", "serve"} =>
       fsProviders = mPlugins
  /\ step \in {"create", "register", "version"} => ~Loaded(pluginId[lib])
  /\ step = "version" => fsProviders = mPlugins \cup {lib}
  /\ step = "store" => lib \in mPlugins /\ fsProviders = mPlugins
  /\ \A k \in mPlugins : k <= lib /\ (step # "store" => k < lib)
  /\ \A k \in rejected : k < lib
  /\ ~isSigtermTriggered => opened = mPlugins \cup rejected \cup Taken

Critical == {"check", "mark", "unload", "free", "umount", "default", "raise",
             "unlock"}
AfterMark == {"unload", "free", "umount", "default", "raise"}
AfterFree == {"umount", "default", "raise"}

MutexInv ==
  /\ \A t \in Threads : handler[t] \in Critical => sighandler_mutex = t
  /\ sighandler_mutex # Nobody => handler[sighandler_mutex] \in Critical

\* While plugins are loaded only the main thread is interrupted.
WorkersServe == \A t \in Threads : handler[t] # "none" => t = Main \/ step = "serve"

Untouched ==
  ~isSigtermTriggered =>
    /\ unloads = [l \in Libs |-> 0]
    /\ unloading = [t \in Threads |-> 1]
    /\ \A t \in Threads : handler[t] \notin AfterMark
    /\ raised = {}
    /\ disposition = "handler"

\* Once the handler unloads, loadPlugins() does not go on.
LoadingStopped ==
  isSigtermTriggered /\ Running =>
    \/ step = "serve"
    \/ handler[Main] \in AfterMark
    \/ handler[Main] \in {"unlock", "return"} /\ Main \in raised

HandlerInv ==
  /\ MutexInv
  /\ WorkersServe
  /\ Untouched
  /\ \A t \in Threads : handler[t] = "mark" => ~isSigtermTriggered
  /\ LoadingStopped

\* The handles are of different libraries, in the order of loading.
ArrayInv ==
  /\ \A i \in DOMAIN mHandleArray : mHandleArray[i] < lib
  /\ \A i, j \in DOMAIN mHandleArray : i < j => mHandleArray[i] < mHandleArray[j]

UnloadInv ==
  /\ \A t \in Threads : handler[t] = "unload" =>
       \A i \in DOMAIN mHandleArray :
         unloading[t] <= i => unloads[mHandleArray[i]] = 0
  /\ UnloadedOnce

AllUnloaded ==
  step = "serve" => \E t \in Threads : unloading[t] > Cardinality(mPlugins)

Freed ==
  \/ \E t \in Threads : handler[t] \in AfterFree
  \/ raised # {}
  \/ disposition = "default"
  \/ process = "killed"

FreedInv ==
  /\ ~Freed => Cardinality(mPlugins) <=
                 Len(mHandleArray) + (IF step = "store" THEN 1 ELSE 0)
  /\ (\E t \in Threads : handler[t] = "free") => AllUnloaded
  /\ Freed => mHandleArray = <<>> /\ AllUnloaded
-----------------------------------------------------------------------------
LEMMA LoadFrame ==
  Load => /\ UNCHANGED <<pluginId, handler, unloading, sighandler_mutex,
                         isSigtermTriggered, disposition, raised, signals,
                         unloads, process>>
          /\ Running /\ handler[Main] = "none" /\ step # "serve"
  BY DEF Load, LoadOpen, LoadSymbols, LoadCreate, LoadRegister, LoadVersion,
         LoadStore, Serve, MainAt, loading, library, signal

LEMMA HandlerFrame ==
  ASSUME NEW t, Handler(t)
  PROVE  /\ UNCHANGED <<pluginId, step, lib, mPlugins, rejected, fsProviders,
                        signals>>
         /\ Running /\ handler[t] # "none"
  BY DEF Handler, HandlerLock, HandlerCheck, HandlerMark, UnloadPlugin,
         UnloadEnd, UnloadFree, HandlerUmount, HandlerDefault, HandlerRaise,
         HandlerUnlock, HandlerReturn, HandlerAt, loading, library

LEMMA SigtermFrame ==
  ASSUME NEW t, Sigterm(t)
  PROVE  /\ UNCHANGED <<pluginId, step, lib, mPlugins, rejected, opened,
                        fsProviders, mHandleArray, unloading,
                        sighandler_mutex, isSigtermTriggered, disposition,
                        raised, unloads>>
         /\ Running /\ handler[t] = "none" /\ (t = Main \/ step = "serve")
  BY DEF Sigterm, HandlerAt, loading, library

-----------------------------------------------------------------------------
LEMMA TypeInit == Init => ManagerType
<1> SUFFICES ASSUME Init PROVE ManagerType
  OBVIOUS
<1> USE ManagerAssumption DEF Init
<1>1. pluginId \in [Libs -> Ids] /\ unloads \in [Libs -> Nat]
  OBVIOUS
<1>2. handler \in [Threads -> HandlerPC] /\ unloading \in [Threads -> Nat \ {0}]
  BY DEF HandlerPC
<1>3. step \in LoadStep /\ lib \in 1 .. NumLibs + 1 /\ signals \in 0 .. MaxSignals
  BY DEF LoadStep
<1>4. mHandleArray \in Seq(Libs)
  OBVIOUS
<1> QED
  BY <1>1, <1>2, <1>3, <1>4 DEF ManagerType, TypeOK

LEMMA TypeStep == ManagerType /\ [Next]_vars => ManagerType'
<1> SUFFICES ASSUME ManagerType, [Next]_vars PROVE ManagerType'
  OBVIOUS
<1> USE ManagerAssumption
<1>0. NumLibs \in Nat /\ lib \in 1 .. NumLibs + 1 /\ mHandleArray \in Seq(Libs)
  BY DEF ManagerType, TypeOK
<1>1. ASSUME Load
      PROVE  ManagerType'
  <2>1. /\ UNCHANGED <<pluginId, handler, unloading, sighandler_mutex,
                       isSigtermTriggered, disposition, raised, signals,
                       unloads, process>>
        /\ step \in LoadStep /\ (step \notin {"open", "serve"} => lib \in 1 .. NumLibs)
        /\ opened \subseteq Libs /\ fsProviders \subseteq Libs
        /\ mPlugins \subseteq Libs /\ rejected \subseteq Libs
    BY <1>1, LoadFrame DEF ManagerType, TypeOK, Libs
  <2>2. /\ step' \in LoadStep
        /\ lib' \in 1 .. NumLibs + 1
        /\ step' \notin {"open", "serve"} => lib' \in 1 .. NumLibs
    <3> USE <1>0, <2>1 DEF MainAt, Proceed, NextLib, Ignore, LoadStep
    <3>1. CASE LoadOpen \/ Serve
      BY <3>1 DEF LoadOpen, Serve, LibFound
    <3>2. CASE LoadSymbols \/ LoadCreate \/ LoadRegister
      BY <3>2 DEF LoadSymbols, LoadCreate, LoadRegister
    <3>3. CASE LoadVersion \/ LoadStore
      BY <3>3 DEF LoadVersion, LoadStore
    <3> QED
      BY <1>1, <3>1, <3>2, <3>3 DEF Load
  <2>3. /\ opened' \subseteq Libs /\ fsProviders' \subseteq Libs
        /\ mPlugins' \subseteq Libs /\ rejected' \subseteq Libs
    <3> USE <1>0, <2>1 DEF MainAt, Libs
    <3>1. CASE LoadOpen \/ Serve
      BY <3>1 DEF LoadOpen, Serve, LibFound, library
    <3>2. CASE LoadSymbols \/ LoadCreate \/ LoadRegister
      BY <3>2 DEF LoadSymbols, LoadCreate, LoadRegister, Ignore
    <3>3. CASE LoadVersion \/ LoadStore
      BY <3>3 DEF LoadVersion, LoadStore
    <3> QED
      BY <1>1, <3>1, <3>2, <3>3 DEF Load
  <2>4. mHandleArray' \in Seq(Libs)
    <3>1. CASE LoadStore
      <4>1. lib \in Libs /\ mHandleArray' = Append(mHandleArray, lib)
        BY <3>1, <2>1 DEF LoadStore, MainAt, Libs
      <4> QED
        BY <1>0, <4>1
    <3> QED
      BY <1>0, <1>1, <3>1 DEF Load, LoadOpen, LoadSymbols, LoadCreate,
         LoadRegister, LoadVersion, Serve, library
  <2> QED
    BY <2>1, <2>2, <2>3, <2>4 DEF ManagerType, TypeOK, Libs
<1>2. ASSUME Exit
      PROVE  ManagerType'
  BY <1>2 DEF Exit, MainAt, loading, library, signal, ManagerType, TypeOK
<1>3. ASSUME NEW t \in Threads, Sigterm(t)
      PROVE  ManagerType'
  <2>1. signals' \in 0 .. MaxSignals
    BY <1>3 DEF Sigterm, ManagerType, TypeOK
  <2>2. handler' \in [Threads -> HandlerPC] /\ process' \in {"running", "killed", "exited"}
    BY <1>3 DEF Sigterm, HandlerGoto, HandlerPC, ManagerType, TypeOK
  <2> QED
    BY <1>3, <2>1, <2>2, SigtermFrame DEF ManagerType, TypeOK
<1>4. ASSUME NEW t \in Threads, Handler(t)
      PROVE  ManagerType'
  <2>1. UNCHANGED <<pluginId, step, lib, mPlugins, rejected, fsProviders, signals>>
    BY <1>4, HandlerFrame
  <2> USE <2>1 DEF ManagerType, TypeOK, HandlerAt, HandlerGoto, HandlerPC, loading, library
  <2>2. CASE HandlerLock(t)
    BY <2>2 DEF HandlerLock
  <2>3. CASE HandlerCheck(t) \/ HandlerMark(t) \/ UnloadEnd(t) \/ HandlerUmount(t)
    BY <2>3 DEF HandlerCheck, HandlerMark, UnloadEnd, HandlerUmount
  <2>4. CASE UnloadPlugin(t)
    <3>1. unloading' \in [Threads -> Nat \ {0}]
      BY <2>4 DEF UnloadPlugin
    <3>2. opened' \subseteq Libs /\ unloads' \in [Libs -> Nat]
      BY <2>4 DEF UnloadPlugin
    <3> QED
      BY <2>4, <3>1, <3>2 DEF UnloadPlugin
  <2>5. CASE UnloadFree(t)
    BY <2>5 DEF UnloadFree
  <2>6. CASE HandlerDefault(t) \/ HandlerRaise(t)
    BY <2>6 DEF HandlerDefault, HandlerRaise
  <2>7. CASE HandlerUnlock(t) \/ HandlerReturn(t)
    BY <2>7 DEF HandlerUnlock, HandlerReturn
  <2> QED
    BY <1>4, <2>2, <2>3, <2>4, <2>5, <2>6, <2>7 DEF Handler
<1>5. ASSUME UNCHANGED vars
      PROVE  ManagerType'
  BY <1>5 DEF vars, loading, library, signal, ManagerType, TypeOK
<1> QED
  BY <1>1, <1>2, <1>3, <1>4, <1>5 DEF Next

-----------------------------------------------------------------------------
LEMMA HandlerInit == Init => HandlerInv
  BY ManagerAssumption DEF Init, HandlerInv, MutexInv, WorkersServe, Untouched,
     LoadingStopped, Critical, AfterMark, Threads

LEMMA HandlerStep == ManagerType /\ HandlerInv /\ [Next]_vars => HandlerInv'
<1> SUFFICES ASSUME ManagerType, HandlerInv, [Next]_vars PROVE HandlerInv'
  OBVIOUS
<1> USE ManagerAssumption
<1>0. /\ handler \in [Threads -> HandlerPC] /\ Main \in Threads
      /\ sighandler_mutex \in Threads \cup {Nobody} /\ Nobody \notin Threads
      /\ isSigtermTriggered \in BOOLEAN
  BY DEF ManagerType, TypeOK, Threads
<1>1. ASSUME Load
      PROVE  HandlerInv'
  <2>1. /\ UNCHANGED <<handler, unloading, sighandler_mutex,
                       isSigtermTriggered, disposition, raised, unloads, process>>
        /\ Running /\ handler[Main] = "none" /\ step # "serve"
    BY <1>1, LoadFrame
  <2>2. ~isSigtermTriggered
    BY <2>1 DEF HandlerInv, LoadingStopped, AfterMark
  <2> QED
    BY <2>1, <2>2 DEF HandlerInv, MutexInv, WorkersServe, Untouched, LoadingStopped
<1>2. ASSUME Exit
      PROVE  HandlerInv'
  BY <1>2 DEF Exit, Running, loading, library, signal, HandlerInv, MutexInv,
              WorkersServe, Untouched, LoadingStopped
<1>3. ASSUME NEW t \in Threads, Sigterm(t)
      PROVE  HandlerInv'
  <2>1. /\ UNCHANGED <<step, unloading, sighandler_mutex, isSigtermTriggered,
                       disposition, raised, unloads>>
        /\ Running /\ handler[t] = "none" /\ (t = Main \/ step = "serve")
    BY <1>3, SigtermFrame
  <2>2. handler' \in {handler, [handler EXCEPT ![t] = "lock"]}
    BY <1>3 DEF Sigterm, HandlerGoto
  <2>3. \A u \in Threads : /\ handler'[u] \in Critical <=> handler[u] \in Critical
                           /\ handler'[u] \in AfterMark <=> handler[u] \in AfterMark
                           /\ handler'[u] \in {"mark", "unlock", "return"} <=>
                                handler[u] \in {"mark", "unlock", "return"}
                           /\ u # t => handler'[u] = handler[u]
                           /\ handler'[t] # "mark"
    BY <1>0, <2>1, <2>2 DEF Critical, AfterMark
  <2>4. MutexInv' /\ WorkersServe'
    BY <1>0, <2>1, <2>3 DEF HandlerInv, MutexInv, WorkersServe
  <2>5. Untouched'
    BY <2>1, <2>3 DEF HandlerInv, Untouched
  <2>6. LoadingStopped'
    BY <1>0, <2>1, <2>3 DEF HandlerInv, LoadingStopped, AfterMark, Running
  <2> QED
    BY <2>1, <2>3, <2>4, <2>5, <2>6 DEF HandlerInv
<1>4. ASSUME NEW t \in Threads, Handler(t)
      PROVE  HandlerInv'
  <2>0. /\ UNCHANGED step /\ Running /\ handler[t] # "none"
        /\ t = Main \/ step = "serve"
    BY <1>4, HandlerFrame DEF HandlerInv, WorkersServe
  <2>1. handler' = [handler EXCEPT ![t] = handler'[t]]
    BY <1>0, <1>4 DEF Handler, HandlerLock, HandlerCheck, HandlerMark, UnloadPlugin,
         UnloadEnd, UnloadFree, HandlerUmount, HandlerDefault, HandlerRaise,
         HandlerUnlock, HandlerReturn, HandlerGoto
  <2>2. WorkersServe'
    BY <1>0, <2>0, <2>1 DEF HandlerInv, WorkersServe
  <2>3. MutexInv'
    <3> USE <1>0 DEF HandlerInv, MutexInv, Critical, HandlerAt, HandlerGoto
    <3>1. CASE HandlerLock(t)
      BY <3>1 DEF HandlerLock
    <3>2. CASE HandlerCheck(t) \/ HandlerMark(t) \/ UnloadPlugin(t) \/ UnloadEnd(t)
      BY <3>2 DEF HandlerCheck, HandlerMark, UnloadPlugin, UnloadEnd
    <3>3. CASE UnloadFree(t) \/ HandlerUmount(t) \/ HandlerDefault(t) \/ HandlerRaise(t)
      BY <3>3 DEF UnloadFree, HandlerUmount, HandlerDefault, HandlerRaise
    <3>4. CASE HandlerUnlock(t) \/ HandlerReturn(t)
      BY <3>4 DEF HandlerUnlock, HandlerReturn
    <3> QED
      BY <1>4, <3>1, <3>2, <3>3, <3>4 DEF Handler
  <2>4. Untouched'
    <3> USE <1>0 DEF HandlerInv, Untouched, AfterMark, HandlerAt, HandlerGoto
    <3>1. CASE HandlerLock(t) \/ HandlerCheck(t) \/ HandlerMark(t)
      BY <3>1 DEF HandlerLock, HandlerCheck, HandlerMark
    <3>2. CASE UnloadPlugin(t) \/ UnloadEnd(t) \/ UnloadFree(t) \/ HandlerUmount(t)
      BY <3>2 DEF UnloadPlugin, UnloadEnd, UnloadFree, HandlerUmount
    <3>3. CASE HandlerDefault(t) \/ HandlerRaise(t)
      BY <3>3 DEF HandlerDefault, HandlerRaise
    <3>4. CASE HandlerUnlock(t) \/ HandlerReturn(t)
      BY <3>4 DEF HandlerUnlock, HandlerReturn
    <3> QED
      BY <1>4, <3>1, <3>2, <3>3, <3>4 DEF Handler
  <2>5. \A u \in Threads : handler'[u] = "mark" => ~isSigtermTriggered'
    <3>1. CASE HandlerMark(t)
      BY <1>0, <3>1 DEF HandlerMark, HandlerAt, HandlerGoto, HandlerInv, MutexInv, Critical
    <3>2. CASE ~HandlerMark(t)
      BY <1>0, <1>4, <3>2 DEF Handler, HandlerLock, HandlerCheck, UnloadPlugin,
         UnloadEnd, UnloadFree, HandlerUmount, HandlerDefault, HandlerRaise,
         HandlerUnlock, HandlerReturn, HandlerGoto, HandlerAt, HandlerInv
    <3> QED
      BY <3>1, <3>2
  <2>6. LoadingStopped'
    <3>1. CASE step = "serve"
      BY <2>0, <3>1 DEF LoadingStopped
    <3>2. CASE step # "serve"
      <4>1. t = Main /\ \A u \in Threads : u # Main => handler[u] = "none"
        BY <1>0, <2>0, <3>2 DEF HandlerInv, WorkersServe
      <4>2. sighandler_mutex \in {Main, Nobody}
        BY <1>0, <4>1 DEF HandlerInv, MutexInv, Critical
      <4> USE <1>0, <4>1, <2>0
          DEF HandlerInv, LoadingStopped, MutexInv, Critical, AfterMark, HandlerAt,
              HandlerGoto, Running
      <4>3. CASE HandlerLock(Main)
        BY <4>2, <4>3 DEF HandlerLock
      <4>4. CASE HandlerCheck(Main) \/ HandlerMark(Main)
        BY <4>4 DEF HandlerCheck, HandlerMark
      <4>5. CASE UnloadPlugin(Main) \/ UnloadEnd(Main) \/ UnloadFree(Main)
        BY <4>5 DEF UnloadPlugin, UnloadEnd, UnloadFree
      <4>6. CASE HandlerUmount(Main) \/ HandlerDefault(Main) \/ HandlerRaise(Main)
        BY <4>6 DEF HandlerUmount, HandlerDefault, HandlerRaise
      <4>7. CASE HandlerUnlock(Main) \/ HandlerReturn(Main)
        BY <4>7 DEF HandlerUnlock, HandlerReturn
      <4> QED
        BY <1>4, <4>3, <4>4, <4>5, <4>6, <4>7 DEF Handler
    <3> QED
      BY <3>1, <3>2
  <2> QED
    BY <2>2, <2>3, <2>4, <2>5, <2>6 DEF HandlerInv
<1>5. ASSUME UNCHANGED vars
      PROVE  HandlerInv'
  BY <1>5 DEF vars, loading, library, signal, HandlerInv, MutexInv, WorkersServe,
              Untouched, LoadingStopped, Running
<1> QED
  BY <1>1, <1>2, <1>3, <1>4, <1>5 DEF Next

-----------------------------------------------------------------------------
LEMMA LoadInit == Init => LoadInv
  BY DEF Init, LoadInv, Taken

LEMMA LoadInvStep ==
  ManagerType /\ HandlerInv /\ LoadInv /\ [Next]_vars => LoadInv'
<1> SUFFICES ASSUME ManagerType, HandlerInv, LoadInv, [Next]_vars PROVE LoadInv'
  OBVIOUS
<1> USE ManagerAssumption
<1>0. /\ lib \in Nat /\ mPlugins \subseteq Nat /\ rejected \subseteq Nat
      /\ step \in LoadStep
  BY DEF ManagerType, TypeOK, Libs
<1>1. ASSUME Load
      PROVE  LoadInv'
  <2>1. UNCHANGED <<pluginId, isSigtermTriggered>>
    BY <1>1, LoadFrame
  <2> USE <1>0, <2>1 DEF LoadInv, Taken, MainAt, Proceed, NextLib, Ignore
  <2>2. CASE LoadOpen
    BY <2>2 DEF LoadOpen
  <2>3. CASE LoadSymbols
    BY <2>3 DEF LoadSymbols, Duplicate, Loaded
  <2>4. CASE LoadCreate
    BY <2>4 DEF LoadCreate, Loaded
  <2>5. CASE LoadRegister
    BY <2>5 DEF LoadRegister, Loaded, ProviderOf
  <2>6. CASE LoadVersion
    <3>1. /\ step = "version" /\ fsProviders = mPlugins \cup {lib}
          /\ \A k \in mPlugins : pluginId[k] # pluginId[lib] /\ k < lib
          /\ UNCHANGED opened
      BY <2>6 DEF LoadVersion, Loaded
    <3>2. CASE rejected' = rejected \cup {lib} /\ step' = "open"
      <4>1. /\ lib' = lib + 1 /\ mPlugins' = mPlugins
            /\ fsProviders' = fsProviders \ ProviderOf(pluginId[lib])
        BY <2>6, <3>2 DEF LoadVersion
      <4>2. fsProviders' = mPlugins
        BY <3>1, <4>1 DEF ProviderOf
      <4> QED
        BY <3>1, <3>2, <4>1, <4>2
    <3>3. CASE rejected' = rejected /\ step' = "store"
      <4>1. /\ lib' = lib /\ mPlugins' = mPlugins \cup {lib}
            /\ fsProviders' = fsProviders
        BY <2>6, <3>1, <3>3 DEF LoadVersion, Loaded
      <4> QED
        BY <3>1, <3>3, <4>1
    <3> QED
      BY <2>6, <3>2, <3>3 DEF LoadVersion
  <2>7. CASE LoadStore
    <3>1. /\ step = "store" /\ step' = "open" /\ lib' = lib + 1
          /\ lib \in mPlugins /\ fsProviders = mPlugins
          /\ UNCHANGED <<opened, mPlugins, fsProviders, rejected>>
      BY <2>7 DEF LoadStore
    <3>2. /\ \A k \in mPlugins : k < lib'
          /\ \A k \in rejected : k < lib'
      BY <3>1
    <3>3. ~isSigtermTriggered => opened = mPlugins \cup rejected
      BY <3>1
    <3> QED
      BY <3>1, <3>2, <3>3
  <2>8. CASE Serve
    BY <2>8 DEF Serve, library
  <2> QED
    BY <1>1, <2>2, <2>3, <2>4, <2>5, <2>6, <2>7, <2>8 DEF Load
<1>2. ASSUME NEW t \in Threads, Handler(t)
      PROVE  LoadInv'
  <2>1. UNCHANGED <<pluginId, step, lib, mPlugins, rejected, fsProviders>>
    BY <1>2, HandlerFrame
  <2>2. ~isSigtermTriggered' => ~isSigtermTriggered /\ UNCHANGED opened
    BY <1>2 DEF Handler, HandlerLock, HandlerCheck, HandlerMark, UnloadPlugin,
       UnloadEnd, UnloadFree, HandlerUmount, HandlerDefault, HandlerRaise,
       HandlerUnlock, HandlerReturn, HandlerAt, library, HandlerInv, Untouched,
       AfterMark
  <2> QED
    BY <2>1, <2>2 DEF LoadInv, Taken, Loaded
<1>3. ASSUME UNCHANGED <<loading, opened, fsProviders, isSigtermTriggered>>
      PROVE  LoadInv'
  BY <1>3 DEF loading, LoadInv, Taken, Loaded
<1>4. ASSUME NEW t \in Threads, Sigterm(t)
      PROVE  LoadInv'
  BY <1>3, <1>4 DEF Sigterm, library
<1> QED
  BY <1>1, <1>2, <1>3, <1>4 DEF Next, Exit, vars, library, signal

-----------------------------------------------------------------------------
LEMMA UnloadInit == Init => ArrayInv /\ UnloadInv
  BY DEF Init, ArrayInv, UnloadInv, UnloadedOnce

LEMMA UnloadStep ==
  ManagerType /\ HandlerInv /\ ArrayInv /\ UnloadInv /\ [Next]_vars
    => ArrayInv' /\ UnloadInv'
<1> SUFFICES ASSUME ManagerType, HandlerInv, ArrayInv, UnloadInv, [Next]_vars
             PROVE  ArrayInv' /\ UnloadInv'
  OBVIOUS
<1> USE ManagerAssumption
<1>0. /\ lib \in Nat /\ mHandleArray \in Seq(Libs) /\ Libs \subseteq Nat
      /\ unloads \in [Libs -> Nat] /\ unloading \in [Threads -> Nat \ {0}]
      /\ handler \in [Threads -> HandlerPC]
  BY DEF ManagerType, TypeOK, Libs
<1>1. ASSUME Load
      PROVE  ArrayInv' /\ UnloadInv'
  <2>1. /\ UNCHANGED <<handler, unloading, isSigtermTriggered, unloads>>
        /\ \A t \in Threads : handler[t] # "unload"
    BY <1>1, LoadFrame DEF HandlerInv, LoadingStopped, Untouched, AfterMark
  <2>2. UnloadInv'
    BY <2>1 DEF UnloadInv, UnloadedOnce
  <2>3. ArrayInv'
    <3>1. CASE LoadStore
      <4>1. mHandleArray' = Append(mHandleArray, lib) /\ lib' = lib + 1
        BY <3>1 DEF LoadStore, NextLib
      <4>2. /\ DOMAIN mHandleArray' = 1 .. Len(mHandleArray) + 1
            /\ DOMAIN mHandleArray = 1 .. Len(mHandleArray)
            /\ \A i \in DOMAIN mHandleArray' :
                 mHandleArray'[i] = IF i = Len(mHandleArray) + 1 THEN lib
                                    ELSE mHandleArray[i]
        BY <1>0, <4>1
      <4>3. \A i \in DOMAIN mHandleArray : mHandleArray[i] \in Nat
        BY <1>0
      <4> QED
        BY <1>0, <4>1, <4>2, <4>3 DEF ArrayInv
    <3>2. CASE ~LoadStore
      <4>1. mHandleArray' = mHandleArray /\ lib' \in {lib, lib + 1}
        BY <1>1, <3>2 DEF Load, LoadOpen, LoadSymbols, LoadCreate, LoadRegister,
           LoadVersion, Serve, Proceed, NextLib, Ignore, library
      <4>2. \A i \in DOMAIN mHandleArray : mHandleArray[i] \in Nat
        BY <1>0
      <4> QED
        BY <1>0, <4>1, <4>2 DEF ArrayInv
    <3> QED
      BY <3>1, <3>2
  <2> QED
    BY <2>2, <2>3
<1>2. ASSUME NEW t \in Threads, Handler(t)
      PROVE  ArrayInv' /\ UnloadInv'
  <2>0. lib' = lib
    BY <1>2, HandlerFrame
  <2>1. CASE UnloadPlugin(t)
    <3> DEFINE l == mHandleArray[unloading[t]]
    <3>1. /\ handler[t] = "unload" /\ handler' = handler
          /\ mHandleArray' = mHandleArray
          /\ unloading' = [unloading EXCEPT ![t] = @ + 1]
          /\ unloading[t] \in DOMAIN mHandleArray /\ l \in Libs
          /\ unloads' \in {unloads, [unloads EXCEPT ![l] = @ + 1]}
      BY <1>0, <2>1 DEF UnloadPlugin, HandlerAt
    <3>2. \A u \in Threads : handler[u] = "unload" => u = t
      BY <3>1 DEF HandlerInv, MutexInv, Critical
    <3>3. unloads[l] = 0
      BY <1>0, <3>1 DEF UnloadInv
    <3>4. UnloadedOnce'
      BY <1>0, <3>1, <3>3 DEF UnloadInv, UnloadedOnce
    <3>5. ASSUME NEW i \in DOMAIN mHandleArray, unloading[t] + 1 <= i
          PROVE  unloads'[mHandleArray[i]] = 0
      <4>1. unloading[t] < i /\ unloading[t] <= i
        BY <1>0, <3>1, <3>5
      <4>2. mHandleArray[i] \in Libs /\ mHandleArray[i] # l
        <5>1. mHandleArray[i] \in Libs /\ l < mHandleArray[i]
          BY <1>0, <3>1, <4>1 DEF ArrayInv
        <5>2. l \in Nat /\ mHandleArray[i] \in Nat
          BY <1>0, <3>1, <5>1
        <5>3. \A m, n \in Nat : m < n => n # m
          OBVIOUS
        <5> QED
          BY <5>1, <5>2, <5>3
      <4> QED
        BY <1>0, <3>1, <4>1, <4>2 DEF UnloadInv
    <3> QED
      BY <1>0, <2>0, <3>1, <3>2, <3>4, <3>5 DEF UnloadInv, ArrayInv
  <2>2. CASE HandlerMark(t)
    <3>1. /\ UNCHANGED <<mHandleArray, unloading, unloads>>
          /\ ~isSigtermTriggered
      BY <2>2 DEF HandlerMark, HandlerAt, library, HandlerInv
    <3>2. \A k \in Libs : unloads[k] = 0
      BY <3>1 DEF HandlerInv, Untouched
    <3> QED
      <4>1. ArrayInv'
        BY <2>0, <3>1 DEF ArrayInv
      <4>2. \A i \in DOMAIN mHandleArray : mHandleArray[i] \in Libs
        BY <1>0
      <4>3. UnloadedOnce'
        BY <3>1 DEF UnloadInv, UnloadedOnce
      <4>4. \A i \in DOMAIN mHandleArray' : unloads'[mHandleArray'[i]] = 0
        BY <3>1, <3>2, <4>2
      <4> QED
        BY <4>1, <4>3, <4>4 DEF UnloadInv
  <2>3. CASE UnloadFree(t)
    BY <2>3 DEF UnloadFree, UnloadInv, UnloadedOnce, ArrayInv
  <2>4. CASE ~(UnloadPlugin(t) \/ HandlerMark(t) \/ UnloadFree(t))
    <3>1. /\ UNCHANGED <<mHandleArray, unloading, unloads>>
          /\ \A u \in Threads : handler'[u] = "unload" => handler[u] = "unload"
      BY <1>0, <1>2, <2>4 DEF Handler, HandlerLock, HandlerCheck,
         UnloadEnd, HandlerUmount, HandlerDefault, HandlerRaise,
         HandlerUnlock, HandlerReturn, HandlerAt, HandlerGoto, library
    <3> QED
      BY <2>0, <3>1 DEF UnloadInv, UnloadedOnce, ArrayInv
  <2> QED
    BY <2>1, <2>2, <2>3, <2>4
<1>3. ASSUME UNCHANGED <<lib, mHandleArray, unloading, unloads>>,
             \A u \in Threads : handler'[u] = "unload" => handler[u] = "unload"
      PROVE  ArrayInv' /\ UnloadInv'
  BY <1>3 DEF UnloadInv, UnloadedOnce, ArrayInv
<1>4. ASSUME NEW t \in Threads, Sigterm(t)
      PROVE  ArrayInv' /\ UnloadInv'
  <2>1. \A u \in Threads : handler'[u] = "unload" => handler[u] = "unload"
    BY <1>0, <1>4 DEF Sigterm, HandlerGoto
  <2> QED
    BY <1>3, <1>4, <2>1, SigtermFrame
<1>5. ASSUME Exit \/ UNCHANGED vars
      PROVE  ArrayInv' /\ UnloadInv'
  BY <1>3, <1>5 DEF Exit, vars, loading, library, signal
<1> QED
  BY <1>1, <1>2, <1>4, <1>5 DEF Next

-----------------------------------------------------------------------------
LEMMA FreedInit == Init => FreedInv
<1> SUFFICES ASSUME Init PROVE FreedInv
  OBVIOUS
<1>1. Cardinality(mPlugins) = 0
  BY FS_EmptySet DEF Init
<1> QED
  BY <1>1 DEF Init, FreedInv, Freed, AfterFree

LEMMA FreedStep ==
  ManagerType /\ HandlerInv /\ LoadInv /\ FreedInv /\ [Next]_vars => FreedInv'
<1> SUFFICES ASSUME ManagerType, HandlerInv, LoadInv, FreedInv, [Next]_vars
             PROVE  FreedInv'
  OBVIOUS
<1> USE ManagerAssumption
<1>0. /\ lib \in Nat /\ mHandleArray \in Seq(Libs)
      /\ unloading \in [Threads -> Nat \ {0}]
      /\ handler \in [Threads -> HandlerPC]
      /\ step \in LoadStep
  BY DEF ManagerType, TypeOK
<1>c. IsFiniteSet(mPlugins) /\ Cardinality(mPlugins) \in Nat
  <2>1. IsFiniteSet(Libs)
    BY FS_Interval DEF Libs
  <2>2. IsFiniteSet(mPlugins)
    BY <2>1, FS_Subset DEF ManagerType, TypeOK
  <2> QED
    BY <2>2, FS_CardinalityType
<1>1. ASSUME Load
      PROVE  FreedInv'
  <2>1. /\ UNCHANGED <<handler, unloading, raised, disposition, process>>
        /\ \A t \in Threads : handler[t] \notin AfterMark
        /\ raised = {} /\ disposition = "handler" /\ Running
    BY <1>1, LoadFrame DEF HandlerInv, LoadingStopped, Untouched, AfterMark
  <2>2. ~Freed /\ ~Freed'
    BY <2>1 DEF Freed, AfterFree, AfterMark, Running
  <2>3. ~\E t \in Threads : handler'[t] = "free"
    BY <2>1 DEF AfterMark
  <2>4. Cardinality(mPlugins') <=
          Len(mHandleArray') + (IF step' = "store" THEN 1 ELSE 0)
    <3>1. CASE LoadVersion
      <4>1. /\ mHandleArray' = mHandleArray /\ step = "version"
            /\ \/ mPlugins' = mPlugins
               \/ mPlugins' = mPlugins \cup {lib} /\ step' = "store"
        BY <3>1 DEF LoadVersion, MainAt, Proceed
      <4>2. Cardinality(mPlugins \cup {lib}) =
              IF lib \in mPlugins THEN Cardinality(mPlugins)
              ELSE Cardinality(mPlugins) + 1
        <5>1. IsFiniteSet(mPlugins)
          BY <1>c
        <5> QED
          BY <5>1, FS_AddElement
      <4>3. /\ Cardinality(mPlugins \cup {lib}) \in Nat
            /\ Cardinality(mPlugins \cup {lib}) <= Cardinality(mPlugins) + 1
        BY <1>c, <4>2
      <4>4. Cardinality(mPlugins) <= Len(mHandleArray) /\ Len(mHandleArray) \in Nat
        BY <1>0, <2>2, <4>1 DEF FreedInv
      <4>5. Cardinality(mPlugins \cup {lib}) <= Len(mHandleArray) + 1
        BY <1>c, <4>3, <4>4
      <4>6. CASE mPlugins' = mPlugins
        BY <1>c, <4>1, <4>4, <4>6
      <4>7. CASE mPlugins' = mPlugins \cup {lib} /\ step' = "store"
        BY <4>1, <4>5, <4>7
      <4> QED
        BY <4>1, <4>6, <4>7
    <3>2. CASE LoadStore
      <4>1. /\ step = "store" /\ lib \in Libs
            /\ mHandleArray' = Append(mHandleArray, lib)
            /\ mPlugins' = mPlugins /\ step' = "open"
        BY <3>2 DEF LoadStore, MainAt, NextLib, ManagerType
      <4>2. Len(mHandleArray') = Len(mHandleArray) + 1
        BY <1>0, <4>1
      <4> QED
        BY <1>0, <1>c, <2>2, <4>1, <4>2 DEF FreedInv
    <3>3. CASE ~LoadVersion /\ ~LoadStore
      <4>1. /\ UNCHANGED <<mPlugins, mHandleArray>>
            /\ step # "store" /\ step' # "store"
        BY <1>1, <3>3 DEF Load, LoadOpen, LoadSymbols, LoadCreate, LoadRegister,
           Serve, MainAt, Proceed, NextLib, Ignore, library
      <4> QED
        BY <2>2, <4>1 DEF FreedInv
    <3> QED
      BY <3>1, <3>2, <3>3
  <2> QED
    BY <2>2, <2>3, <2>4 DEF FreedInv
<1>2. ASSUME NEW t \in Threads, Handler(t)
      PROVE  FreedInv'
  <2>1. UNCHANGED <<step, lib, mPlugins>> /\ Running
    BY <1>2, HandlerFrame
  <2>2. AllUnloaded => AllUnloaded'
    <3>1. unloading' = unloading \/ unloading' = [unloading EXCEPT ![t] = @ + 1]
      BY <1>2 DEF Handler, HandlerLock, HandlerCheck, HandlerMark, UnloadPlugin,
         UnloadEnd, UnloadFree, HandlerUmount, HandlerDefault, HandlerRaise,
         HandlerUnlock, HandlerReturn
    <3>2. \A u \in Threads : /\ unloading[u] \in Nat /\ unloading'[u] \in Nat
                             /\ unloading'[u] >= unloading[u]
      BY <1>0, <3>1
    <3> QED
      BY <1>c, <2>1, <3>2 DEF AllUnloaded
  <2>3. CASE UnloadFree(t)
    <3>1. /\ handler[t] = "free" /\ mHandleArray' = <<>>
          /\ handler' = [handler EXCEPT ![t] = "umount"]
      BY <2>3 DEF UnloadFree, HandlerAt, HandlerGoto
    <3>2. Freed'
      BY <1>0, <3>1 DEF Freed, AfterFree
    <3> QED
      BY <2>2, <3>1, <3>2 DEF FreedInv
  <2>4. CASE ~UnloadFree(t)
    <3>1. mHandleArray' = mHandleArray
      BY <1>2, <2>4 DEF Handler, HandlerLock, HandlerCheck, HandlerMark, UnloadPlugin,
         UnloadEnd, HandlerUmount, HandlerDefault, HandlerRaise,
         HandlerUnlock, HandlerReturn, library
    <3>2. Freed' <=> Freed
      <4> USE <1>0 DEF Freed, AfterFree, HandlerAt, HandlerGoto
      <4>1. CASE HandlerLock(t) \/ HandlerCheck(t) \/ HandlerMark(t)
        BY <4>1 DEF HandlerLock, HandlerCheck, HandlerMark
      <4>2. CASE UnloadPlugin(t) \/ UnloadEnd(t) \/ HandlerUmount(t)
        BY <4>2 DEF UnloadPlugin, UnloadEnd, HandlerUmount
      <4>3. CASE HandlerDefault(t) \/ HandlerRaise(t)
        BY <4>3 DEF HandlerDefault, HandlerRaise
      <4>4. CASE HandlerUnlock(t)
        BY <4>4 DEF HandlerUnlock
      <4>5. CASE HandlerReturn(t)
        BY <4>5 DEF HandlerReturn, Running
      <4> QED
        BY <1>2, <2>4, <4>1, <4>2, <4>3, <4>4, <4>5 DEF Handler
    <3>3. (\E u \in Threads : handler'[u] = "free") => AllUnloaded'
      <4>1. CASE UnloadEnd(t)
        <5>1. /\ unloading[t] > Len(mHandleArray) /\ UNCHANGED unloading
          BY <4>1 DEF UnloadEnd
        <5>2. Freed => AllUnloaded
          BY DEF FreedInv
        <5>3. ~Freed /\ step = "serve" => Cardinality(mPlugins) <= Len(mHandleArray)
          BY <1>0, <1>c DEF FreedInv
        <5>4. Len(mHandleArray) \in Nat /\ unloading[t] \in Nat
          BY <1>0
        <5>5. AllUnloaded
          BY <1>c, <5>1, <5>2, <5>3, <5>4 DEF AllUnloaded
        <5> QED
          BY <2>2, <5>5
      <4>2. CASE ~UnloadEnd(t)
        <5>1. \A u \in Threads : handler'[u] = "free" => handler[u] = "free"
          BY <1>0, <1>2, <2>4, <4>2 DEF Handler, HandlerLock, HandlerCheck,
             HandlerMark, UnloadPlugin, HandlerUmount, HandlerDefault,
             HandlerRaise, HandlerUnlock, HandlerReturn, HandlerAt, HandlerGoto
        <5> QED
          BY <2>2, <5>1 DEF FreedInv
      <4> QED
        BY <4>1, <4>2
    <3> QED
      BY <2>1, <2>2, <3>1, <3>2, <3>3 DEF FreedInv
  <2> QED
    BY <2>3, <2>4
<1>3. ASSUME NEW t \in Threads, Sigterm(t)
      PROVE  FreedInv'
  <2>1. UNCHANGED <<step, mPlugins, mHandleArray, unloading>>
    BY <1>3, SigtermFrame
  <2>2. Freed' <=> Freed
    BY <1>0, <1>3 DEF Sigterm, HandlerAt, HandlerGoto, Freed, AfterFree, Running
  <2>3. \A u \in Threads : handler'[u] = "free" => handler[u] = "free"
    BY <1>0, <1>3 DEF Sigterm, HandlerGoto
  <2> QED
    BY <2>1, <2>2, <2>3 DEF FreedInv, AllUnloaded
<1>4. ASSUME Exit \/ UNCHANGED vars
      PROVE  FreedInv'
  <2>1. /\ UNCHANGED <<step, mPlugins, mHandleArray, unloading, handler>>
        /\ Freed' <=> Freed
    BY <1>4 DEF Exit, MainAt, Running, vars, loading, library, signal, Freed
  <2> QED
    BY <2>1 DEF FreedInv, AllUnloaded
<1> QED
  BY <1>1, <1>2, <1>3, <1>4 DEF Next

-----------------------------------------------------------------------------
ManagerInv ==
  ManagerType /\ HandlerInv /\ LoadInv /\ ArrayInv /\ UnloadInv /\ FreedInv

LEMMA ManagerInvCorrect == Spec => []ManagerInv
<1>1. Init => ManagerInv
  BY TypeInit, HandlerInit, LoadInit, UnloadInit, FreedInit DEF ManagerInv
<1>2. ManagerInv /\ [Next]_vars => ManagerInv'
  BY TypeStep, HandlerStep, LoadInvStep, UnloadStep, FreedStep DEF ManagerInv
<1> QED
  BY <1>1, <1>2, PTL DEF Spec

\* The types of the manager's and the handler's state; loadPlugins() is never
\* at a library that was not found.
THEOREM ManagerTypeCorrect == Spec => []TypeOK
<1>1. ManagerInv => TypeOK
  BY DEF ManagerInv, ManagerType
<1> QED
  BY <1>1, ManagerInvCorrect, PTL

\* Whatever fails while plugins are loaded, the directories the file system
\* serves are those of the plugins kept.
THEOREM ServedAreLoadedCorrect == Spec => []ServedAreLoaded
<1>1. ManagerInv => ServedAreLoaded
  BY DEF ManagerInv, LoadInv, ServedAreLoaded
<1> QED
  BY <1>1, ManagerInvCorrect, PTL

\* The libraries open are those of the plugins kept and of the plugins of the
\* wrong version.
THEOREM OpenedAreLoadedCorrect == Spec => []OpenedAreLoaded
<1>1. ManagerInv => OpenedAreLoaded
  BY DEF ManagerInv, LoadInv, OpenedAreLoaded, Taken
<1> QED
  BY <1>1, ManagerInvCorrect, PTL

\* However many SIGTERMs reach however many threads, no plugin is unloaded
\* twice.
THEOREM UnloadedOnceCorrect == Spec => []UnloadedOnce
<1>1. ManagerInv => UnloadedOnce
  BY DEF ManagerInv, UnloadInv
<1> QED
  BY <1>1, ManagerInvCorrect, PTL

\* SIGTERM kills the process only after unloadPlugins() has gone through all
\* the plugins.
THEOREM KilledAfterUnloadCorrect == Spec => []KilledAfterUnload
<1>1. ManagerInv => KilledAfterUnload
  BY DEF ManagerInv, FreedInv, Freed, AllUnloaded, KilledAfterUnload
<1> QED
  BY <1>1, ManagerInvCorrect, PTL
=============================================================================
