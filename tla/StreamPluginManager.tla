------------------------- MODULE StreamPluginManager -------------------------
(***************************************************************************)
(* Loading and unloading of plugins (src/StreamPluginManager.cpp), their   *)
(* registration with the file system (src/VirtualFSProvider.cpp,           *)
(* IFuse::registerFsProvider, removeFsProvider) and the SIGTERM handler    *)
(* (src/main.cpp).                                                         *)
(*                                                                         *)
(* The libraries found are numbered in the order of their paths, the order *)
(* they are loaded in.  Whether a library opens, exports a symbol, creates *)
(* a plugin or has the right version is chosen when the code asks.  The    *)
(* identifier a plugin answers is the one its library exports, as in       *)
(* sample/SamplePlugin.h:73-75.                                            *)
(*                                                                         *)
(* A signal handler runs on a thread that it interrupts: on the main       *)
(* thread while plugins are loaded, on any thread once files are served.   *)
(* SIGTERM is blocked on a thread that runs the handler, so a signal       *)
(* raised there is delivered when the handler returns.                     *)
(***************************************************************************)
EXTENDS Naturals, Sequences, FiniteSets

CONSTANTS
  NumLibs,     \* shared libraries found in the plugin directories
  Ids,         \* plugin identifiers
  Main,        \* the main thread
  Workers,     \* the other threads of fuse_main
  Nobody,      \* owner of a free mutex
  MaxSignals   \* bound: SIGTERMs sent to the process

ASSUME ManagerAssumption ==
  /\ NumLibs \in Nat
  /\ Main \notin Workers
  /\ Nobody \notin Workers \cup {Main}
  /\ MaxSignals \in Nat

Libs == 1 .. NumLibs
Threads == Workers \cup {Main}

VARIABLES
  pluginId,            \* what each library's GET_STREAMFS_PLUGIN_ID answers
  step,                \* where loadPlugins(), then main(), is
  lib,                 \* the library loadPlugins() is at
  opened,              \* libraries with an open handle
  fsProviders,         \* libraries whose provider is registered
  mPlugins,            \* libraries whose PluginState is kept
  mHandleArray,        \* their handles; <<>> once freed
  rejected,            \* history: plugins of the wrong interface version
  handler,             \* where each thread's signal handler is
  unloading,           \* the index each thread's unloadPlugins() is at
  sighandler_mutex,
  isSigtermTriggered,
  disposition,         \* of SIGTERM: "handler" or "default"
  raised,              \* threads with a SIGTERM raised and blocked
  signals,
  unloads,             \* history: how often each library was unloaded
  process              \* "running", "killed" or "exited"

loading == <<pluginId, step, lib, mPlugins, rejected>>
library == <<opened, fsProviders, mHandleArray>>
signal == <<handler, unloading, sighandler_mutex, isSigtermTriggered,
            disposition, raised, signals, unloads>>
vars == <<loading, library, signal, process>>

LoadStep == {"open", "symbols", "create", "register", "version", "store",
             "serve"}
HandlerPC == {"none", "lock", "check", "mark", "unload", "free", "umount",
              "default", "raise", "unlock", "return"}

Init ==
  /\ pluginId \in [Libs -> Ids]
  /\ step = "open"
  /\ lib = 1
  /\ opened = {}
  /\ fsProviders = {}
  /\ mPlugins = {}
  /\ mHandleArray = <<>>
  /\ rejected = {}
  /\ handler = [t \in Threads |-> "none"]
  /\ unloading = [t \in Threads |-> 1]
  /\ sighandler_mutex = Nobody
  /\ isSigtermTriggered = FALSE
  /\ disposition = "handler"
  /\ raised = {}
  /\ signals = 0
  /\ unloads = [l \in Libs |-> 0]
  /\ process = "running"

Running == process = "running"

-----------------------------------------------------------------------------
(***************************************************************************)
(* loadPlugins(), on the main thread.                                      *)
(***************************************************************************)

\* The main thread makes a step of its own.
MainAt(label) ==
  /\ Running
  /\ handler[Main] = "none"
  /\ step = label

Proceed(label) == step' = label /\ UNCHANGED lib

\* On to the next library.
NextLib == step' = "open" /\ lib' = lib + 1

\* The plugin is ignored: its library is closed.
Ignore == opened' = opened \ {lib} /\ NextLib

LibFound == lib <= NumLibs

LoadOpen ==
  /\ MainAt("open")
  /\ LibFound
  /\ \/ NextLib /\ UNCHANGED opened
     \/ Proceed("symbols") /\ opened' = opened \cup {lib}
  /\ UNCHANGED <<pluginId, fsProviders, mPlugins, mHandleArray, rejected,
                 signal, process>>

\* mPlugins.find()
Loaded(id) == \E k \in mPlugins : pluginId[k] = id

\* Faulty: a second library with the same identifier is taken.
Duplicate_Unchecked(l) == FALSE

Duplicate(l) == Loaded(pluginId[l])

\* A missing symbol, or no identifier, or one that is loaded.
LoadSymbols ==
  /\ MainAt("symbols")
  /\ \/ Ignore
     \/ ~Duplicate(lib) /\ Proceed("create") /\ UNCHANGED opened
  /\ UNCHANGED <<pluginId, fsProviders, mPlugins, mHandleArray, rejected,
                 signal, process>>

\* Faulty: the library of a plugin that was not created stays open.
LoadCreate_KeepsOpen ==
  /\ MainAt("create")
  /\ NextLib \/ Proceed("register")
  /\ UNCHANGED <<opened, pluginId, fsProviders, mPlugins, mHandleArray,
                 rejected, signal, process>>

\* INIT_STREAMFS_PLUGIN may answer null.
LoadCreate ==
  /\ MainAt("create")
  /\ \/ Ignore
     \/ Proceed("register") /\ UNCHANGED opened
  /\ UNCHANGED <<pluginId, fsProviders, mPlugins, mHandleArray, rejected,
                 signal, process>>

\* The registered library with identifier id, if any.
ProviderOf(id) == {k \in fsProviders : pluginId[k] = id}

\* VirtualFSProvider's constructor; map::insert keeps an entry there is.
LoadRegister ==
  /\ MainAt("register")
  /\ fsProviders' = IF ProviderOf(pluginId[lib]) = {}
                    THEN fsProviders \cup {lib} ELSE fsProviders
  /\ Proceed("version")
  /\ UNCHANGED <<pluginId, opened, mPlugins, mHandleArray, rejected, signal,
                 process>>

\* A wrong version: the provider's destructor erases its name, the library
\* stays open.  map::insert keeps an entry there is, and the state made for
\* the second is destroyed.
LoadVersion ==
  /\ MainAt("version")
  /\ \/ /\ rejected' = rejected \cup {lib}
        /\ fsProviders' = fsProviders \ ProviderOf(pluginId[lib])
        /\ NextLib
        /\ UNCHANGED mPlugins
     \/ /\ Proceed("store")
        /\ mPlugins' = IF Loaded(pluginId[lib]) THEN mPlugins
                        ELSE mPlugins \cup {lib}
        /\ UNCHANGED <<fsProviders, rejected>>
  /\ UNCHANGED <<pluginId, opened, mHandleArray, signal, process>>

\* The end of the iteration: the handle is stored, and the PluginState lives
\* on if the map has it.
LoadStore ==
  /\ MainAt("store")
  /\ mHandleArray' = Append(mHandleArray, lib)
  /\ fsProviders' = IF lib \in mPlugins THEN fsProviders
                    ELSE fsProviders \ ProviderOf(pluginId[lib])
  /\ NextLib
  /\ UNCHANGED <<pluginId, opened, mPlugins, rejected, signal, process>>

\* fuse_main().
Serve ==
  /\ MainAt("open")
  /\ ~LibFound
  /\ Proceed("serve")
  /\ UNCHANGED <<pluginId, library, mPlugins, rejected, signal, process>>

\* fuse_main() returns, the file system being unmounted, and so does main().
Exit ==
  /\ MainAt("serve")
  /\ process' = "exited"
  /\ UNCHANGED <<loading, library, signal>>

-----------------------------------------------------------------------------
(***************************************************************************)
(* SIGTERM.                                                                *)
(***************************************************************************)

HandlerGoto(t, label) == handler' = [handler EXCEPT ![t] = label]

HandlerAt(t, label) == Running /\ handler[t] = label

\* A SIGTERM reaches thread t, not blocked there.
Sigterm(t) ==
  /\ HandlerAt(t, "none")
  /\ signals < MaxSignals
  /\ step = "serve" \/ t = Main
  /\ signals' = signals + 1
  /\ IF disposition = "default"
       THEN process' = "killed" /\ UNCHANGED handler
       ELSE HandlerGoto(t, "lock") /\ UNCHANGED process
  /\ UNCHANGED <<loading, library, unloading, sighandler_mutex,
                 isSigtermTriggered, disposition, raised, unloads>>

\* Faulty: no lock.
HandlerLock_Unlocked(t) ==
  /\ HandlerAt(t, "lock")
  /\ HandlerGoto(t, "check")
  /\ UNCHANGED <<loading, library, unloading, sighandler_mutex,
                 isSigtermTriggered, disposition, raised, signals, unloads,
                 process>>

\* pthread_mutex_trylock: the second handler returns at once.
HandlerLock(t) ==
  /\ HandlerAt(t, "lock")
  /\ IF sighandler_mutex = Nobody
       THEN sighandler_mutex' = t /\ HandlerGoto(t, "check")
       ELSE HandlerGoto(t, "return") /\ UNCHANGED sighandler_mutex
  /\ UNCHANGED <<loading, library, unloading, isSigtermTriggered, disposition,
                 raised, signals, unloads, process>>

HandlerCheck(t) ==
  /\ HandlerAt(t, "check")
  /\ HandlerGoto(t, IF isSigtermTriggered THEN "unlock" ELSE "mark")
  /\ UNCHANGED <<loading, library, unloading, sighandler_mutex,
                 isSigtermTriggered, disposition, raised, signals, unloads,
                 process>>

\* Faulty: the default action is restored before the plugins are unloaded.
HandlerMark_Default(t) ==
  /\ HandlerAt(t, "mark")
  /\ isSigtermTriggered' = TRUE
  /\ disposition' = "default"
  /\ HandlerGoto(t, "unload")
  /\ UNCHANGED <<loading, library, unloading, sighandler_mutex, raised,
                 signals, unloads, process>>

HandlerMark(t) ==
  /\ HandlerAt(t, "mark")
  /\ isSigtermTriggered' = TRUE
  /\ HandlerGoto(t, "unload")
  /\ UNCHANGED <<loading, library, unloading, sighandler_mutex, disposition,
                 raised, signals, unloads, process>>

\* One turn of the loop of unloadPlugins(): a library without the unload
\* symbol, or whose plugin is not found, is passed over.
UnloadPlugin(t) ==
  /\ HandlerAt(t, "unload")
  /\ unloading[t] <= Len(mHandleArray)
  /\ unloading' = [unloading EXCEPT ![t] = @ + 1]
  /\ LET l == mHandleArray[unloading[t]]
     IN  \/ UNCHANGED <<opened, unloads>>
         \/ /\ Loaded(pluginId[l])
            /\ unloads' = [unloads EXCEPT ![l] = @ + 1]
            /\ opened' = opened \ {l}
  /\ UNCHANGED <<loading, fsProviders, mHandleArray, handler, sighandler_mutex,
                 isSigtermTriggered, disposition, raised, signals, process>>

UnloadEnd(t) ==
  /\ HandlerAt(t, "unload")
  /\ unloading[t] > Len(mHandleArray)
  /\ HandlerGoto(t, "free")
  /\ UNCHANGED <<loading, library, unloading, sighandler_mutex,
                 isSigtermTriggered, disposition, raised, signals, unloads,
                 process>>

UnloadFree(t) ==
  /\ HandlerAt(t, "free")
  /\ mHandleArray' = <<>>
  /\ HandlerGoto(t, "umount")
  /\ UNCHANGED <<loading, opened, fsProviders, unloading, sighandler_mutex,
                 isSigtermTriggered, disposition, raised, signals, unloads,
                 process>>

\* umount2(MNT_DETACH), whatever it answers.
HandlerUmount(t) ==
  /\ HandlerAt(t, "umount")
  /\ HandlerGoto(t, "default")
  /\ UNCHANGED <<loading, library, unloading, sighandler_mutex,
                 isSigtermTriggered, disposition, raised, signals, unloads,
                 process>>

\* signal(sig, SIG_DFL)
HandlerDefault(t) ==
  /\ HandlerAt(t, "default")
  /\ disposition' = "default"
  /\ HandlerGoto(t, "raise")
  /\ UNCHANGED <<loading, library, unloading, sighandler_mutex,
                 isSigtermTriggered, raised, signals, unloads, process>>

\* Faulty: the signal is not raised again.
HandlerRaise_Not(t) ==
  /\ HandlerAt(t, "raise")
  /\ HandlerGoto(t, "unlock")
  /\ UNCHANGED <<loading, library, unloading, sighandler_mutex,
                 isSigtermTriggered, disposition, raised, signals, unloads,
                 process>>

HandlerRaise(t) ==
  /\ HandlerAt(t, "raise")
  /\ raised' = raised \cup {t}
  /\ HandlerGoto(t, "unlock")
  /\ UNCHANGED <<loading, library, unloading, sighandler_mutex,
                 isSigtermTriggered, disposition, signals, unloads, process>>

HandlerUnlock(t) ==
  /\ HandlerAt(t, "unlock")
  /\ sighandler_mutex' = Nobody
  /\ HandlerGoto(t, "return")
  /\ UNCHANGED <<loading, library, unloading, isSigtermTriggered, disposition,
                 raised, signals, unloads, process>>

\* The handler returns; a SIGTERM raised in it is delivered.
HandlerReturn(t) ==
  /\ HandlerAt(t, "return")
  /\ HandlerGoto(t, "none")
  /\ process' = IF t \in raised THEN "killed" ELSE process
  /\ UNCHANGED <<loading, library, unloading, sighandler_mutex,
                 isSigtermTriggered, disposition, raised, signals, unloads>>

-----------------------------------------------------------------------------
Load ==
  \/ LoadOpen \/ LoadSymbols \/ LoadCreate \/ LoadRegister \/ LoadVersion
  \/ LoadStore \/ Serve

Handler(t) ==
  \/ HandlerLock(t) \/ HandlerCheck(t) \/ HandlerMark(t)
  \/ UnloadPlugin(t) \/ UnloadEnd(t)
  \/ UnloadFree(t) \/ HandlerUmount(t) \/ HandlerDefault(t) \/ HandlerRaise(t)
  \/ HandlerUnlock(t) \/ HandlerReturn(t)

Next ==
  \/ Load
  \/ Exit
  \/ \E t \in Threads : Sigterm(t) \/ Handler(t)

Spec == Init /\ [][Next]_vars

\* Threads are scheduled; signals and the unmounting come or not.
Fairness == WF_vars(Load) /\ \A t \in Threads : WF_vars(Handler(t))

FairSpec == Spec /\ Fairness

-----------------------------------------------------------------------------
TypeOK ==
  /\ pluginId \in [Libs -> Ids]
  /\ step \in LoadStep
  /\ lib \in 1 .. NumLibs + 1
  /\ opened \subseteq Libs
  /\ fsProviders \subseteq Libs
  /\ mPlugins \subseteq Libs
  /\ mHandleArray \in Seq(Libs)
  /\ rejected \subseteq Libs
  /\ handler \in [Threads -> HandlerPC]
  /\ unloading \in [Threads -> Nat \ {0}]
  /\ sighandler_mutex \in Threads \cup {Nobody}
  /\ isSigtermTriggered \in BOOLEAN
  /\ disposition \in {"handler", "default"}
  /\ raised \subseteq Threads
  /\ signals \in 0 .. MaxSignals
  /\ unloads \in [Libs -> Nat]
  /\ process \in {"running", "killed", "exited"}

(***************************************************************************)
(* What the file system serves is what is loaded (IFuse.cpp:285-292): a    *)
(* registered provider, a raw pointer, is kept alive by its PluginState,   *)
(* and a loaded plugin's directory is there, whatever libraries were       *)
(* ignored, refused or found twice before.                                 *)
(***************************************************************************)
ServedAreLoaded ==
  step \in {"open", "symbols", "serve"} => fsProviders = mPlugins

(***************************************************************************)
(* A library is open exactly if its plugin is loaded, but for the one being*)
(* loaded and those of the wrong interface version                         *)
(* (StreamPluginManager.cpp:126-186), which are never closed.              *)
(***************************************************************************)
OpenedAreLoaded ==
  step = "open" /\ ~isSigtermTriggered => opened = mPlugins \cup rejected

(***************************************************************************)
(* No plugin is unloaded, and no library closed, a second time, however    *)
(* many SIGTERMs reach however many threads (main.cpp:51-71).              *)
(***************************************************************************)
UnloadedOnce == \A l \in Libs : unloads[l] <= 1

(***************************************************************************)
(* A SIGTERM does not kill the process before unloadPlugins() has gone     *)
(* through all the plugins (StreamPluginManager.h:53-56, main.cpp:55-69):  *)
(* the signals in between are swallowed.                                   *)
(***************************************************************************)
KilledAfterUnload ==
  process = "killed" =>
    /\ mHandleArray = <<>>
    /\ step = "serve" => \E t \in Threads : unloading[t] > Cardinality(mPlugins)

(***************************************************************************)
(* Once the handler has begun to unload, the process ends (main.cpp:68-69).*)
(***************************************************************************)
SigtermEndsProcess ==
  \A t \in Threads : handler[t] = "unload" ~> process # "running"
=============================================================================
