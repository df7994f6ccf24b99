------------------------------ MODULE Gatherer ------------------------------
(***************************************************************************)
(* The gatherer (gather.c): one control thread that initializes the        *)
(* gatherer, loads and unloads metric plugins and switches sampling on and *)
(* off, while the threads of the Retriever sample the metrics.             *)
(*                                                                         *)
(* "For now we don't have synchronization features as we assume only one   *)
(* control thread": the daemon serves one request at a time.  Its longer   *)
(* calls are split where the retriever's threads can come in between.      *)
(***************************************************************************)
EXTENDS Retriever

CONSTANTS Plugins,
          PluginBlocks,   \* the blocks of each plugin's metrics, in definition order
          HotPlug         \* bound: may plugins come and go while sampling is on?

NoPlugin == "no plugin"

ASSUME HotPlugAssumption == HotPlug \in BOOLEAN

\* Each definition of each plugin has a block of its own.
ASSUME PluginBlocksAssumption ==
  /\ NoPlugin \notin Plugins
  /\ PluginBlocks \in [Plugins -> Seq(Blocks)]
  /\ \A p, q \in Plugins :
       \A i \in 1 .. Len(PluginBlocks[p]), j \in 1 .. Len(PluginBlocks[q]) :
         PluginBlocks[p][i] = PluginBlocks[q][j] => p = q /\ i = j

VARIABLES initialized,    \* metriclist # NULL
          sampling,       \* retriever # NULL
          loaded,         \* the list of pluginhead: the plugins that are dlopen'ed
          registered,     \* blocks whose metric has a definition in the registry
          gpc,            \* where the control thread is
          plugin,         \* plugin it loads or unloads
          todo,           \* definitions of that plugin still to be visited
          terminating     \* the call is gather_terminate

gvars == <<initialized, sampling, loaded, registered, gpc, plugin, todo, terminating>>
vars  == <<mlvars, mrvars, gvars>>

Init ==
  /\ MLInit
  /\ MRInit
  /\ initialized = FALSE
  /\ sampling = FALSE
  /\ loaded = <<>>
  /\ registered = {}
  /\ gpc = "idle"
  /\ plugin = NoPlugin
  /\ todo = <<>>
  /\ terminating = FALSE

Idle == gpc = "idle" /\ ~terminating

HotPlugAllowed == HotPlug \/ ~sampling

-----------------------------------------------------------------------------
\* gather_init; the plugins of AutoLoad are loaded as by metricplugin_add.
gather_init ==
  /\ Idle
  /\ ~initialized
  /\ initialized' = TRUE
  /\ UNCHANGED <<sampling, loaded, registered, gpc, plugin, todo, terminating, mlvars, mrvars>>

\* gather_start.  The bound: no start while a thread of the last run lives.
gather_start ==
  /\ Idle
  /\ initialized
  /\ ~sampling
  /\ \A r \in Retrievers : rpc[r] \in Gone
  /\ ML_Reset
  /\ MR_Init
  /\ sampling' = TRUE
  /\ UNCHANGED <<initialized, loaded, registered, gpc, plugin, todo, terminating>>

\* gather_stop, called by itself or first of all by gather_terminate.
StopSampling ==
  /\ sampling
  /\ MR_FinishRequest
  /\ gpc' = "joining"
  /\ UNCHANGED <<initialized, sampling, loaded, registered, plugin, todo, mlvars>>

gather_stop == Idle /\ StopSampling /\ UNCHANGED terminating

gather_stop_joined ==
  /\ gpc = "joining"
  /\ MR_FinishJoin
  /\ sampling' = FALSE
  /\ gpc' = "idle"
  /\ UNCHANGED <<initialized, loaded, registered, plugin, todo, terminating, mlvars>>

\* metricplugin_add(p) has loaded the library and linked the plugin.
metricplugin_add(p) ==
  /\ Idle
  /\ initialized
  /\ HotPlugAllowed
  /\ p \notin ToSet(loaded)
  /\ loaded' = Append(loaded, p)
  /\ gpc' = "adding"
  /\ plugin' = p
  /\ todo' = PluginBlocks[p]
  /\ UNCHANGED <<initialized, sampling, registered, terminating, mlvars, mrvars>>

\* One round of its loop: the metric is registered and its block inserted.
AddMetric ==
  /\ gpc = "adding"
  /\ todo # <<>>
  /\ ML_Insert(Head(todo))
  /\ registered' = registered \union {Head(todo)}
  /\ todo' = Tail(todo)
  /\ gpc' = IF sampling THEN "notifying" ELSE "adding"
  /\ UNCHANGED <<initialized, sampling, loaded, plugin, terminating, mrvars>>

NotifyRetriever ==
  /\ gpc = "notifying"
  /\ MR_Wakeup
  /\ gpc' = "adding"
  /\ UNCHANGED <<initialized, sampling, loaded, registered, plugin, todo, terminating, mlvars>>

AddDone ==
  /\ gpc = "adding"
  /\ todo = <<>>
  /\ gpc' = "idle"
  /\ plugin' = NoPlugin
  /\ UNCHANGED <<initialized, sampling, loaded, registered, todo, terminating, mlvars, mrvars>>

\* metricplugin_remove(p), called by the client, for a plugin with a
\* definition that metricplugin_add rejects, or by gather_terminate.
BeginRemove(p) ==
  /\ p \in ToSet(loaded)
  /\ gpc' = "removing"
  /\ plugin' = p
  /\ todo' = PluginBlocks[p]
  /\ UNCHANGED <<initialized, sampling, loaded, registered, terminating, mlvars, mrvars>>

metricplugin_remove(p) == Idle /\ HotPlugAllowed /\ BeginRemove(p)

RejectMetric == gpc = "adding" /\ todo # <<>> /\ BeginRemove(plugin)

\* One round of its loop: first the block leaves the list ...
RemoveBlock ==
  /\ gpc = "removing"
  /\ todo # <<>>
  /\ IF Linked(Head(todo)) THEN ML_Remove(Head(todo)) ELSE UNCHANGED mlvars
  /\ gpc' = "unregistering"
  /\ UNCHANGED <<initialized, sampling, loaded, registered, plugin, todo, terminating, mrvars>>

\* Mutant: the metric stays in the registry.
UnregisterNothing ==
  /\ gpc = "unregistering"
  /\ todo' = Tail(todo)
  /\ gpc' = "removing"
  /\ UNCHANGED <<initialized, sampling, loaded, registered, plugin, terminating,
                 mlvars, mrvars>>

\* ... and then the metric leaves the registry.
UnregisterMetric ==
  /\ gpc = "unregistering"
  /\ registered' = registered \ {Head(todo)}
  /\ todo' = Tail(todo)
  /\ gpc' = "removing"
  /\ UNCHANGED <<initialized, sampling, loaded, plugin, terminating, mlvars, mrvars>>

\* pl_unlink and MP_Unload: the plugin's code is unmapped.
UnloadPlugin ==
  /\ gpc = "removing"
  /\ todo = <<>>
  /\ \E i \in 1 .. Len(loaded) :
       loaded[i] = plugin /\ loaded' = RemoveAt(loaded, i)
  /\ plugin' = NoPlugin
  /\ gpc' = "idle"
  /\ UNCHANGED <<initialized, sampling, registered, todo, terminating, mlvars, mrvars>>

\* gather_terminate: stops sampling, removes the plugins one by one, ...
gather_terminate ==
  /\ Idle
  /\ initialized
  /\ terminating' = TRUE
  /\ \/ StopSampling
     \/ /\ ~sampling
        /\ UNCHANGED <<initialized, sampling, loaded, registered, gpc, plugin, todo,
                       mlvars, mrvars>>

TerminateRemoves ==
  /\ terminating
  /\ gpc = "idle"
  /\ loaded # <<>>
  /\ BeginRemove(Head(loaded))

\* ... and deletes the list with whatever is left in it.
TerminateDone ==
  /\ terminating
  /\ gpc = "idle"
  /\ ~sampling
  /\ loaded = <<>>
  /\ ML_Finish
  /\ initialized' = FALSE
  /\ terminating' = FALSE
  /\ UNCHANGED <<sampling, loaded, registered, gpc, plugin, todo, mrvars>>

-----------------------------------------------------------------------------
(* gather_sample, the sampler of every block.                              *)

\* MPR_GetMetric: the metric may have been unregistered meanwhile.
SampleBegin(r) ==
  /\ At(r, "sample")
  /\ Goto(r, IF mb[r] \in registered THEN "running" ELSE "relocate")
  /\ UNCHANGED <<mcvars, cpc, rlocals, mlvars, gvars>>

\* The plugin's mproc returns.
SampleEnd(r) ==
  /\ At(r, "running")
  /\ Goto(r, "relocate")
  /\ UNCHANGED <<mcvars, cpc, rlocals, mlvars, gvars>>

RetrieverThread(r) ==
  \/ RetrieverStep(r) /\ UNCHANGED gvars
  \/ SampleBegin(r)
  \/ SampleEnd(r)

ControllerThread == Controller /\ UNCHANGED gvars

Clock == Tick /\ UNCHANGED <<mrvars, gvars>>

\* What a client may call next, and the rest of a call once it is begun.
Request ==
  \/ gather_init \/ gather_start \/ gather_stop \/ gather_terminate
  \/ \E p \in Plugins : metricplugin_add(p) \/ metricplugin_remove(p)

ControlThread ==
  \/ gather_stop_joined
  \/ AddMetric \/ RejectMetric \/ NotifyRetriever \/ AddDone
  \/ RemoveBlock \/ UnregisterMetric \/ UnloadPlugin
  \/ TerminateRemoves \/ TerminateDone

Next ==
  \/ Request
  \/ ControlThread
  \/ ControllerThread
  \/ \E r \in Retrievers : RetrieverThread(r)
  \/ SpuriousWakeup /\ UNCHANGED gvars
  \/ Clock

Spec == Init /\ [][Next]_vars

(***************************************************************************)
(* Every thread gets on when it can, and time goes on.  That the thread    *)
(* that runs a sampler gets on assumes that the plugin's mproc returns.    *)
(* Nothing is assumed of the client's requests or of spurious wakeups.     *)
(***************************************************************************)
Fairness ==
  /\ WF_vars(ControlThread)
  /\ WF_vars(ControllerThread)
  /\ \A r \in Retrievers : WF_vars(RetrieverThread(r))
  /\ WF_vars(Clock)

FairSpec == Spec /\ Fairness

-----------------------------------------------------------------------------
(* Properties.                                                             *)

(* The retriever threads and the control thread use the metric list as it  *)
(* must be used: ML_Reset and ML_Finish find no block in a client's hands, *)
(* and every block a retriever relocates is one it was given.              *)
UsesListProperly == MLSpec

(* gather_stop (mretr.c:91) returns only when no retriever is at work:     *)
(* while the gatherer does not sample no thread reads the list, runs a     *)
(* sampler of a plugin, or holds a block.                                  *)
StoppedMeansQuiet ==
  ~sampling =>
    /\ \A r \in Retrievers : rpc[r] \in Gone \union {"enter", "signal"}
    /\ held = {}

(* The registry knows a metric no longer than its plugin is loaded, and    *)
(* between the control thread's calls the schedule and the registry agree. *)
ScheduleMatchesRegistry ==
  gpc = "idle" =>
    \A b \in Blocks :
      /\ Linked(b) <=> b \in registered
      /\ b \in registered <=> \E p \in ToSet(loaded) : b \in ToSet(PluginBlocks[p])

(* The code of a sampler stays mapped while a retriever is inside it, when *)
(* plugins come and go only while sampling is off: the controller waits    *)
(* for the retrievers (mretr.c:155) before metricplugin_remove can unload  *)
(* the library (gather.c:257), which itself looks at no thread.            *)
SamplerIsLoaded ==
  ~HotPlug =>
    \A r \in Retrievers :
      rpc[r] = "running" => \E p \in ToSet(loaded) : mb[r] \in ToSet(PluginBlocks[p])

(* When plugins come and go only while sampling is off, a napping          *)
(* retriever never sleeps past the due time of a waiting block.            *)
NapEndsInTime ==
  \A r \in Retrievers :
    rpc[r] = "napping" /\ retrieverCmd = "REGULAR" =>
      \A b \in ToSet(chain) : nextTime[r] <= nextSampleDue[b]

(* A due block is sampled, unless it is removed or sampling is stopped.    *)
DueIsSampled ==
  \A b \in Blocks :
    Linked(b) /\ sampling /\ nextSampleDue[b] <= now
      ~> b \in held \/ ~Linked(b) \/ ~sampling

(* gather_stop returns: "wait for controller to exit - then deallocate     *)
(* everything" (mretr.c:91).                                               *)
StopReturns == gpc = "joining" ~> gpc # "joining"

(* It does whenever there is a metric to wait for and plugins come and go  *)
(* only while sampling is off: then the retriever only naps, and a nap     *)
(* looks at retrieverCmd before it waits.                                  *)
StopReturnsFromNaps == gpc = "joining" /\ chain # <<>> ~> gpc # "joining"
=============================================================================
