------------------------------ MODULE Platform ------------------------------
(***************************************************************************)
(* The inventories of the Runtime and the events it publishes about them:  *)
(* the wrappers of Runtime (runtime/runtime.py), EventBus (event_bus.py),  *)
(* PluginLoader, FeatureManager, CapabilityRegistry and ModuleRegistry.    *)
(*                                                                         *)
(* publish calls the handlers synchronously, in the middle of whatever     *)
(* published: a handler may subscribe or unsubscribe handlers, use the     *)
(* Runtime, which publishes again, or raise, and then the publication ends *)
(* and its publisher gets the exception. One thread is modelled. Services  *)
(* are only names here: Container models their resolution.                 *)
(***************************************************************************)
EXTENDS Integers, Sequences, FiniteSets, SequencesExt

CONSTANTS
    Module, Capability, Service, Plugin, Feature,  \* names of things
    Provides,       \* Provides[p]: the services register() of plugin p adds
    Handler,        \* functions that may be subscribed
    Watched,        \* names of events handlers are subscribed to
    HistoryLimit,   \* history_limit
    MaxEvents,      \* bound on publications
    MaxSubscribed   \* bound on the handlers of an event

Item == Module \cup Capability \cup Service \cup Plugin \cup Feature

\* Each kind has a registry of its own; here the names tell the kind.
PlatformAssumption ==
    /\ Plugin \cap (Module \cup Capability \cup Service \cup Feature) = {}
    /\ Service \cap (Module \cup Capability \cup Feature) = {}
    /\ Feature \cap (Module \cup Capability) = {}
    /\ Module \cap Capability = {}
    /\ Provides \in [Plugin -> Seq(Service)]
    /\ HistoryLimit \in Nat \ {0}
    /\ MaxEvents \in Nat
    /\ MaxSubscribed \in Nat

VARIABLES
    active,       \* what is registered or loaded, and the features enabled
    subscribers,  \* _subscribers: sequence of handlers per event name
    history,      \* _history
    stack,        \* publications in progress, the innermost last
    raising,      \* an exception left the innermost publication
    published,    \* history: every event published
    removed       \* history: services removed since they were registered

vars == <<active, subscribers, history, stack, raising, published, removed>>

-----------------------------------------------------------------------------
(* Events.                                                                 *)

Kind(x) == CASE x \in Module     -> "module"
             [] x \in Capability -> "capability"
             [] x \in Service    -> "service"
             [] x \in Plugin     -> "plugin"
             [] x \in Feature    -> "feature"

\* "on" stands for registered, loaded, enabled; "off" for their opposites.
Event == [item : Item, what : {"on", "off", "resolved"}]
Name(e) == <<Kind(e.item), e.what>>

\* handlers: those subscribed when it began.
Publication == [event : Event, handlers : Seq(Handler), called : Seq(Handler),
                running : BOOLEAN]

SubscribersOf(n) == IF n \in Watched THEN subscribers[n] ELSE <<>>

\* Mutant: the loop goes over the list itself.
RemainingLive(f) ==
    LET now == SubscribersOf(Name(f.event)) IN SubSeq(now, Len(f.called) + 1, Len(now))

\* publish goes over a copy of the handlers.
Remaining(f) == SubSeq(f.handlers, Len(f.called) + 1, Len(f.handlers))

\* A handler that raised did so before the ones after it were called.
Top == Last(stack)
Replaced(f) == stack' = Append(Front(stack), f)

\* Code outside the bus runs: the application, or the handler being called.
InControl == ~raising /\ (stack # <<>> => Top.running)

Recent(s, n) == SubSeq(s, Len(s) - n + 1, Len(s))

\* publish up to its first handler; the deque drops its oldest event.
Publish(e) ==
    /\ Len(published) < MaxEvents
    /\ published' = Append(published, e)
    /\ history' = IF Len(history) < HistoryLimit THEN Append(history, e)
                  ELSE Append(Tail(history), e)
    /\ stack' = Append(stack, [event |-> e, handlers |-> SubscribersOf(Name(e)),
                               called |-> <<>>, running |-> FALSE])

\* history(limit), with Python's slice: [-0:] is everything.
History(n) ==
    CASE n > 0 -> IF n < Len(history) THEN Recent(history, n) ELSE history
      [] n = 0 -> history
      [] n < 0 -> SubSeq(history, 1 - n, Len(history))

-----------------------------------------------------------------------------
(* The Runtime's wrappers: change, then publish.                           *)

TypeOK ==
    /\ active \subseteq Item
    /\ subscribers \in [Watched -> Seq(Handler)]
    /\ history \in Seq(Event) /\ Len(history) <= HistoryLimit
    /\ stack \in Seq(Publication)
    /\ raising \in BOOLEAN
    /\ published \in Seq(Event)
    /\ removed \subseteq Service

\* Features are registered disabled.
Init ==
    /\ active = {}
    /\ subscribers = [n \in Watched |-> <<>>]
    /\ history = <<>>
    /\ stack = <<>>
    /\ raising = FALSE
    /\ published = <<>>
    /\ removed = {}

\* register_module and register_capability raise for a name that is taken.
Register(x) ==
    /\ InControl
    /\ x \in (Module \cup Capability) \ active
    /\ active' = active \cup {x}
    /\ Publish([item |-> x, what |-> "on"])
    /\ UNCHANGED <<subscribers, raising, removed>>

\* register_service replaces what is registered.
RegisterService(s) ==
    /\ InControl
    /\ active' = active \cup {s}
    /\ removed' = removed \ {s}
    /\ Publish([item |-> s, what |-> "on"])
    /\ UNCHANGED <<subscribers, raising>>

\* unregister_module, remove_capability, remove_service and unload_plugin
\* raise for an unknown name; a plugin's services stay.
Withdraw(x) ==
    /\ InControl
    /\ x \in active \ Feature
    /\ active' = active \ {x}
    /\ removed' = IF x \in Service THEN removed \cup {x} ELSE removed
    /\ Publish([item |-> x, what |-> "off"])
    /\ UNCHANGED <<subscribers, raising>>

\* resolve_service.
Resolve(s) ==
    /\ InControl
    /\ s \in active
    /\ Publish([item |-> s, what |-> "resolved"])
    /\ UNCHANGED <<active, subscribers, raising, removed>>

\* load_plugin: validate, register(), which adds services to the container
\* without events, and the name.
Load(p) ==
    /\ InControl
    /\ p \notin active
    /\ active' = active \cup {p} \cup Range(Provides[p])
    /\ removed' = removed \ Range(Provides[p])
    /\ Publish([item |-> p, what |-> "on"])
    /\ UNCHANGED <<subscribers, raising>>

\* Mutant: the name is entered before register() is called.
LoadFailsEntered(p) ==
    /\ InControl
    /\ p \notin active
    /\ \E n \in 0..Len(Provides[p]) :
        LET added == Range(SubSeq(Provides[p], 1, n)) IN
        /\ active' = active \cup added \cup {p}
        /\ removed' = removed \ added
    /\ UNCHANGED <<subscribers, history, stack, raising, published>>

\* Mutant: plugin.loaded is published before register() is called.
LoadFailsAnnounced(p) ==
    /\ InControl
    /\ p \notin active
    /\ \E n \in 0..Len(Provides[p]) :
        LET added == Range(SubSeq(Provides[p], 1, n)) IN
        /\ active' = active \cup added
        /\ removed' = removed \ added
    /\ Publish([item |-> p, what |-> "on"])
    /\ UNCHANGED <<subscribers, raising>>

\* register() raises after its first n services: these stay, and the plugin
\* may be loaded again.
LoadFails(p) ==
    /\ InControl
    /\ p \notin active
    /\ \E n \in 0..Len(Provides[p]) :
        LET added == Range(SubSeq(Provides[p], 1, n)) IN
        /\ active' = active \cup added
        /\ removed' = removed \ added
    /\ UNCHANGED <<subscribers, history, stack, raising, published>>

\* enable_feature and disable_feature, of a feature that may be so already.
SetFeature(f) ==
    /\ InControl
    /\ \/ active' = active \cup {f} /\ Publish([item |-> f, what |-> "on"])
       \/ active' = active \ {f} /\ Publish([item |-> f, what |-> "off"])
    /\ UNCHANGED <<subscribers, raising, removed>>

-----------------------------------------------------------------------------
(* The bus.                                                                *)

Subscribe(n, h) ==
    /\ InControl
    /\ Len(subscribers[n]) < MaxSubscribed
    /\ subscribers' = [subscribers EXCEPT ![n] = Append(@, h)]
    /\ UNCHANGED <<active, history, stack, raising, published, removed>>

\* list.remove: the first entry of the handler goes.
Unsubscribe(n, h) ==
    /\ InControl
    /\ h \in Range(subscribers[n])
    /\ subscribers' = [subscribers EXCEPT ![n] = RemoveFirst(@, h)]
    /\ UNCHANGED <<active, history, stack, raising, published, removed>>

\* publish calls its next handler.
Call ==
    /\ stack # <<>> /\ ~raising /\ ~Top.running
    /\ Remaining(Top) # <<>>
    /\ Replaced([Top EXCEPT !.running = TRUE, !.called = Append(@, Head(Remaining(Top)))])
    /\ UNCHANGED <<active, subscribers, history, raising, published, removed>>

HandlerReturns ==
    /\ stack # <<>> /\ ~raising /\ Top.running
    /\ Replaced([Top EXCEPT !.running = FALSE])
    /\ UNCHANGED <<active, subscribers, history, raising, published, removed>>

\* publish returns.
Return ==
    /\ stack # <<>> /\ ~raising /\ ~Top.running
    /\ Remaining(Top) = <<>>
    /\ stack' = Front(stack)
    /\ UNCHANGED <<active, subscribers, history, raising, published, removed>>

\* A handler raises, on its own or with what its own publication raised: the
\* publication ends.
HandlerRaises ==
    /\ stack # <<>> /\ Top.running
    /\ stack' = Front(stack)
    /\ raising' = (Len(stack) > 1)
    /\ UNCHANGED <<active, subscribers, history, published, removed>>

\* A handler catches what its own publication raised.
HandlerCatches ==
    /\ raising
    /\ raising' = FALSE
    /\ UNCHANGED <<active, subscribers, history, stack, published, removed>>

Next ==
    \/ \E x \in Module \cup Capability : Register(x)
    \/ \E s \in Service : RegisterService(s) \/ Resolve(s)
    \/ \E x \in Item : Withdraw(x)
    \/ \E p \in Plugin : Load(p) \/ LoadFails(p)
    \/ \E f \in Feature : SetFeature(f)
    \/ \E n \in Watched, h \in Handler : Subscribe(n, h) \/ Unsubscribe(n, h)
    \/ Call \/ HandlerReturns \/ Return \/ HandlerRaises \/ HandlerCatches

Spec == Init /\ [][Next]_vars

-----------------------------------------------------------------------------
(* Properties.                                                             *)

\* Whatever handlers do during a publication, those that were subscribed when
\* it began are called in the order of their subscription and as often as they
\* were subscribed, also the ones unsubscribed since, and nobody else is; and
\* all of them have been called when it returns.
HandlersHeardOnce ==
    \A i \in 1..Len(stack) :
        LET f == stack[i] IN
        /\ IsPrefix(f.called, f.handlers)
        /\ Remaining(f) = <<>> => f.called = f.handlers

\* The last event of s that tells whether x is registered, loaded or enabled
\* says w.
LastSays(s, x, w) ==
    \E i \in 1..Len(s) :
        /\ s[i].item = x /\ s[i].what = w
        /\ \A j \in (i + 1)..Len(s) : s[j].item = x => s[j].what = "resolved"

\* Who reads history(n) gets the last n publications in the order the changes
\* were made, also those that handlers made and those whose handlers raised,
\* and learns the state from them: what was last reported as registered,
\* loaded or enabled is, and what was last reported as gone is gone, unless a
\* plugin, which registers its services without events, may have brought the
\* service back.
HistoryTellsState ==
    \A n \in 1..HistoryLimit :
        /\ IsSuffix(History(n), published)
        /\ Len(published) >= n => Len(History(n)) = n
        /\ \A x \in Item :
              /\ LastSays(History(n), x, "on") => x \in active
              /\ LastSays(History(n), x, "off") =>
                    \/ x \notin active
                    \/ \E p \in Plugin : x \in Range(Provides[p])

\* A plugin that counts as loaded has registered all its services, also after
\* attempts in which register() raised half-way.
LoadedPluginsAreWhole ==
    \A p \in Plugin \cap active : Range(Provides[p]) \subseteq active \cup removed
=============================================================================
