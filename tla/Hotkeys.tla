------------------------------- MODULE Hotkeys -------------------------------
(***************************************************************************)
(* Global hot keys: the app's chain of updates (hotkey_manager.dart), the  *)
(* call set_hot_keys, the thread that owns the registrations on Windows    *)
(* (rust_api, hotkey/owner.rs), Registry::replace and the forwarder of key *)
(* presses (hotkey/service.rs), and which keys are usable (keys.rs).       *)
(*                                                                         *)
(* The chain awaits every call, so that one is in flight at a time; the    *)
(* thread, the operating system and the forwarder run beside it.  A code   *)
(* is told by its usage, for the table of keys.rs maps no two to the same. *)
(***************************************************************************)
EXTENDS Naturals, Sequences, FiniteSets, TLC

CONSTANTS
  Settings,    \* the lists of specs the app may ask for
  MaxChanges,  \* bound: changes of the settings
  MaxPresses   \* bound: presses of a registered key

ASSUME HotkeyAssumption == MaxChanges \in Nat /\ MaxPresses \in Nat

VARIABLES
  threaded,    \* Windows: one thread owns the registrations
  wanted,      \* the settings of the app
  updates,     \* the settings the chain has still to ask for
  changes,     \* changes so far
  call,        \* the call in flight: "idle", "owner", "send", "post" or "answer"
  result,      \* of the last call: "none", "ok" or "error"
  owner,       \* OWNER: "unset", "ready" or "failed"
  loop,        \* the thread: "none", "starting", "drain", "wait" or "gone"
  jobs,        \* the channel of jobs
  messages,    \* its message queue: wake-ups and pressed keys
  job,         \* replace: "none", "unregister", "register" or "publish"
  todo,        \* the specs it has not tried yet
  fresh,       \* the ids of the keys it has registered so far
  failures,    \* the specs it could not register; then those of the answer
  manager,     \* the manager exists
  registered,  \* Registry.registered
  ids,         \* IDS
  applied,     \* history: the specs last published
  system,      \* keys that the system has registered for the app
  stuck,       \* those it did not unregister when asked
  forwarder,   \* FORWARDER: "unset", "running" or "failed"
  presses,     \* presses so far
  events,      \* presses the forwarder has not received
  found,       \* the key and the action it has looked up and not reported yet
  overtaken    \* history: other settings were published since it looked them up

appVars      == <<wanted, updates, changes, call, result>>
threadVars   == <<owner, loop, jobs, messages>>
registryVars == <<job, todo, fresh, failures, manager, registered, ids, applied, system, stuck>>
pressVars    == <<forwarder, presses, events, found, overtaken>>
vars == <<threaded, appVars, threadVars, registryVars, pressVars>>

\* A message that only wakes the thread; the other messages are pressed keys.
Wake == <<>>

-----------------------------------------------------------------------------
(* keys.rs                                                                  *)

\* USB HID usages of the keyboard (7) and consumer (12) pages with a code.
CodeForUsage(usage) ==
  LET page == usage \div 65536
      key  == usage % 65536
  IN \/ page = 7 /\ key \in (4..115) \ {50, 102}
     \/ page = 7 /\ key \in {133, 135, 137}
     \/ page = 12 /\ key \in (181..183) \cup {205, 226, 233, 234}

PrimaryModifiers == {"Shift", "Control", "Alt", "Super"}

\* Meta becomes Super; order and repetition do not matter.
ModifiersFor(modifiers) == {IF x = "Meta" THEN "Super" ELSE x : x \in modifiers}

\* The hot key of a spec, none if its key or its modifiers are of no use.
ToHotKey(spec) ==
  {<<m, spec.key>> : m \in {x \in {ModifiersFor(spec.modifiers)} :
                              CodeForUsage(spec.key) /\ x \cap PrimaryModifiers # {}}}

HotKeys == UNION {UNION {ToHotKey(s[i]) : i \in DOMAIN s} : s \in Settings}

Specs == UNION {{s[i] : i \in DOMAIN s} : s \in Settings}

ASSUME SettingsAssumption == Settings \subseteq Seq(Specs)

-----------------------------------------------------------------------------
Init ==
  /\ threaded \in BOOLEAN
  /\ wanted = <<>> /\ updates = <<>> /\ changes = 0 /\ call = "idle" /\ result = "none"
  /\ owner = "unset" /\ loop = "none" /\ jobs = <<>> /\ messages = <<>>
  /\ job = "none" /\ todo = <<>> /\ fresh = <<>> /\ failures = {}
  /\ manager = FALSE /\ registered = {} /\ ids = <<>> /\ applied = <<>>
  /\ system = {} /\ stuck = {} /\ forwarder = "unset" /\ presses = 0 /\ events = <<>>
  /\ found = {} /\ overtaken = FALSE

-----------------------------------------------------------------------------
(* The app                                                                  *)

\* Mutant of Change: a change during a call is taken for done.
ChangeWhenIdle(settings) ==
  /\ changes < MaxChanges /\ settings # wanted
  /\ wanted' = settings /\ changes' = changes + 1
  /\ updates' = IF call = "idle" THEN Append(updates, settings) ELSE updates
  /\ UNCHANGED <<threaded, call, result, threadVars, registryVars, pressVars>>

\* The provider tells the manager of other settings, which chains an update.
Change(settings) ==
  /\ changes < MaxChanges /\ settings # wanted
  /\ wanted' = settings /\ changes' = changes + 1
  /\ updates' = Append(updates, settings)
  /\ UNCHANGED <<threaded, call, result, threadVars, registryVars, pressVars>>

\* replace begins with what it was asked for.
Begin(specs) ==
  /\ job' = "unregister" /\ todo' = specs /\ fresh' = <<>> /\ failures' = {}
  /\ UNCHANGED <<manager, registered, ids, applied, system, stuck>>

\* with_registry off Windows: the registry is replaced under its mutex, by the
\* caller or by the main thread of macOS, which the caller waits for.
Locked ==
  /\ ~threaded
  /\ call' = "answer" /\ Begin(Head(updates))

\* with_registry on Windows: the job goes to the owner thread.
AskOwner ==
  /\ threaded
  /\ call' = "owner" /\ UNCHANGED registryVars

\* _updateHotKeys calls set_hot_keys.
Update ==
  /\ call = "idle" /\ updates # <<>>
  /\ Locked \/ AskOwner
  /\ UNCHANGED <<threaded, wanted, updates, changes, result, threadVars, pressVars>>

\* The call returns and the chain goes on; a failure is only logged.
Return(outcome) ==
  /\ call' = "idle" /\ result' = outcome /\ updates' = Tail(updates)
  /\ UNCHANGED <<wanted, changes>>

-----------------------------------------------------------------------------
(* The owner thread                                                         *)

\* OWNER.get_or_init, which spawns the thread once and waits until it is ready.
GetOwner ==
  /\ call = "owner"
  /\ \/ /\ owner = "unset" /\ loop = "none"
        /\ \/ loop' = "starting" /\ UNCHANGED owner
           \/ owner' = "failed" /\ UNCHANGED loop
        /\ UNCHANGED call
     \/ owner = "ready" /\ call' = "send" /\ UNCHANGED <<owner, loop>>
  /\ UNCHANGED <<threaded, wanted, updates, changes, result, jobs, messages, registryVars, pressVars>>

NoOwner ==
  /\ call = "owner" /\ owner = "failed"
  /\ Return("error")
  /\ UNCHANGED <<threaded, threadVars, registryVars, pressVars>>

\* PeekMessage gives the thread its message queue, and only then it is ready.
Ready ==
  /\ loop = "starting"
  /\ owner' = "ready" /\ loop' = "drain"
  /\ UNCHANGED <<threaded, appVars, jobs, messages, registryVars, pressVars>>

SendJob ==
  /\ call = "send" /\ loop # "gone"
  /\ call' = "post" /\ jobs' = Append(jobs, Head(updates))
  /\ UNCHANGED <<threaded, wanted, updates, changes, result, owner, loop, messages, registryVars, pressVars>>

PostMessage ==
  /\ call = "post"
  /\ call' = "answer"
  /\ messages' = IF loop = "gone" THEN messages ELSE Append(messages, Wake)
  /\ UNCHANGED <<threaded, wanted, updates, changes, result, owner, loop, jobs, registryVars, pressVars>>

\* The channel is closed, or its jobs were dropped with the thread.
ThreadGone ==
  /\ loop = "gone" /\ call \in {"send", "answer"} /\ job = "none"
  /\ Return("error")
  /\ UNCHANGED <<threaded, threadVars, registryVars, pressVars>>

\* try_recv: the next job, or none.
Drain ==
  /\ loop = "drain" /\ job = "none"
  /\ IF jobs # <<>>
       THEN Begin(Head(jobs)) /\ jobs' = Tail(jobs) /\ UNCHANGED loop
       ELSE loop' = "wait" /\ UNCHANGED <<jobs, registryVars>>
  /\ UNCHANGED <<threaded, appVars, owner, messages, pressVars>>

\* GetMessage and DispatchMessage: a wake-up does nothing, a key press is reported.
Dispatch ==
  /\ loop = "wait" /\ messages # <<>>
  /\ messages' = Tail(messages) /\ loop' = "drain"
  /\ events' = IF Head(messages) = Wake THEN events ELSE Append(events, Head(messages))
  /\ UNCHANGED <<threaded, appVars, owner, jobs, registryVars, forwarder, presses,
                 found, overtaken>>

\* GetMessage fails: the thread ends, its registry with it.
LoopEnds ==
  /\ loop = "wait"
  /\ loop' = "gone" /\ jobs' = <<>> /\ messages' = <<>>
  /\ registered' = {} /\ manager' = FALSE /\ system' = {} /\ stuck' = {}
  /\ UNCHANGED <<threaded, appVars, owner, job, todo, fresh, failures, ids, applied, pressVars>>

-----------------------------------------------------------------------------
(* Registry::replace                                                        *)

\* No manager, for want of a display for instance: the answer is an error.
NoManager ==
  /\ job = "unregister" /\ ~manager
  /\ call = "answer"
  /\ job' = "none" /\ registered' = {}
  /\ Return("error")
  /\ UNCHANGED <<threaded, threadVars, todo, fresh, failures, manager, ids, applied, system, stuck,
                 pressVars>>

\* ensure_manager and unregister_all, whose failure in between nobody looks at.
UnregisterAll ==
  /\ job = "unregister"
  /\ job' = "register" /\ manager' = TRUE
  /\ registered' = {}
  /\ \E kept \in SUBSET registered :
       system' = (system \ registered) \cup kept /\ stuck' = stuck \cup kept
  /\ UNCHANGED <<threaded, appVars, threadVars, todo, fresh, failures, ids, applied, pressVars>>

\* `map` with the id of one more key.
WithKey(map, h, id) == [g \in DOMAIN map \cup {h} |-> IF g = h THEN id ELSE map[g]]

\* Mutant of RegisterNext: an id is kept for a key that was not registered.
RegisterNextAnyway ==
  /\ job = "register" /\ todo # <<>>
  /\ LET spec == Head(todo) IN
       \/ \E h \in ToHotKey(spec) \ system :
            system' = system \cup {h} /\ fresh' = WithKey(fresh, h, spec.id) /\ UNCHANGED failures
       \/ /\ failures' = failures \cup {spec} /\ UNCHANGED system
          /\ fresh' = [h \in ToHotKey(spec) |-> spec.id] @@ fresh
  /\ todo' = Tail(todo)
  /\ UNCHANGED <<threaded, appVars, threadVars, job, manager, registered, ids, applied, stuck, pressVars>>

\* The next spec: usable and free, or a failure with its reason.
RegisterNext ==
  /\ job = "register" /\ todo # <<>>
  /\ LET spec == Head(todo) IN
       \/ \E h \in ToHotKey(spec) \ system :
            system' = system \cup {h} /\ fresh' = WithKey(fresh, h, spec.id) /\ UNCHANGED failures
       \/ failures' = failures \cup {spec} /\ UNCHANGED <<system, fresh>>
  /\ todo' = Tail(todo)
  /\ UNCHANGED <<threaded, appVars, threadVars, job, manager, registered, ids, applied, stuck, pressVars>>

\* Mutant of Publish: IDS keeps what it had.
PublishOnTop ==
  /\ job = "register" /\ todo = <<>>
  /\ call = "answer"
  /\ job' = "none" /\ registered' = DOMAIN fresh /\ ids' = fresh @@ ids
  /\ applied' = Head(updates)
  /\ Return("ok") /\ overtaken' = (found # {})
  /\ UNCHANGED <<threaded, threadVars, todo, fresh, failures, manager, system, stuck, forwarder,
                 presses, events, found>>

\* The registry and IDS take the new keys, and the answer goes to the caller.
Publish ==
  /\ job = "register" /\ todo = <<>>
  /\ call = "answer"
  /\ job' = "none" /\ registered' = DOMAIN fresh /\ ids' = fresh
  /\ applied' = Head(updates)
  /\ Return("ok") /\ overtaken' = (found # {})
  /\ UNCHANGED <<threaded, threadVars, todo, fresh, failures, manager, system, stuck, forwarder,
                 presses, events, found>>

Replace == NoManager \/ UnregisterAll \/ RegisterNext \/ Publish

-----------------------------------------------------------------------------
(* Key presses                                                              *)

\* The user presses a key that the system has for the app.
Press ==
  /\ presses < MaxPresses
  /\ \E h \in system :
       IF threaded
         THEN messages' = Append(messages, h) /\ UNCHANGED events
         ELSE events' = Append(events, h) /\ UNCHANGED messages
  /\ presses' = presses + 1
  /\ UNCHANGED <<threaded, appVars, owner, loop, jobs, registryVars, forwarder, found,
                 overtaken>>

\* listen: the sink is set, and the forwarder is tried once.
Listen ==
  /\ forwarder = "unset" /\ forwarder' \in {"running", "failed"}
  /\ UNCHANGED <<threaded, appVars, threadVars, registryVars, presses, events, found, overtaken>>

\* forward_events, under the lock of IDS: the action of the key, if it has one by now.
LookUp ==
  /\ forwarder = "running" /\ found = {} /\ events # <<>>
  /\ events' = Tail(events)
  /\ found' = {[key |-> h, id |-> ids[h]] : h \in {Head(events)} \cap DOMAIN ids}
  /\ overtaken' = FALSE
  /\ UNCHANGED <<threaded, appVars, threadVars, registryVars, forwarder, presses>>

\* Later, under the lock of the sink: the action is reported to the app.
Report ==
  /\ found # {}
  /\ found' = {} /\ overtaken' = FALSE
  /\ UNCHANGED <<threaded, appVars, threadVars, registryVars, forwarder, presses, events>>

Forward == LookUp \/ Report

-----------------------------------------------------------------------------
App == (\E s \in Settings : Change(s)) \/ Update \/ Listen
Caller == GetOwner \/ NoOwner \/ SendJob \/ PostMessage \/ ThreadGone
Thread == Ready \/ Drain \/ Dispatch

Next == App \/ Caller \/ Thread \/ LoopEnds \/ Replace \/ Press \/ Forward

Spec == Init /\ [][Next]_vars

\* The chain, the caller's thread, the owner thread and the forwarder run; no
\* one need change the settings or press a key, and the loop need not fail.
HotkeyFairness ==
  /\ WF_vars(Update) /\ WF_vars(Caller) /\ WF_vars(Thread) /\ WF_vars(Replace)
  /\ WF_vars(Forward)

FairSpec == Spec /\ HotkeyFairness

-----------------------------------------------------------------------------
(* Properties                                                               *)

TypeOK ==
  /\ threaded \in BOOLEAN
  /\ wanted \in Settings \cup {<<>>} /\ updates \in Seq(Settings)
  /\ changes \in 0..MaxChanges
  /\ call \in {"idle", "owner", "send", "post", "answer"} /\ result \in {"none", "ok", "error"}
  /\ owner \in {"unset", "ready", "failed"}
  /\ loop \in {"none", "starting", "drain", "wait", "gone"}
  /\ jobs \in Seq(Settings) /\ messages \in Seq(HotKeys \cup {Wake})
  /\ job \in {"none", "unregister", "register"}
  /\ todo \in Seq(Specs) /\ failures \subseteq Specs
  /\ DOMAIN fresh \subseteq HotKeys /\ DOMAIN ids \subseteq HotKeys
  /\ manager \in BOOLEAN /\ registered \subseteq HotKeys
  /\ applied \in Settings \cup {<<>>}
  /\ system \subseteq HotKeys /\ stuck \subseteq HotKeys
  /\ forwarder \in {"unset", "running", "failed"}
  /\ presses \in 0..MaxPresses /\ events \in Seq(HotKeys)
  /\ \A press \in found : press.key \in HotKeys
  /\ overtaken \in BOOLEAN

Quiet == call = "idle" /\ updates = <<>>

\* Once an update has been answered with success, the registry, IDS and the
\* system agree: IDS names the registered keys, the system has these and, of
\* earlier settings, at most the ones it did not unregister, and each spec
\* either triggers its own action or was reported as a failure
\* (service.rs, replace).
RegistriesAgree ==
  (job = "none" /\ loop # "gone") =>
     /\ DOMAIN ids = registered
     /\ registered \subseteq system /\ system \subseteq registered \cup stuck
     /\ \A i \in DOMAIN applied :
          applied[i] \in failures
            \/ \E h \in ToHotKey(applied[i]) \cap DOMAIN ids : ids[h] = applied[i].id

\* While the last settings are in force, what the forwarder is about to report runs
\* an action that these settings give to the pressed key: neither a key the system
\* failed to unregister nor a press from before the change runs an action of earlier
\* settings.  The one exception: the forwarder lets go of IDS before it takes the sink,
\* so that an action it looked up before they were published is still reported
\* (service.rs, replace and forward_events).
OnlyTheWantedAction ==
  Quiet /\ result = "ok" /\ ~overtaken =>
    \A press \in found :
      \E i \in DOMAIN wanted : wanted[i].id = press.id /\ press.key \in ToHotKey(wanted[i])

\* In the end the last settings the user chose are in force, whatever was
\* changed during a call, unless the last update failed
\* (hotkey_manager.dart, _pendingUpdate).
LastSettingsWin == <>[](Quiet /\ (applied = wanted \/ result = "error"))
=============================================================================
