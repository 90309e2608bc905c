------------------------------ MODULE Shutdown ------------------------------
(***************************************************************************)
(* How NetAnalyzer starts and ends (main.cpp): the main thread makes the   *)
(* objects behind `globals` and then works for the source; the exporter    *)
(* thread and the two threads of the ncurses gui, with the windows of      *)
(* GUINcurses, work beside it.  SIGINT comes at any point, from Ctrl-C or  *)
(* from the F2 key, and its handler deletes everything in the thread it    *)
(* interrupts, which then goes on. SIGWINCH interrupts the main thread.    *)
(*                                                                         *)
(* An object that is used or deleted when it does not exist, windows that  *)
(* change while they are used, and a focus that is nowhere, make the       *)
(* behaviour undefined: the model ends there.                              *)
(***************************************************************************)
EXTENDS GUINcurses

CONSTANTS
    MaxSignals, MaxConnections  \* bounds of the model, the first for both signals

ASSUME ShutdownAssumption == MaxSignals \in Nat /\ MaxConnections \in Nat

VARIABLES
    source,     \* "sniffer" or "folder"
    gui,        \* "ncurses" or "none"
    main,       \* where the main thread is
    worker,     \* where each of the other threads is
    enabled,    \* those whose `enabled` is set
    cleanup,    \* where each thread is in globals_cleanup()
    alive,      \* the objects that `globals` points to
    sniffing,   \* flagRunning of the sniffer, running of FolderSource
    running,    \* globals.running
    open,       \* the connections whose listeners wait for their end
    hits,       \* where SIGINT found which thread
    signals,    \* how often it came
    resizes,    \* how often SIGWINCH came
    above,      \* its handler has interrupted that of SIGINT
    dangling    \* what does not exist was used

setup == <<source, gui>>
signalVars == <<hits, signals, resizes, above>>
vars == <<setup, main, worker, enabled, cleanup, alive, sniffing, running, open, signalVars,
          dangling, guiVars>>

Workers == {"key", "update", "exporter"}
Threads == Workers \cup {"main"}

\* What main() makes or does, and what after it
After == [analyzer |-> "expThread", expThread |-> "httpSrc", httpSrc |-> "gui",
          gui |-> "model", model |-> "show", show |-> "exporters", exporters |-> "start"]
Objects == {"analyzer", "expThread", "httpSrc", "gui", "exporters"}

\* These objects are used by a step.
Uses(objects) == dangling' = (dangling \/ ~ objects \subseteq alive)

\* What a thread uses
Needs(t) == CASE t = "exporter" -> {"expThread", "exporters", "analyzer"}
              [] t = "handler" -> {"gui"}
              [] OTHER -> {"gui", "analyzer"}

Undefined == dangling \/ Clash \/ inGui["key"] = "lost"
Live == main # "exited" /\ ~Undefined

\* The thread goes on: it is in no handler, and that of SIGWINCH goes on unless
\* that of SIGINT has interrupted it.
Interrupted(t) ==
    CASE t = "main" -> cleanup["main"] # "none" \/ inGui["handler"] # "out"
      [] t = "handler" -> cleanup["main"] # "none" /\ ~above
      [] OTHER -> cleanup[t] # "none"
Free(t) == Live /\ ~Interrupted(t)

-----------------------------------------------------------------------------
(* main() *)

\* Each object is made, and told to the analyzer, in turn; the ncurses gui is
\* made with its threads.
Make(object) ==
    /\ main = object /\ Free("main")
    /\ alive' = alive \cup {object}
    /\ Uses(IF object \in {"httpSrc", "gui", "exporters"} THEN {"analyzer"} ELSE {})
    /\ main' = IF object = "gui" /\ gui = "none" THEN "exporters" ELSE After[object]
    /\ IF object = "gui" /\ gui = "ncurses"
       THEN /\ worker' = [worker EXCEPT !["key"] = "idle", !["update"] = "idle"]
            /\ enabled' = enabled \cup {"key", "update"}
       ELSE UNCHANGED <<worker, enabled>>
    /\ UNCHANGED <<setup, cleanup, sniffing, running, open, signalVars, guiVars>>

\* Analyzer::setGUI(): each window is made, all are resized and then updated.
SetGUI ==
    /\ main \in {"model", "show"} /\ Free("main") /\ inGui["main"] = "out"
    /\ LET made == Cardinality({i \in DOMAIN windows : windows[i] # "pop-up"})
       IN  IF main = "show" THEN Enters("main", "update") /\ UNCHANGED <<windowVars, mutex>>
           ELSE IF made < Len(BaseWindows) THEN Attach("main", BaseWindows[made + 1])
           ELSE Enters("main", "resize") /\ UNCHANGED <<windowVars, mutex>>
    /\ Uses(Needs("main"))
    /\ UNCHANGED <<setup, main, worker, enabled, cleanup, alive, sniffing, running, open, signalVars>>

\* expThread->start(), and httpSrc->start()
Run ==
    /\ main = "start" /\ Free("main")
    /\ Uses({"expThread", "httpSrc"})
    /\ worker' = [worker EXCEPT !["exporter"] = "idle"]
    /\ enabled' = enabled \cup {"exporter"}
    /\ sniffing' = TRUE
    /\ main' = "reading"
    /\ UNCHANGED <<setup, cleanup, alive, running, open, signalVars, guiVars>>

\* A packet, or a piece of a file: the source calls what listens to it.
Receive ==
    /\ main = "reading" /\ Free("main") /\ sniffing
    /\ main' = "called"
    /\ Uses({"httpSrc", "analyzer", "exporters"})
    /\ UNCHANGED <<setup, worker, enabled, cleanup, alive, sniffing, running, open, signalVars, guiVars>>

\* The callback goes on, and a connection may begin or end with it.
Received ==
    /\ main = "called" /\ Free("main")
    /\ open' \in {open, open + 1, open - 1} \cap (0 .. MaxConnections)
    /\ main' = "reading"
    /\ Uses({"httpSrc", "analyzer", "exporters"})
    /\ UNCHANGED <<setup, worker, enabled, cleanup, alive, sniffing, running, signalVars, guiVars>>

\* start() returns: the folder is done, or the source was stopped. Unlike the
\* sniffer, FolderSource is a part of what was deleted.
Return ==
    /\ main = "reading" /\ Free("main")
    /\ ~sniffing \/ (source = "folder" /\ open = 0)
    /\ main' = "waiting"
    /\ Uses(IF source = "folder" THEN {"httpSrc"} ELSE {})
    /\ UNCHANGED <<setup, worker, enabled, cleanup, alive, sniffing, running, open, signalVars, guiVars>>

\* The loop at the end of main(), and the cleanup behind it
Leave ==
    /\ main = "waiting" /\ Free("main") /\ ~running
    /\ main' = "leaving"
    /\ cleanup' = [cleanup EXCEPT !["main"] = "gui"]
    /\ UNCHANGED <<setup, worker, enabled, alive, sniffing, running, open, signalVars, dangling, guiVars>>

-----------------------------------------------------------------------------
(* The other threads: Scheduler::run(), KeyThread and UpdateThread *)

\* A worker that sleeps looks whether it is enabled before it works.
Wake(w) ==
    /\ worker[w] = "idle" /\ Free(w)
    /\ worker' = [worker EXCEPT ![w] = IF w \in enabled THEN "busy" ELSE "ended"]
    /\ Uses(IF w \in enabled THEN Needs(w) ELSE {})
    /\ IF w = "update" /\ w \in enabled THEN Enters(w, "update") ELSE UNCHANGED inGui
    /\ UNCHANGED <<setup, main, enabled, cleanup, alive, sniffing, running, open, signalVars, windowVars, mutex>>

\* The exporters are done.
Exported ==
    /\ worker["exporter"] = "busy" /\ Free("exporter")
    /\ worker' = [worker EXCEPT !["exporter"] = "idle"]
    /\ Uses(Needs("exporter"))
    /\ UNCHANGED <<setup, main, enabled, cleanup, alive, sniffing, running, open, signalVars, guiVars>>

\* The thread of the keys looks whether it is enabled after each key.
AfterKey == [worker EXCEPT !["key"] = IF "key" \in enabled THEN "idle" ELSE "ended"]

Press(key) ==
    /\ worker["key"] = "idle" /\ Free("key")
    /\ Uses(Needs("key"))
    /\ IF windows = <<>> THEN worker' = AfterKey /\ UNCHANGED guiVars
       ELSE OnKey(key) /\ worker' = [worker EXCEPT !["key"] = "busy"]
    /\ UNCHANGED <<setup, main, enabled, cleanup, alive, sniffing, running, open, signalVars>>

\* A step of a thread within the gui
GuiStep(t) ==
    /\ Free(t)
    /\ Attached(t) \/ Detach(t) \/ Update(t) \/ OnResize(t)
    /\ Uses(Needs(t))
    /\ UNCHANGED <<setup, main, worker, enabled, cleanup, alive, sniffing, running, open, signalVars>>

\* It is done with it, or comes back from quit().
LeaveGui(t) ==
    /\ Free(t)
    /\ Release(t) \/ (inGui[t] = "quit" /\ Enters(t, "out") /\ UNCHANGED <<windowVars, mutex>>)
    /\ Uses(Needs(t))
    /\ main' = IF t = "main" THEN After[main] ELSE main
    /\ worker' = CASE t = "key" -> AfterKey
                   [] t = "update" -> [worker EXCEPT ![t] = "idle"]
                   [] OTHER -> worker
    /\ above' = (above /\ t # "handler")
    /\ UNCHANGED <<setup, enabled, cleanup, alive, sniffing, running, open, hits, signals, resizes>>

-----------------------------------------------------------------------------
(* globals_cleanup(), as far as it waits for threads or calls listeners *)

At(t, place) == Live /\ cleanup[t] = place /\ (t = "main" => inGui["handler"] = "out" \/ ~above)
Goes(t, place) == cleanup' = [cleanup EXCEPT ![t] = place]

\* pthread_join() of the own thread fails at once.
Joins(t, w) == t = w \/ worker[w] \in {"off", "ended"}

\* delete globals.gui: stop the thread of the keys,
StopKeys(t) ==
    /\ At(t, "gui")
    /\ IF "gui" \in alive THEN enabled' = enabled \ {"key"} /\ Goes(t, "join key")
       ELSE Goes(t, "expThread") /\ UNCHANGED enabled
    /\ UNCHANGED <<setup, main, worker, alive, sniffing, running, open, signalVars, dangling, guiVars>>

\* Mutant of StopUpdates: the thread is waited for, but not told.
StopUpdatesUntold(t) ==
    /\ At(t, "join key") /\ Joins(t, "key")
    /\ Goes(t, "join update")
    /\ UNCHANGED <<setup, main, worker, enabled, alive, sniffing, running, open, signalVars, dangling, guiVars>>

\* then the one that updates,
StopUpdates(t) ==
    /\ At(t, "join key") /\ Joins(t, "key")
    /\ enabled' = enabled \ {"update"}
    /\ Goes(t, "join update")
    /\ UNCHANGED <<setup, main, worker, alive, sniffing, running, open, signalVars, dangling, guiVars>>

\* and delete the windows.
DeleteGui(t) ==
    /\ At(t, "join update") /\ Joins(t, "update")
    /\ Uses({"gui"})
    /\ alive' = alive \ {"gui"}
    /\ windows' = <<>> /\ focusedIdx' = 0
    /\ Goes(t, "expThread")
    /\ UNCHANGED <<setup, main, worker, enabled, sniffing, running, open, signalVars, needsResize,
                   misjudged, mutex, inGui>>

\* Mutant of StopExporting: the thread is told, but not waited for.
StopExportingOnly(t) ==
    /\ At(t, "expThread")
    /\ enabled' = enabled \ {"exporter"}
    /\ Goes(t, "analyzer")
    /\ UNCHANGED <<setup, main, worker, alive, sniffing, running, open, signalVars, dangling, guiVars>>

\* expThread->stop(): a thread that was not started is not stopped.
StopExporting(t) ==
    /\ At(t, "expThread")
    /\ IF "expThread" \in alive /\ worker["exporter"] # "off"
       THEN enabled' = enabled \ {"exporter"} /\ Goes(t, "join exporter")
       ELSE Goes(t, "analyzer") /\ UNCHANGED enabled
    /\ UNCHANGED <<setup, main, worker, alive, sniffing, running, open, signalVars, dangling, guiVars>>

DeleteAnalyzer(t) ==
    /\ At(t, "analyzer") \/ (At(t, "join exporter") /\ Joins(t, "exporter"))
    /\ alive' = alive \ {"analyzer"}
    /\ Goes(t, "httpSrc")
    /\ UNCHANGED <<setup, main, worker, enabled, sniffing, running, open, signalVars, dangling, guiVars>>

\* stop() of a sniffer that was not started ends the program. The destructor
\* of a NetSource ends the connections, which the exporters are told.
DeleteSource(t) ==
    /\ At(t, "httpSrc")
    /\ IF "httpSrc" \in alive /\ source = "sniffer" /\ ~sniffing
       THEN main' = "exited" /\ UNCHANGED <<cleanup, alive, sniffing, open, dangling>>
       ELSE /\ sniffing' = (sniffing /\ "httpSrc" \notin alive)
            /\ IF "httpSrc" \in alive /\ source = "sniffer"
               THEN open' = 0 /\ Uses(IF open > 0 THEN {"exporters"} ELSE {})
               ELSE UNCHANGED <<open, dangling>>
            /\ alive' = alive \ {"httpSrc"}
            /\ Goes(t, "exporters")
            /\ UNCHANGED main
    /\ UNCHANGED <<setup, worker, enabled, running, signalVars, guiVars>>

\* The exporters, and their thread, which is stopped if it was not
DeleteExporters(t) ==
    /\ At(t, "exporters")
    /\ IF "expThread" \in alive
       THEN alive' = alive \ {"exporters"} /\ enabled' = enabled \ {"exporter"}
       ELSE UNCHANGED <<alive, enabled>>
    /\ Goes(t, "thread")
    /\ UNCHANGED <<setup, main, worker, sniffing, running, open, signalVars, dangling, guiVars>>

\* The main thread may end; the handler or main() returns.
End(t) ==
    /\ At(t, "thread") /\ ("expThread" \in alive => Joins(t, "exporter"))
    /\ alive' = alive \ {"expThread"}
    /\ running' = FALSE
    /\ Goes(t, "none")
    /\ main' = IF t = "main" /\ main = "leaving" THEN "exited" ELSE main
    /\ UNCHANGED <<setup, worker, enabled, sniffing, open, signalVars, dangling, guiVars>>

Cleanup(t) ==
    \/ StopKeys(t) \/ StopUpdates(t) \/ DeleteGui(t)
    \/ StopExporting(t) \/ DeleteAnalyzer(t) \/ DeleteSource(t)
    \/ DeleteExporters(t) \/ End(t)

-----------------------------------------------------------------------------
(* Signals *)

\* Bound: for a second signal all was set up when the first one came, and
\* neither finds the main thread in a callback.
MayCome ==
    /\ signals + resizes < MaxSignals
    /\ signals + resizes > 0 =>
          /\ main \in {"reading", "waiting"}
          /\ hits \subseteq {<<"main", "reading">>, <<"main", "waiting">>, <<"key", "busy">>}

Interrupt(t, place) ==
    /\ Live /\ cleanup[t] = "none" /\ MayCome
    /\ signals' = signals + 1
    /\ hits' = hits \cup {<<t, place>>}
    /\ Goes(t, "gui")
    /\ UNCHANGED <<setup, main, enabled, alive, sniffing, running, open, resizes, above, dangling,
                   windowVars, mutex>>

\* Ctrl-C: the main thread takes it, or another one while that is in the
\* handler. What main() calls at its end is left alone: it has nothing to do.
CtrlC ==
    /\ \/ Interrupt("main", IF inGui["handler"] = "out" THEN main ELSE "handler")
       \/ /\ cleanup["main"] # "none" /\ main # "leaving"
          /\ \E w \in Workers : worker[w] \in {"idle", "busy"} /\ Interrupt(w, worker[w])
    /\ UNCHANGED <<worker, inGui>>

\* quit() raises it in the thread of the keys.
PressF2 ==
    /\ worker["key"] = "idle" /\ Free("key") /\ IsLeftOver
    /\ Interrupt("key", "busy")
    /\ worker' = [worker EXCEPT !["key"] = "busy"]
    /\ Enters("key", "quit")

\* SIGWINCH, which is handled once the ncurses gui is there: resizeHandler()
Resize ==
    /\ Live /\ gui = "ncurses" /\ worker["key"] # "off"
    /\ inGui["handler"] = "out" /\ MayCome
    /\ resizes' = resizes + 1
    /\ above' = (cleanup["main"] # "none")
    /\ Enters("handler", "resize")
    /\ Uses(Needs("handler"))
    /\ UNCHANGED <<setup, main, worker, enabled, cleanup, alive, sniffing, running, open, hits, signals,
                   windowVars, mutex>>

-----------------------------------------------------------------------------
Init ==
    /\ source \in {"sniffer", "folder"} /\ gui \in {"ncurses", "none"}
    /\ main = "analyzer"
    /\ worker = [w \in Workers |-> "off"] /\ enabled = {}
    /\ cleanup = [t \in Threads |-> "none"]
    /\ alive = {} /\ sniffing = FALSE /\ running = TRUE /\ open = 0
    /\ hits = {} /\ signals = 0 /\ resizes = 0 /\ above = FALSE /\ dangling = FALSE
    /\ GuiInit

\* What the threads do of their own accord
MainStep ==
    \/ \E object \in Objects : Make(object)
    \/ SetGUI
    \/ Run \/ Received \/ Return \/ Leave

Step(t) ==
    \/ t = "main" /\ (MainStep \/ GuiStep("handler") \/ LeaveGui("handler"))
    \/ t = "exporter" /\ (Wake(t) \/ Exported)
    \/ t = "update" /\ Wake(t)
    \/ t \in GuiThreads /\ (GuiStep(t) \/ LeaveGui(t))
    \/ Cleanup(t)

Next ==
    \/ \E t \in Threads : Step(t)
    \/ Receive
    \/ \E key \in Keys : Press(key)
    \/ CtrlC \/ PressF2 \/ Resize

\* Every thread goes on, also that of the source: the sniffer's dispatch times
\* out. Neither packets nor keys have to come. Who waits for the mutex gets it:
\* between two updates it is free for half a second.
Fairness ==
    /\ \A t \in {"update", "exporter"} : WF_vars(Step(t))
    /\ \A t \in {"main", "key"} : SF_vars(Step(t))

Spec == Init /\ [][Next]_vars /\ Fairness

-----------------------------------------------------------------------------
(* Properties *)

\* Where the main thread may be interrupted: not in a callback of the source,
\* which FolderSource never leaves, and not before all is set up.
Harmless ==
    {<<"main", "waiting">>} \cup IF source = "sniffer" THEN {<<"main", "reading">>} ELSE {}

\* Only a terminal that is resized when the gui is gone asks for it again.
NothingDangles == dangling => resizes > 0 /\ "gui" \notin alive

\* Where Ctrl-C finds the main thread where it does no harm, be it once more
\* when the cleanup before it is done, no thread ever uses what was deleted, each
\* listener hears of the end of its connection while it exists, and nothing is
\* left when the program ends. Signals that find another thread are not spoken of.
CleanExit ==
    hits \subseteq Harmless =>
        /\ NothingDangles
        /\ main = "exited" => alive = {} /\ open = 0

\* The thread of the keys is to end, but nobody presses a key.
WaitsForKey == worker["key"] = "idle" /\ \E t \in Threads : cleanup[t] = "join key"

\* Who has the mutex of the gui is interrupted by a handler, which waits.
IsBlocked == mutex # "none" /\ Interrupted(mutex)

\* Once there is something to delete, SIGINT ends the program wherever it comes,
\* unless with the ncurses gui the cleanup waits for a key for ever, or a signal
\* found the main thread in the gui: otherwise no thread waits for another in
\* vain, with two cleanups side by side neither.
SignalEnds ==
    [](hits \ {<<"main", "analyzer">>} # {} =>
          <>~Live \/ <>[]WaitsForKey \/ <>[]IsBlocked)

\* The threads of the gui, and a terminal that is resized, never wait for each
\* other: whoever has the mutex lets go of it, unless a signal interrupts it for
\* a handler that waits for it, or for a thread that does.
MutexIsReleased == [](mutex # "none" => <>(mutex = "none" \/ ~Live) \/ <>[]IsBlocked)

\* Keys go to a window that there is, and to a pop-up that is on top, whatever
\* is opened and closed in whatever order, also while windows are still made,
\* as long as detach() is lucky with the index it computes.
FocusIsThere ==
    ~misjudged /\ windows # <<>> =>
        /\ focusedIdx < Len(windows)
        /\ Last(windows) = "pop-up" => focusedIdx = Len(windows) - 1

=============================================================================
