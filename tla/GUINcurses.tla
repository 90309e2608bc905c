----------------------------- MODULE GUINcurses -----------------------------
(***************************************************************************)
(* The windows of the ncurses gui (gui/ncurses/) and the threads that use  *)
(* them: the main thread makes them, the thread of the keys adds and       *)
(* deletes pop-ups, the one that updates draws all of them twice a second, *)
(* and SIGWINCH has them resized in the main thread, whatever it was at.   *)
(*                                                                         *)
(* The mutex is for drawing and resizing. Neither the vector of windows    *)
(* nor the focus is guarded by it, and a window is in the vector before    *)
(* it is complete and until most of it is gone.                            *)
(***************************************************************************)
EXTENDS Integers, Sequences, SequencesExt

CONSTANTS
    BaseWindows,    \* what setModel() makes, in turn
    Openers         \* those that open a pop-up with the enter key

ASSUME WindowsAssumption ==
    /\ BaseWindows \in Seq(STRING \ {"pop-up"}) /\ BaseWindows # <<>>
    /\ Openers \subseteq STRING \ {"pop-up"}

VARIABLES
    windows,        \* the vector
    focusedIdx,
    needsResize,
    mutex,          \* who holds it, or "none"
    inGui,          \* where each thread is in the gui
    misjudged       \* detach() has found an index below that of the focus

windowVars == <<windows, focusedIdx, needsResize, misjudged>>
guiVars == <<windowVars, mutex, inGui>>

\* The handler of SIGWINCH is in the main thread, but above what that is at.
GuiThreads == {"main", "handler", "key", "update"}
Keys == {"enter", "tab", "escape"}

Drawing(t) == inGui[t] \in {"refresh", "resizing"}
Changing(t) == inGui[t] \in {"adding", "closing"}

\* A thread goes through the windows while another one adds or deletes one.
Clash == \E t, u \in GuiThreads : t # u /\ Changing(t) /\ (Drawing(u) \/ Changing(u))

Enters(t, place) == inGui' = [inGui EXCEPT ![t] = place]

-----------------------------------------------------------------------------
(* Windows *)

\* attach(), from the constructor of what the window is derived from
Attach(t, window) ==
    /\ windows' = Append(windows, window)
    /\ focusedIdx' = Len(windows)
    /\ needsResize' = TRUE
    /\ Enters(t, "adding")
    /\ UNCHANGED <<mutex, misjudged>>

\* The constructor is done: in the thread of the keys, update() is next.
Attached(t) ==
    /\ inGui[t] = "adding"
    /\ Enters(t, IF t = "key" THEN "update" ELSE "out")
    /\ UNCHANGED <<windowVars, mutex>>

\* Mutant of Detach: the focus is left where it was.
DetachOnly(t) ==
    /\ inGui[t] = "closing"
    /\ windows' = RemoveAt(windows, focusedIdx + 1)
    /\ Enters(t, "update")
    /\ UNCHANGED <<focusedIdx, misjudged, needsResize, mutex>>

\* detach(), from the destructor. What is taken for the index of the window is
\* the distance of a parameter from the vector, so it may be any.
Detach(t) ==
    /\ inGui[t] = "closing"
    /\ windows' = RemoveAt(windows, focusedIdx + 1)
    /\ \/ focusedIdx' = focusedIdx - 1 /\ UNCHANGED misjudged
       \/ misjudged' = TRUE /\ UNCHANGED focusedIdx
    /\ Enters(t, "update")
    /\ UNCHANGED <<needsResize, mutex>>

\* onKey(): the focused window has the key, and a pop-up keeps it. F2 is left
\* to the thread it ends.
OnKey(key) ==
    /\ windows # <<>> /\ inGui["key"] = "out"
    /\ IF focusedIdx >= Len(windows) THEN Enters("key", "lost") /\ UNCHANGED <<windowVars, mutex>>
       ELSE LET window == windows[focusedIdx + 1]
            IN  CASE window = "pop-up" ->
                       /\ Enters("key", IF key = "escape" THEN "closing" ELSE "update")
                       /\ UNCHANGED <<windowVars, mutex>>
                  [] window \in Openers /\ key = "enter" -> Attach("key", "pop-up")
                  [] OTHER ->
                       /\ focusedIdx' = IF key = "tab" THEN (focusedIdx + 1) % Len(windows) ELSE focusedIdx
                       /\ Enters("key", "update")
                       /\ UNCHANGED <<windows, needsResize, misjudged, mutex>>

\* A key that no window takes: so it is with F2, unless there is a pop-up.
IsLeftOver == windows # <<>> /\ focusedIdx < Len(windows) /\ windows[focusedIdx + 1] # "pop-up"

-----------------------------------------------------------------------------
(* Drawing *)

\* Mutant of Update: the mutex is kept for onResize(), which wants it, too.
UpdateKeepsLock(t) ==
    /\ inGui[t] = "update" /\ mutex = "none"
    /\ mutex' = t
    /\ needsResize' = FALSE
    /\ Enters(t, IF needsResize THEN "resize" ELSE "refresh")
    /\ UNCHANGED <<windows, focusedIdx, misjudged>>

\* update(), up to the windows: they are resized instead if one is new.
Update(t) ==
    /\ inGui[t] = "update" /\ mutex = "none"
    /\ IF needsResize
       THEN needsResize' = FALSE /\ Enters(t, "resize") /\ UNCHANGED mutex
       ELSE mutex' = t /\ Enters(t, "refresh") /\ UNCHANGED needsResize
    /\ UNCHANGED <<windows, focusedIdx, misjudged>>

\* onResize(), up to the windows
OnResize(t) ==
    /\ inGui[t] = "resize" /\ mutex = "none"
    /\ mutex' = t
    /\ Enters(t, "resizing")
    /\ UNCHANGED windowVars

\* All windows are drawn or resized.
Release(t) ==
    /\ Drawing(t)
    /\ mutex' = "none"
    /\ Enters(t, "out")
    /\ UNCHANGED windowVars

GuiInit ==
    /\ windows = <<>> /\ focusedIdx = 0 /\ needsResize = FALSE
    /\ mutex = "none"
    /\ inGui = [t \in GuiThreads |-> "out"]
    /\ misjudged = FALSE

=============================================================================
