--------------------------- MODULE ShutdownProofs ---------------------------
(***************************************************************************)
(* Proofs about Shutdown, for any windows, number of connections and of    *)
(* signals.                                                                *)
(***************************************************************************)
EXTENDS Shutdown, FiniteSetTheorems, SequenceTheorems, TLAPS

-----------------------------------------------------------------------------
(* Types *)

MainPlaces == {"analyzer", "expThread", "httpSrc", "gui", "model", "show", "exporters", "start",
               "reading", "called", "waiting", "leaving", "exited"}
CleanupPlaces == {"none", "gui", "join key", "join update", "expThread", "join exporter",
                  "analyzer", "httpSrc", "exporters", "thread"}
GuiPlaces == {"out", "adding", "closing", "update", "refresh", "resize", "resizing", "quit", "lost"}

Kinds == {"pop-up"} \cup {BaseWindows[i] : i \in DOMAIN BaseWindows}
WindowTypes == windows \in Seq(Kinds) /\ focusedIdx \in Int /\ misjudged \in BOOLEAN

\* Pop-ups are closed by the thread of the keys only.
GuiTypes ==
    /\ inGui \in [GuiThreads -> GuiPlaces]
    /\ \A t \in GuiThreads : inGui[t] = "closing" => t = "key"

ControlTypes ==
    /\ source \in {"sniffer", "folder"} /\ gui \in {"ncurses", "none"}
    /\ main \in MainPlaces
    /\ worker \in [Workers -> {"off", "idle", "busy", "ended"}] /\ enabled \subseteq Workers
    /\ cleanup \in [Threads -> CleanupPlaces]
    /\ alive \subseteq Objects
    /\ sniffing \in BOOLEAN /\ running \in BOOLEAN
    /\ open \in Nat
    /\ resizes \in Nat /\ above \in BOOLEAN /\ dangling \in BOOLEAN
    /\ GuiTypes
    /\ inGui["main"] # "out" => main \in {"model", "show", "exited"}

TypeOK == ControlTypes /\ WindowTypes

\* What setModel() has made so far is a number of windows.
LEMMA MadeIsNat ==
    ASSUME WindowTypes
    PROVE  Cardinality({i \in DOMAIN windows : windows[i] # "pop-up"}) \in Nat
<1>1. IsFiniteSet(DOMAIN windows)
  <2>1. DOMAIN windows = 1 .. Len(windows) /\ Len(windows) \in Nat
    BY LenProperties DEF WindowTypes
  <2> QED BY <2>1, FS_Interval
<1>2. IsFiniteSet({i \in DOMAIN windows : windows[i] # "pop-up"})
  BY <1>1, FS_Subset
<1> QED BY <1>2, FS_CardinalityType

\* A window is added: it is behind the others, and has the focus.
LEMMA AttachWindow ==
    ASSUME WindowTypes, NEW t, NEW window \in Kinds, Attach(t, window)
    PROVE  /\ WindowTypes'
           /\ windows' # <<>> /\ Len(windows') = Len(windows) + 1
           /\ focusedIdx' = Len(windows) /\ windows'[focusedIdx' + 1] = window
           /\ windows # <<>> => windows'[1] = windows[1]
           /\ windows = <<>> => windows'[1] = window
           /\ misjudged' = misjudged
<1> USE DEF WindowTypes, Attach
<1>1. windows' = Append(windows, window) /\ focusedIdx' = Len(windows) /\ misjudged' = misjudged
  OBVIOUS
<1>2. /\ windows' \in Seq(Kinds) /\ Len(windows') = Len(windows) + 1
      /\ \A i \in 1 .. Len(windows) : windows'[i] = windows[i]
      /\ windows'[Len(windows) + 1] = window
  BY <1>1, AppendProperties
<1>3. Len(windows) \in Nat /\ (windows = <<>> <=> Len(windows) = 0)
  BY LenProperties, EmptySeq
<1> QED BY <1>1, <1>2, <1>3, EmptySeq, LenProperties

\* What is left when the window with the focus is removed
LEMMA FocusRemoved ==
    ASSUME focusedIdx \in Int
    PROVE  RemoveAt(windows, focusedIdx + 1)
             = SubSeq(windows, 1, focusedIdx) \o SubSeq(windows, focusedIdx + 2, Len(windows))
<1>1. RemoveAt(windows, focusedIdx + 1)
        = SubSeq(windows, 1, (focusedIdx + 1) - 1) \o SubSeq(windows, (focusedIdx + 1) + 1, Len(windows))
  BY Zenon DEF RemoveAt
<1>2. (focusedIdx + 1) - 1 = focusedIdx /\ (focusedIdx + 1) + 1 = focusedIdx + 2
  OBVIOUS
<1> QED BY <1>1, <1>2, Zenon

\* The window with the focus is removed, and the focus goes one down or stays.
LEMMA DetachWindow ==
    ASSUME WindowTypes, windows # <<>>, focusedIdx \in 0 .. Len(windows) - 1,
           NEW t, Detach(t)
    PROVE  /\ WindowTypes'
           /\ Len(windows') = Len(windows) - 1
           /\ \A i \in 1 .. Len(windows') :
                 windows'[i] = windows[IF i <= focusedIdx THEN i ELSE i + 1]
           /\ \/ focusedIdx' = focusedIdx - 1 /\ misjudged' = misjudged
              \/ focusedIdx' = focusedIdx /\ misjudged' = TRUE
<1> USE DEF WindowTypes
<1>1. windows' = SubSeq(windows, 1, focusedIdx) \o SubSeq(windows, focusedIdx + 2, Len(windows))
  BY FocusRemoved, Zenon DEF Detach
<1>2. /\ Len(windows) \in Nat
      /\ \A i \in 1 .. Len(windows) : windows[i] \in Kinds
  BY LenProperties
<1> DEFINE below == SubSeq(windows, 1, focusedIdx)
<1> DEFINE behind == SubSeq(windows, focusedIdx + 2, Len(windows))
<1>3. /\ below \in Seq(Kinds) /\ Len(below) = focusedIdx
      /\ \A i \in 1 .. focusedIdx : below[i] = windows[i]
  BY <1>2, SubSeqProperties
<1>4. /\ behind \in Seq(Kinds) /\ Len(behind) = Len(windows) - focusedIdx - 1
      /\ \A i \in 1 .. Len(windows) - focusedIdx - 1 : behind[i] = windows[focusedIdx + 1 + i]
  BY <1>2, SubSeqProperties
<1>5. windows' = below \o behind
  BY <1>1
<1> HIDE DEF below, behind
<1>9. /\ windows' \in Seq(Kinds) /\ Len(windows') = Len(below) + Len(behind)
      /\ \A i \in 1 .. Len(below) + Len(behind) :
            windows'[i] = IF i <= Len(below) THEN below[i] ELSE behind[i - Len(below)]
  BY <1>3, <1>4, <1>5, ConcatProperties, ZenonT(60)
<1>6. /\ windows' \in Seq(Kinds) /\ Len(windows') = Len(windows) - 1
      /\ \A i \in 1 .. Len(windows) - 1 :
            windows'[i] = IF i <= focusedIdx THEN below[i] ELSE behind[i - focusedIdx]
  BY <1>2, <1>3, <1>4, <1>9
<1>7. \A i \in 1 .. Len(windows') : windows'[i] = windows[IF i <= focusedIdx THEN i ELSE i + 1]
  BY <1>2, <1>3, <1>4, <1>6
<1>8. \/ focusedIdx' = focusedIdx - 1 /\ misjudged' = misjudged
      \/ focusedIdx' = focusedIdx /\ misjudged' = TRUE
  BY Zenon DEF Detach
<1>10. focusedIdx' \in Int
  BY <1>8
<1>11. misjudged' \in BOOLEAN
  BY <1>8, Zenon
<1>12. WindowTypes'
  BY <1>6, <1>10, <1>11
<1> QED BY <1>6, <1>7, <1>8, <1>12, Zenon

\* A window is removed after the gui that it belonged to: there is none.
LEMMA DetachNothing ==
    ASSUME windows = <<>>, focusedIdx = 0, misjudged \in BOOLEAN, NEW t, Detach(t)
    PROVE  windows' = <<>> /\ WindowTypes'
<1>1. windows' = SubSeq(windows, 1, 0) \o SubSeq(windows, 2, Len(windows))
  <2>1. windows' = RemoveAt(windows, focusedIdx + 1)
    BY DEF Detach
  <2> QED BY <2>1, FocusRemoved
<1>2. SubSeq(windows, 1, 0) = <<>>
  BY SubSeqEmpty
<1>3. Len(windows) = 0
  BY EmptySeq
<1>4. SubSeq(windows, 2, Len(windows)) = <<>>
  BY <1>3, SubSeqEmpty
<1>5. windows' = <<>>
  BY <1>1, <1>2, <1>4, ConcatEmptySeq, EmptySeq
<1>6. \/ focusedIdx' = focusedIdx - 1 /\ misjudged' = misjudged
      \/ focusedIdx' = focusedIdx /\ misjudged' = TRUE
  BY Zenon DEF Detach
<1>7. focusedIdx' \in Int
  BY <1>6
<1>8. misjudged' \in BOOLEAN
  BY <1>6, Zenon
<1>9. windows' \in Seq(Kinds)
  BY <1>5, EmptySeq
<1> QED BY <1>5, <1>7, <1>8, <1>9 DEF WindowTypes

-----------------------------------------------------------------------------
(* The focus *)

\* Under all pop-ups there is a window of another kind, as that opens them.
Bottom == windows # <<>> => windows[1] # "pop-up" /\ 0 <= focusedIdx

\* The window that a key is about to close has the focus still, unless the gui
\* was deleted meanwhile.
Closing ==
    ~Clash /\ inGui["key"] = "closing" =>
        IF windows = <<>> THEN focusedIdx = 0
        ELSE focusedIdx < Len(windows) /\ windows[focusedIdx + 1] = "pop-up"

FocusInv == WindowTypes /\ Bottom /\ Closing /\ FocusIsThere

\* Nobody touches the windows or the focus, and no pop-up is about to be closed.
LEMMA FocusUntouched ==
    ASSUME FocusInv, ~Clash, UNCHANGED <<windows, focusedIdx, misjudged>>,
           inGui'["key"] = "closing" => inGui["key"] = "closing"
    PROVE  FocusInv'
<1>1. WindowTypes' /\ Bottom' /\ FocusIsThere'
  BY DEF FocusInv, WindowTypes, Bottom, FocusIsThere, Last
<1>2. Closing'
  BY Zenon DEF FocusInv, Closing
<1> QED BY <1>1, <1>2 DEF FocusInv

\* A window is added by the main thread, or a pop-up by that of the keys. If the
\* main thread adds one while the other closes one, the model ends.
LEMMA FocusAttach ==
    ASSUME GuiTypes, FocusInv, NEW t \in {"main", "key"}, NEW window \in Kinds,
           Attach(t, window), window = "pop-up" => t = "key" /\ windows # <<>>
    PROVE  FocusInv'
<1> USE DEF FocusInv
<1>1. /\ WindowTypes'
      /\ windows' # <<>> /\ Len(windows') = Len(windows) + 1
      /\ focusedIdx' = Len(windows) /\ windows'[focusedIdx' + 1] = window
      /\ windows # <<>> => windows'[1] = windows[1]
      /\ windows = <<>> => windows'[1] = window
  BY AttachWindow
<1>2. Len(windows) \in Nat
  BY LenProperties DEF WindowTypes
<1>3. Bottom'
  BY <1>1, <1>2 DEF Bottom
<1>4. inGui' = [inGui EXCEPT ![t] = "adding"]
  BY DEF Attach, Enters
<1>5. Closing'
  <2>1. CASE t = "key"
    BY <1>4, <2>1 DEF Closing, GuiTypes, GuiThreads
  <2>2. CASE t = "main"
    <3>1. SUFFICES ASSUME inGui'["key"] = "closing" PROVE Clash'
      BY DEF Closing
    <3>2. Changing("main")' /\ Changing("key")'
      BY <1>4, <2>2, <3>1 DEF Changing, GuiTypes, GuiThreads
    <3> QED BY <3>2 DEF Clash, GuiThreads
  <2> QED BY <2>1, <2>2
<1>6. FocusIsThere'
  BY <1>1, <1>2 DEF FocusIsThere
<1> QED BY <1>1, <1>3, <1>5, <1>6

\* The pop-up that had the focus is gone: the window below has it, if detach() was
\* lucky.
LEMMA FocusDetach ==
    ASSUME GuiTypes, FocusInv, ~Clash, NEW t \in GuiThreads, Detach(t)
    PROVE  FocusInv'
<1> USE DEF FocusInv
<1>1. t = "key" /\ inGui["key"] = "closing" /\ inGui' = [inGui EXCEPT ![t] = "update"]
  BY DEF Detach, Enters, GuiTypes
<1>2. Closing'
  BY <1>1 DEF Closing, GuiTypes, GuiThreads
<1>3. CASE windows = <<>>
  <2>1. windows' = <<>> /\ WindowTypes'
    BY <1>1, <1>3, DetachNothing DEF Closing, WindowTypes
  <2> QED BY <1>2, <2>1 DEF Bottom, FocusIsThere
<1>4. CASE windows # <<>>
  <2> DEFINE n == Len(windows)
  <2>1. n \in Nat \ {0}
    BY <1>4, EmptySeq DEF WindowTypes
  <2>2. /\ focusedIdx \in 1 .. n - 1 /\ windows[focusedIdx + 1] = "pop-up"
        /\ windows[1] # "pop-up"
    BY <1>1, <1>4, <2>1 DEF Closing, Bottom, WindowTypes
  <2>3. /\ WindowTypes'
        /\ Len(windows') = n - 1
        /\ \A i \in 1 .. Len(windows') :
              windows'[i] = windows[IF i <= focusedIdx THEN i ELSE i + 1]
        /\ \/ focusedIdx' = focusedIdx - 1 /\ misjudged' = misjudged
           \/ focusedIdx' = focusedIdx /\ misjudged' = TRUE
    <3>1. focusedIdx \in 0 .. Len(windows) - 1 /\ WindowTypes
      BY <2>1, <2>2
    <3> QED BY <1>4, <3>1, DetachWindow, Zenon
  <2>4. Bottom'
    BY <2>1, <2>2, <2>3 DEF Bottom
  <2>5. FocusIsThere'
    <3>1. CASE misjudged' = TRUE
      BY <3>1 DEF FocusIsThere
    <3>2. CASE focusedIdx' = focusedIdx - 1 /\ misjudged' = misjudged
      <4>1. SUFFICES ASSUME ~misjudged
                     PROVE  /\ focusedIdx' < Len(windows')
                            /\ windows'[Len(windows')] = "pop-up" => focusedIdx' = Len(windows') - 1
        BY <3>2, Zenon DEF FocusIsThere, Last
      <4>2. windows[n] = "pop-up" => focusedIdx = n - 1
        BY <1>4, <4>1, Zenon DEF FocusIsThere, Last
      <4>3. focusedIdx' < Len(windows')
        BY <2>1, <2>2, <2>3, <3>2
      <4>4. ASSUME windows'[Len(windows')] = "pop-up" PROVE focusedIdx' = Len(windows') - 1
        <5>1. n - 1 \in 1 .. Len(windows')
          BY <2>1, <2>2, <2>3
        <5>2. CASE n - 1 <= focusedIdx
          BY <2>1, <2>2, <2>3, <3>2, <5>2
        <5>3. CASE ~ (n - 1 <= focusedIdx)
          <6>1. windows'[n - 1] = windows[(n - 1) + 1]
            BY <2>3, <5>1, <5>3
          <6> QED BY <2>1, <2>2, <2>3, <3>2, <4>2, <4>4, <5>3, <6>1
        <5> QED BY <5>2, <5>3
      <4> QED BY <4>3, <4>4
    <3> QED BY <2>3, <3>1, <3>2
  <2> QED BY <1>2, <2>3, <2>4, <2>5
<1> QED BY <1>3, <1>4

\* A key goes to the window with the focus, if there is one: a pop-up keeps the
\* focus, any other window may open one or hand the focus on.
LEMMA FocusKey ==
    ASSUME GuiTypes, FocusInv, ~Clash, NEW key \in Keys, OnKey(key)
    PROVE  FocusInv'
<1> USE DEF FocusInv
<1> DEFINE n == Len(windows)
<1> DEFINE window == windows[focusedIdx + 1]
<1>1. windows # <<>> /\ inGui["key"] = "out"
  BY DEF OnKey
<1>2. n \in Nat \ {0} /\ focusedIdx \in Nat
  BY <1>1, EmptySeq DEF WindowTypes, Bottom
<1>3. CASE focusedIdx >= n
  <2>1. inGui' = [inGui EXCEPT !["key"] = "lost"] /\ UNCHANGED windowVars
    BY <1>3 DEF OnKey, Enters
  <2> QED BY <1>1, <2>1, FocusUntouched DEF GuiTypes, GuiThreads, windowVars
<1>4. CASE focusedIdx < n /\ window = "pop-up"
  <2>0. ~ (window \in Openers /\ key = "enter")
    BY <1>4, WindowsAssumption
  <2>1. inGui' = [inGui EXCEPT !["key"] = IF key = "escape" THEN "closing" ELSE "update"]
        /\ UNCHANGED windowVars
    BY <1>2, <1>4, <2>0 DEF OnKey, Enters
  <2>2. WindowTypes' /\ Bottom' /\ FocusIsThere'
    BY <2>1 DEF windowVars, WindowTypes, Bottom, FocusIsThere, Last
  <2>3. Closing'
    BY <1>1, <1>4, <2>1 DEF windowVars, Closing
  <2> QED BY <2>2, <2>3
<1>5. CASE focusedIdx < n /\ window # "pop-up" /\ window \in Openers /\ key = "enter"
  <2>1. Attach("key", "pop-up")
    BY <1>2, <1>5 DEF OnKey
  <2>2. "key" \in {"main", "key"} 
    OBVIOUS
  <2>3. "pop-up" \in Kinds
    BY DEF Kinds
  <2> QED BY <1>1, <2>1, <2>2, <2>3, FocusAttach, Zenon
<1>6. CASE focusedIdx < n /\ window # "pop-up" /\ ~ (window \in Openers /\ key = "enter")
  <2>1. /\ focusedIdx' = IF key = "tab" THEN (focusedIdx + 1) % n ELSE focusedIdx
        /\ inGui' = [inGui EXCEPT !["key"] = "update"]
        /\ UNCHANGED <<windows, misjudged>>
    BY <1>2, <1>6 DEF OnKey, Enters
  <2>2. focusedIdx' \in 0 .. n - 1
    BY <1>2, <1>6, <2>1
  <2>3. WindowTypes' /\ Bottom'
    BY <1>1, <2>1, <2>2 DEF WindowTypes, Bottom
  <2>4. Closing'
    BY <2>1 DEF Closing, GuiTypes, GuiThreads
  <2>5. ~misjudged => windows[n] # "pop-up"
    <3>1. SUFFICES ASSUME ~misjudged, windows[n] = "pop-up" PROVE FALSE
      OBVIOUS
    <3>2. focusedIdx = n - 1
      BY <1>1, <3>1, Zenon DEF FocusIsThere, Last
    <3> QED BY <1>2, <1>6, <3>1, <3>2
  <2>6. FocusIsThere'
    <3>1. ~misjudged' => windows'[Len(windows')] # "pop-up"
      BY <2>1, <2>5, Zenon
    <3>2. focusedIdx' < Len(windows')
      BY <1>2, <2>1, <2>2
    <3> QED BY <3>1, <3>2, Zenon DEF FocusIsThere, Last
  <2> QED BY <2>3, <2>4, <2>6
<1> QED BY <1>2, <1>3, <1>4, <1>5, <1>6 DEF WindowTypes

\* What setModel() makes next is no pop-up.
LEMMA NextWindow ==
    ASSUME NEW n \in Nat, n < Len(BaseWindows)
    PROVE  BaseWindows[n + 1] \in Kinds \ {"pop-up"}
<1>1. n + 1 \in 1 .. Len(BaseWindows) /\ DOMAIN BaseWindows = 1 .. Len(BaseWindows)
  BY WindowsAssumption
<1>2. BaseWindows[n + 1] \in STRING \ {"pop-up"}
  BY <1>1, WindowsAssumption
<1> QED BY <1>1, <1>2 DEF Kinds

\* Every step of the program keeps the focus where it belongs.
LEMMA FocusStep ==
    ASSUME TypeOK, FocusInv, Next
    PROVE  FocusInv'
<1>1. GuiTypes
  BY DEF TypeOK, ControlTypes
<1>2. ASSUME ~Clash, UNCHANGED guiVars PROVE FocusInv'
  BY <1>2, FocusUntouched DEF guiVars, windowVars
<1>3. ASSUME ~Clash, UNCHANGED windowVars, NEW t \in GuiThreads, NEW place \in GuiPlaces,
             Enters(t, place), place # "closing"
      PROVE  FocusInv'
  BY <1>1, <1>3, FocusUntouched DEF windowVars, Enters, GuiTypes, GuiThreads
<1>4. \A t : Free(t) => ~Clash
  BY Zenon DEF Free, Live, Undefined
<1>5. \A t, place : At(t, place) => ~Clash
  BY Zenon DEF At, Live, Undefined
<1>6. ASSUME NEW object \in Objects, Make(object) PROVE FocusInv'
  BY <1>2, <1>4, <1>6, Zenon DEF Make
<1>7. ASSUME SetGUI PROVE FocusInv'
  <2> DEFINE made == Cardinality({i \in DOMAIN windows : windows[i] # "pop-up"})
  <2>1. ~Clash
    BY <1>4, <1>7, Zenon DEF SetGUI
  <2>2. \/ Enters("main", "update") /\ UNCHANGED <<windowVars, mutex>>
        \/ made < Len(BaseWindows) /\ Attach("main", BaseWindows[made + 1])
        \/ Enters("main", "resize") /\ UNCHANGED <<windowVars, mutex>>
    BY <1>7, Zenon DEF SetGUI
  <2>3. CASE made < Len(BaseWindows) /\ Attach("main", BaseWindows[made + 1])
    <3>1. made \in Nat
      BY MadeIsNat DEF FocusInv
    <3> HIDE DEF made
    <3>2. BaseWindows[made + 1] \in Kinds \ {"pop-up"}
      BY <2>3, <3>1, NextWindow, Zenon
    <3> QED BY <1>1, <2>3, <3>2, FocusAttach
  <2> HIDE DEF made
  <2>4. "main" \in GuiThreads /\ {"update", "resize"} \subseteq GuiPlaces
    BY DEF GuiThreads, GuiPlaces
  <2> QED BY <1>3, <2>1, <2>2, <2>3, <2>4
<1>8. ASSUME Run \/ Receive \/ Received \/ Return \/ Leave PROVE FocusInv'
  BY <1>2, <1>4, <1>8, Zenon DEF Run, Receive, Received, Return, Leave
<1>9. ASSUME NEW w \in Workers, Wake(w) PROVE FocusInv'
  <2>1. ~Clash
    BY <1>4, <1>9, Zenon DEF Wake
  <2>2. UNCHANGED windowVars /\ (Enters("update", "update") \/ UNCHANGED inGui)
    BY <1>9, Zenon DEF Wake
  <2>3. CASE UNCHANGED inGui
    BY <2>1, <2>2, <2>3, FocusUntouched DEF windowVars
  <2>4. CASE Enters("update", "update")
    BY <1>3, <2>1, <2>2, <2>4 DEF GuiThreads, GuiPlaces
  <2> QED BY <2>2, <2>3, <2>4
<1>10. ASSUME Exported PROVE FocusInv'
  BY <1>2, <1>4, <1>10, Zenon DEF Exported
<1>11. ASSUME NEW key \in Keys, Press(key) PROVE FocusInv'
  <2>1. ~Clash /\ (UNCHANGED guiVars \/ OnKey(key))
    BY <1>4, <1>11, Zenon DEF Press
  <2> QED BY <1>1, <1>2, <2>1, FocusKey
<1>12. ASSUME NEW t \in GuiThreads, GuiStep(t) PROVE FocusInv'
  <2>1. ~Clash
    BY <1>4, <1>12, Zenon DEF GuiStep
  <2>2. CASE Detach(t)
    BY <1>1, <1>12, <2>1, <2>2, FocusDetach
  <2>3. CASE Attached(t)
    BY <1>3, <2>1, <2>3 DEF Attached, GuiPlaces
  <2>4. CASE Update(t)
    <3>1. UNCHANGED <<windows, focusedIdx, misjudged>> /\ (Enters(t, "resize") \/ Enters(t, "refresh"))
      BY <2>4, Zenon DEF Update
    <3>2. inGui'["key"] = "closing" => inGui["key"] = "closing"
      BY <1>1, <3>1 DEF Enters, GuiTypes, GuiThreads
    <3> QED BY <2>1, <3>1, <3>2, FocusUntouched
  <2>5. CASE OnResize(t)
    BY <1>3, <2>1, <2>5 DEF OnResize, GuiPlaces
  <2> QED BY <1>12, <2>2, <2>3, <2>4, <2>5, Zenon DEF GuiStep
<1>13. ASSUME NEW t \in GuiThreads, LeaveGui(t) PROVE FocusInv'
  <2>1. ~Clash /\ Enters(t, "out") /\ UNCHANGED windowVars
    BY <1>4, <1>13, Zenon DEF LeaveGui, Release
  <2> QED BY <1>3, <2>1 DEF GuiPlaces
<1>14. ASSUME NEW t \in Threads, Cleanup(t) PROVE FocusInv'
  <2>1. CASE DeleteGui(t)
    <3>1. ~Clash /\ windows' = <<>> /\ focusedIdx' = 0 /\ misjudged' = misjudged
      BY <1>5, <2>1, Zenon DEF DeleteGui
    <3>2. WindowTypes'
      BY <3>1, EmptySeq DEF WindowTypes, FocusInv
    <3> QED BY <3>1, <3>2 DEF FocusInv, Bottom, Closing, FocusIsThere
  <2>2. CASE ~DeleteGui(t)
    <3>1. ~Clash /\ UNCHANGED guiVars
      BY <1>5, <1>14, <2>2, Zenon DEF Cleanup, StopKeys, StopUpdates, StopExporting, DeleteAnalyzer,
         DeleteSource, DeleteExporters, End
    <3> QED BY <1>2, <3>1
  <2> QED BY <2>1, <2>2
<1>15. ASSUME CtrlC PROVE FocusInv'
  <2>1. ~Clash /\ UNCHANGED <<windowVars, inGui>>
    BY <1>15, Zenon DEF CtrlC, Interrupt, Live, Undefined
  <2> QED BY <2>1, FocusUntouched DEF windowVars
<1>16. ASSUME PressF2 PROVE FocusInv'
  <2>1. ~Clash /\ UNCHANGED windowVars /\ Enters("key", "quit")
    BY <1>16, Zenon DEF PressF2, Interrupt, Live, Undefined
  <2> QED BY <1>3, <2>1 DEF GuiThreads, GuiPlaces
<1>17. ASSUME Resize PROVE FocusInv'
  <2>1. ~Clash /\ UNCHANGED windowVars /\ Enters("handler", "resize")
    BY <1>17, Zenon DEF Resize, Live, Undefined
  <2> QED BY <1>3, <2>1 DEF GuiThreads, GuiPlaces
<1>18. \A t \in Threads : Step(t) => FocusInv'
  <2> SUFFICES ASSUME NEW t \in Threads, Step(t) PROVE FocusInv'
    OBVIOUS
  <2>1. "handler" \in GuiThreads /\ t \in {"main", "exporter", "update", "key"} /\ {"exporter", "update"} \subseteq Workers
    BY DEF GuiThreads, Threads, Workers
  <2>2. MainStep => FocusInv'
    BY <1>6, <1>7, <1>8, Zenon DEF MainStep
  <2> QED BY <1>9, <1>10, <1>12, <1>13, <1>14, <2>1, <2>2, Zenon DEF Step
<1> QED BY <1>8, <1>11, <1>15, <1>16, <1>17, <1>18, Zenon DEF Next

-----------------------------------------------------------------------------
(* Every step keeps the types. *)

LEMMA ControlTypesStep ==
    ASSUME TypeOK, WindowTypes', Next
    PROVE  ControlTypes'
<1> USE DEF ControlTypes, TypeOK
<1>1. ASSUME NEW t \in GuiThreads, NEW place \in GuiPlaces, place = "closing" => t = "key",
             Enters(t, place)
      PROVE  GuiTypes'
  BY <1>1 DEF GuiTypes, Enters
<1>2. ASSUME UNCHANGED inGui PROVE GuiTypes'
  BY <1>2 DEF GuiTypes
<1>3. ASSUME NEW objects, Uses(objects) PROVE dangling' \in BOOLEAN
  BY <1>3, Zenon DEF Uses
<1>4. ASSUME NEW object \in Objects, Make(object) PROVE ControlTypes'
  <2>1. GuiTypes' /\ UNCHANGED inGui
    BY <1>2, <1>4 DEF Make, guiVars
  <2>2. dangling' \in BOOLEAN
    BY <1>3, <1>4 DEF Make
  <2>3. main \in Objects /\ main' \in MainPlaces
    BY <1>4 DEF Make, After, Objects, MainPlaces
  <2> QED BY <1>4, <2>1, <2>2, <2>3 DEF Make, setup, signalVars, Workers, Objects
<1>5. ASSUME SetGUI PROVE ControlTypes'
  <2>1. /\ Enters("main", "update") \/ Enters("main", "resize") \/ Enters("main", "adding")
        /\ dangling' \in BOOLEAN
    BY <1>3, <1>5 DEF SetGUI, Attach
  <2>2. GuiTypes'
    BY <1>1, <2>1 DEF GuiThreads, GuiPlaces
  <2> QED BY <1>5, <2>1, <2>2 DEF SetGUI, setup, signalVars
<1>6. ASSUME Run PROVE ControlTypes'
  <2>1. GuiTypes' /\ UNCHANGED inGui
    BY <1>2, <1>6 DEF Run, guiVars
  <2>2. dangling' \in BOOLEAN
    BY <1>3, <1>6 DEF Run
  <2> QED BY <1>6, <2>1, <2>2 DEF Run, setup, signalVars, MainPlaces, Workers
<1>7. ASSUME Receive \/ Received \/ Return \/ Leave PROVE ControlTypes'
  <2>1. GuiTypes' /\ UNCHANGED <<inGui, source, gui, worker, enabled, alive, sniffing, running,
                                 resizes, above>>
    BY <1>2, <1>7 DEF Receive, Received, Return, Leave, guiVars, setup, signalVars
  <2>2. dangling' \in BOOLEAN
    BY <1>3, <1>7 DEF Receive, Received, Return, Leave
  <2>3. open' \in Nat
    BY <1>7, ShutdownAssumption DEF Receive, Received, Return, Leave
  <2>4. cleanup' \in [Threads -> CleanupPlaces]
    BY <1>7 DEF Receive, Received, Return, Leave, Threads, Workers, CleanupPlaces
  <2>5. main \in {"reading", "called", "waiting"} /\ main' \in MainPlaces
    BY <1>7 DEF Receive, Received, Return, Leave, MainPlaces
  <2> QED BY <2>1, <2>2, <2>3, <2>4, <2>5
<1>8. ASSUME NEW w \in Workers, Wake(w) \/ Exported PROVE ControlTypes'
  <2>1. GuiTypes' /\ inGui'["main"] = inGui["main"]
    <3>1. Enters("update", "update") \/ UNCHANGED inGui
      BY <1>8 DEF Wake, Exported, guiVars
    <3>2. CASE UNCHANGED inGui
      BY <1>2, <3>2
    <3>3. CASE Enters("update", "update")
      <4>1. GuiTypes'
        BY <1>1, <3>3 DEF GuiThreads, GuiPlaces
      <4> QED BY <3>3, <4>1 DEF Enters, GuiTypes, GuiThreads
    <3> QED BY <3>1, <3>2, <3>3
  <2>2. dangling' \in BOOLEAN
    BY <1>3, <1>8 DEF Wake, Exported
  <2> QED BY <1>8, <2>1, <2>2, ZenonT(60) DEF Wake, Exported, setup, signalVars, Workers
<1>9. ASSUME NEW key \in Keys, Press(key) PROVE ControlTypes'
  <2>1. OnKey(key) => \E place \in GuiPlaces : Enters("key", place)
    BY DEF OnKey, Attach, GuiPlaces
  <2>2. GuiTypes' /\ inGui'["main"] = inGui["main"]
    <3>1. GuiTypes'
      BY <1>1, <1>2, <1>9, <2>1 DEF Press, guiVars, GuiThreads
    <3> QED BY <1>9, <2>1, <3>1 DEF Press, guiVars, Enters, GuiTypes, GuiThreads
  <2>3. dangling' \in BOOLEAN
    BY <1>3, <1>9 DEF Press
  <2> QED BY <1>9, <2>2, <2>3 DEF Press, AfterKey, setup, signalVars, Workers
<1>10. ASSUME NEW t \in GuiThreads, GuiStep(t) PROVE ControlTypes'
  <2>1. inGui[t] # "out" /\ \E place \in GuiPlaces \ {"closing"} : Enters(t, place)
    BY <1>10 DEF GuiStep, Attached, Detach, Update, OnResize, GuiPlaces
  <2>2. GuiTypes'
    BY <1>1, <2>1
  <2>3. dangling' \in BOOLEAN
    BY <1>3, <1>10 DEF GuiStep
  <2>4. inGui'["main"] # "out" => main' \in {"model", "show", "exited"}
    BY <1>10, <2>1 DEF GuiStep, Enters, GuiTypes, GuiThreads
  <2> QED BY <1>10, <2>2, <2>3, <2>4 DEF GuiStep, setup, signalVars
<1>11. ASSUME NEW t \in GuiThreads, LeaveGui(t) PROVE ControlTypes'
  <2>1. inGui[t] # "out" /\ Enters(t, "out")
    BY <1>11 DEF LeaveGui, Release, Drawing
  <2>2. GuiTypes'
    BY <1>1, <2>1 DEF GuiPlaces
  <2>3. dangling' \in BOOLEAN
    BY <1>3, <1>11 DEF LeaveGui
  <2>4. t = "main" => main \in {"model", "show"}
    BY <1>11, <2>1 DEF LeaveGui, Free, Live
  <2>5. main' \in MainPlaces /\ (inGui'["main"] # "out" => main' = main /\ inGui["main"] # "out")
    BY <1>11, <2>1, <2>4 DEF LeaveGui, After, MainPlaces, Enters, GuiTypes, GuiThreads
  <2>6. above' \in BOOLEAN
    BY <1>11, Zenon DEF LeaveGui
  <2>7. worker' \in [Workers -> {"off", "idle", "busy", "ended"}]
    BY <1>11 DEF LeaveGui, AfterKey, Workers
  <2> QED BY <1>11, <2>2, <2>3, <2>5, <2>6, <2>7 DEF LeaveGui, setup
<1>12. ASSUME NEW t \in Threads, Cleanup(t) PROVE ControlTypes'
  <2>1. GuiTypes' /\ UNCHANGED <<inGui, source, gui, worker, resizes, above>>
    BY <1>2, <1>12 DEF Cleanup, StopKeys, StopUpdates, DeleteGui, StopExporting, DeleteAnalyzer,
       DeleteSource, DeleteExporters, End, guiVars, setup, signalVars
  <2>2. dangling' \in BOOLEAN
    BY <1>3, <1>12 DEF Cleanup, StopKeys, StopUpdates, DeleteGui, StopExporting, DeleteAnalyzer,
       DeleteSource, DeleteExporters, End
  <2>3. cleanup' \in [Threads -> CleanupPlaces]
    BY <1>12 DEF Cleanup, StopKeys, StopUpdates, DeleteGui, StopExporting, DeleteAnalyzer,
       DeleteSource, DeleteExporters, End, Goes, CleanupPlaces
  <2>4. main' \in {main, "exited"}
    BY <1>12 DEF Cleanup, StopKeys, StopUpdates, DeleteGui, StopExporting, DeleteAnalyzer,
       DeleteSource, DeleteExporters, End
  <2>5. enabled' \subseteq enabled
    BY <1>12 DEF Cleanup, StopKeys, StopUpdates, DeleteGui, StopExporting, DeleteAnalyzer,
       DeleteSource, DeleteExporters, End
  <2>6. alive' \subseteq alive
    BY <1>12 DEF Cleanup, StopKeys, StopUpdates, DeleteGui, StopExporting, DeleteAnalyzer,
       DeleteSource, DeleteExporters, End
  <2>7. open' \in {open, 0}
    BY <1>12 DEF Cleanup, StopKeys, StopUpdates, DeleteGui, StopExporting, DeleteAnalyzer,
       DeleteSource, DeleteExporters, End
  <2>8. sniffing' \in BOOLEAN /\ running' \in BOOLEAN
    BY <1>12, Zenon DEF Cleanup, StopKeys, StopUpdates, DeleteGui, StopExporting, DeleteAnalyzer,
       DeleteSource, DeleteExporters, End
  <2> QED BY <2>1, <2>2, <2>3, <2>4, <2>5, <2>6, <2>7, <2>8 DEF MainPlaces
<1>13. ASSUME NEW t \in Threads, NEW place, Interrupt(t, place), UNCHANGED <<worker, inGui>>
       PROVE  ControlTypes'
  <2>1. GuiTypes'
    BY <1>2, <1>13
  <2> QED BY <1>13, <2>1 DEF Interrupt, Goes, setup, CleanupPlaces
<1>14. ASSUME CtrlC PROVE ControlTypes'
  <2>1. UNCHANGED <<worker, inGui>> /\ \E t \in Threads : \E place : Interrupt(t, place)
    BY <1>14, Zenon DEF CtrlC, Threads
  <2> QED BY <1>13, <2>1
<1>15. ASSUME PressF2 PROVE ControlTypes'
  <2>1. GuiTypes' /\ inGui'["main"] = inGui["main"]
    <3>1. GuiTypes'
      BY <1>1, <1>15 DEF PressF2, GuiThreads, GuiPlaces
    <3> QED BY <1>15, <3>1 DEF PressF2, Enters, GuiTypes, GuiThreads
  <2> QED BY <1>15, <2>1 DEF PressF2, Interrupt, Goes, setup, CleanupPlaces, Threads, Workers
<1>16. ASSUME Resize PROVE ControlTypes'
  <2>1. GuiTypes' /\ inGui'["main"] = inGui["main"]
    <3>1. GuiTypes'
      BY <1>1, <1>16 DEF Resize, GuiThreads, GuiPlaces
    <3> QED BY <1>16, <3>1 DEF Resize, Enters, GuiTypes, GuiThreads
  <2>2. dangling' \in BOOLEAN
    BY <1>3, <1>16 DEF Resize
  <2>3. above' \in BOOLEAN
    BY <1>16 DEF Resize
  <2> QED BY <1>16, <2>1, <2>2, <2>3 DEF Resize, setup
<1>17. ASSUME NEW t \in Threads, Step(t) PROVE ControlTypes'
  <2>1. "handler" \in GuiThreads /\ t \in {"main", "exporter", "update", "key"} /\ {"exporter", "update"} \subseteq Workers
    BY DEF GuiThreads, Threads, Workers
  <2>2. MainStep => ControlTypes'
    BY <1>4, <1>5, <1>6, <1>7, Zenon DEF MainStep
  <2> QED BY <1>8, <1>10, <1>11, <1>12, <1>17, <2>1, <2>2, Zenon DEF Step
<1> QED BY <1>7, <1>9, <1>14, <1>15, <1>16, <1>17, Zenon DEF Next

-----------------------------------------------------------------------------
(* Theorems about the windows *)

\* At the start there is nothing.
LEMMA AtStart == Init => TypeOK /\ FocusInv
<1> SUFFICES ASSUME Init PROVE TypeOK /\ FocusInv
  OBVIOUS
<1>1. WindowTypes /\ windows = <<>>
  <2>1. windows = <<>> /\ focusedIdx = 0 /\ misjudged = FALSE
    BY Zenon DEF Init, GuiInit
  <2>2. misjudged \in BOOLEAN
    BY <2>1, Zenon
  <2>3. windows \in Seq(Kinds) /\ focusedIdx \in Int
    BY <2>1, EmptySeq
  <2> QED BY <2>1, <2>2, <2>3, Zenon DEF WindowTypes
<1>2. GuiTypes /\ \A t \in GuiThreads : inGui[t] = "out"
  BY DEF Init, GuiInit, GuiTypes, GuiPlaces
<1>3. ControlTypes
  BY <1>2 DEF Init, ControlTypes, GuiThreads, MainPlaces, CleanupPlaces, Workers, Threads
<1>4. Bottom /\ Closing /\ FocusIsThere
  BY <1>1, <1>2 DEF Bottom, Closing, FocusIsThere, GuiThreads
<1> QED BY <1>1, <1>3, <1>4 DEF TypeOK, FocusInv

\* What happens elsewhere leaves types and focus alone.
LEMMA WindowsStep == TypeOK /\ FocusInv /\ [Next]_vars => TypeOK' /\ FocusInv'
<1> SUFFICES ASSUME TypeOK, FocusInv, [Next]_vars PROVE TypeOK' /\ FocusInv'
  OBVIOUS
<1>1. CASE Next
  <2>1. FocusInv'
    BY <1>1, FocusStep
  <2>2. WindowTypes'
    BY <2>1 DEF FocusInv
  <2> QED BY <1>1, <2>1, <2>2, ControlTypesStep DEF TypeOK
<1>2. CASE UNCHANGED vars
  <2> USE <1>2 DEF vars, setup, signalVars, guiVars, windowVars
  <2>1. TypeOK'
    BY DEF TypeOK, ControlTypes, WindowTypes, GuiTypes
  <2>2. Closing'
    BY Zenon DEF FocusInv, Closing, Clash, Drawing, Changing
  <2>3. FocusIsThere' /\ Bottom'
    BY DEF FocusInv, FocusIsThere, Bottom, Last
  <2> QED BY <2>1, <2>2, <2>3 DEF FocusInv, TypeOK
<1> QED BY <1>1, <1>2

\* Every variable keeps its type: counters are naturals, each thread is somewhere
\* in its loop, in the cleanup and in the gui, and the vector holds windows.
THEOREM Typed == Spec => []TypeOK
<1>1. Spec => [](TypeOK /\ FocusInv)
  BY AtStart, WindowsStep, PTL DEF Spec
<1> QED BY <1>1, PTL

\* Keys go to a window that exists, and to a pop-up that is on top, whatever main
\* thread and thread of the keys open, close and delete in whatever order, and
\* wherever signals come: as long as detach() computes the right index, the focus
\* that attach(), detach() and onKey() move without a lock is right.
THEOREM FocusIsFound == Spec => []FocusIsThere
<1>1. Spec => [](TypeOK /\ FocusInv)
  BY AtStart, WindowsStep, PTL DEF Spec
<1>2. FocusInv => FocusIsThere
  BY DEF FocusInv
<1> QED BY <1>1, <1>2, PTL

-----------------------------------------------------------------------------
(* The clean exit: what there is, at every point of start and end *)

\* What main() has made when it comes to a place
Made(place) ==
    CASE place = "analyzer" -> {}
      [] place = "expThread" -> {"analyzer"}
      [] place = "httpSrc" -> {"analyzer", "expThread"}
      [] place = "gui" -> {"analyzer", "expThread", "httpSrc"}
      [] place \in {"model", "show", "exporters"} -> {"analyzer", "expThread", "httpSrc", "gui"}
      [] OTHER -> Objects

\* What globals_cleanup() has left there: it is called a second time by a second
\* signal or by main(), and then finds nothing. While it waits for a thread of
\* the gui or of the export there is what these use.
Left(place) ==
    CASE place = "gui" -> {Objects, {}}
      [] place \in {"join key", "join update"} -> {Objects}
      [] place = "expThread" -> {Objects \ {"gui"}, {}}
      [] place = "join exporter" -> {Objects \ {"gui"}}
      [] place = "httpSrc" -> {{"httpSrc", "exporters", "expThread"}, {}}
      [] place = "exporters" -> {{"exporters", "expThread"}, {}}
      [] place = "thread" -> {{"expThread"}, {}}
      [] OTHER -> {{}}

InSource == {"reading", "called", "waiting"}
IsDone(w) == worker[w] \in {"off", "ended"}

\* Before a signal came
Started ==
    /\ main \notin {"leaving", "exited"} /\ cleanup["main"] = "none"
    /\ alive = Made(main) /\ running
    /\ sniffing <=> main \in InSource
    /\ main = "waiting" => source = "folder"
    /\ main \notin {"reading", "called"} => open = 0
    /\ worker["exporter"] = "off" <=> main \notin InSource
    /\ "gui" \notin alive => IsDone("key") /\ IsDone("update")

\* Since the first one came: only the main thread cleans up, every thread has
\* ended before what it uses is gone, and the sniffer runs as long as it exists.
Stopped ==
    /\ main \in {"reading", "waiting", "leaving", "exited"}
    /\ main = "reading" => source = "sniffer"
    /\ alive \in Left(cleanup["main"])
    /\ cleanup["main"] = "none" => ~running
    /\ main = "leaving" => cleanup["main"] # "none"
    /\ main = "exited" => alive = {}
    /\ sniffing <=> "httpSrc" \in alive
    /\ source = "folder" \/ "httpSrc" \notin alive => open = 0
    /\ "analyzer" \in alive => worker["exporter"] # "off"
    /\ cleanup["main"] = "join update" => IsDone("key")
    /\ "gui" \notin alive => IsDone("key") /\ IsDone("update")
    /\ "analyzer" \notin alive => IsDone("exporter")

\* Who is in the gui is there with reason.
InTheGui ==
    /\ inGui["key"] # "out" => worker["key"] = "busy"
    /\ inGui["update"] # "out" => worker["update"] = "busy"
    /\ inGui["main"] # "out" => main \in {"model", "show"}
    /\ inGui["handler"] # "out" => resizes > 0
    /\ inGui["handler"] # "out" /\ hits # {} => cleanup["main"] = "none" \/ above

Good ==
    /\ \A w \in Workers : cleanup[w] = "none"
    /\ hits = {} => Started
    /\ hits # {} => Stopped
    /\ InTheGui
    /\ dangling => resizes > 0 /\ "gui" \notin alive

CleanInv == hits \subseteq Harmless => Good

\* The gui is the first to go.
LEMMA AllOrNoGui ==
    ASSUME NEW place, NEW objects \in Left(place), "gui" \in objects
    PROVE  objects = Objects /\ place \in {"gui", "join key", "join update"}
<1>1. CASE place = "gui"
  BY <1>1 DEF Left
<1>2. CASE place \in {"join key", "join update"}
  BY <1>2 DEF Left
<1>3. CASE place \in {"expThread", "join exporter"}
  BY <1>3 DEF Left, Objects
<1>4. CASE place = "httpSrc"
  BY <1>4 DEF Left
<1>6. CASE place = "exporters"
  BY <1>6 DEF Left
<1>7. CASE place = "thread"
  BY <1>7 DEF Left
<1>5. CASE place \notin {"gui", "join key", "join update", "expThread", "join exporter", "httpSrc",
                         "exporters", "thread"}
  BY <1>5 DEF Left
<1> QED BY <1>1, <1>2, <1>3, <1>4, <1>5, <1>6, <1>7

\* The export and its thread outlive the analyzer.
LEMMA WithAnalyzer ==
    ASSUME NEW place, NEW objects \in Left(place), "analyzer" \in objects
    PROVE  {"expThread", "exporters"} \subseteq objects
<1>1. CASE place \in {"gui", "join key", "join update", "expThread", "join exporter"}
  BY <1>1 DEF Left, Objects
<1>2. CASE place = "httpSrc"
  BY <1>2 DEF Left
<1>3. CASE place = "exporters"
  BY <1>3 DEF Left
<1>4. CASE place = "thread"
  BY <1>4 DEF Left
<1>5. CASE place \notin {"gui", "join key", "join update", "expThread", "join exporter", "httpSrc",
                         "exporters", "thread"}
  BY <1>5 DEF Left
<1> QED BY <1>1, <1>2, <1>3, <1>4, <1>5

\* While nothing dangles, a step that uses what there is lets nothing dangle.
LEMMA UsesWhatIsThere ==
    ASSUME NEW objects, Uses(objects), objects \subseteq alive, Live
    PROVE  ~dangling'
BY Zenon DEF Uses, Live, Undefined

\* An object is made: all it needs is there.
LEMMA GoodMake ==
    ASSUME TypeOK, Good, NEW object \in Objects, Make(object)
    PROVE  Good'
<1> USE DEF TypeOK, ControlTypes
<1>1. hits = {} /\ Started /\ UNCHANGED hits /\ main = object
  BY DEF Good, Stopped, Make, Objects, signalVars
<1>2. ~dangling'
  <2> DEFINE needs == IF object \in {"httpSrc", "gui", "exporters"} THEN {"analyzer"} ELSE {}
  <2>1. needs \subseteq alive
    BY <1>1 DEF Started, Made
  <2> QED BY <2>1, UsesWhatIsThere DEF Make, Free
<1>3. alive' = Made(main') /\ main' \notin InSource \cup {"leaving", "exited"}
  BY <1>1 DEF Make, Started, Made, After, Objects, InSource
<1>4. Started'
  BY <1>1, <1>3 DEF Make, Started, Made, IsDone, InSource, Objects, Workers
<1>5. InTheGui'
  <2>1. UNCHANGED <<inGui, resizes, hits, cleanup, above>>
    BY DEF Make, guiVars, signalVars
  <2>2. object = "gui" => inGui["key"] = "out" /\ inGui["update"] = "out"
    BY <1>1 DEF Started, Made, IsDone, Good, InTheGui
  <2>3. inGui["main"] = "out"
    BY <1>1 DEF Good, InTheGui, Objects
  <2>4. object # "gui" => UNCHANGED worker
    BY DEF Make
  <2> QED BY <2>1, <2>2, <2>3, <2>4 DEF Good, InTheGui
<1> QED BY <1>1, <1>2, <1>4, <1>5 DEF Good, Make, Workers

\* Windows are made and shown: the gui and the analyzer are there.
LEMMA GoodSetGUI ==
    ASSUME TypeOK, Good, SetGUI
    PROVE  Good'
<1> USE DEF TypeOK, ControlTypes
<1>1. /\ hits = {} /\ Started /\ main \in {"model", "show"}
      /\ UNCHANGED <<hits, main, worker, cleanup, alive, sniffing, running, open, resizes, above, source>>
  BY DEF Good, Stopped, SetGUI, signalVars, setup
<1>2. ~dangling'
  <2>1. Needs("main") \subseteq alive
    BY <1>1 DEF Started, Made, Needs
  <2> QED BY <2>1, UsesWhatIsThere DEF SetGUI, Free
<1>3. Enters("main", "update") \/ Enters("main", "resize") \/ Enters("main", "adding")
  BY DEF SetGUI, Attach
<1>4. InTheGui'
  BY <1>1, <1>3 DEF Good, InTheGui, Enters, GuiTypes, GuiThreads
<1> QED BY <1>1, <1>2, <1>4 DEF Good, Started, IsDone

\* A step of a thread in the gui, which is there: a thread that is in the gui has
\* not ended, and the main thread waits for the handler above it.
LEMMA GuiIsThere ==
    ASSUME TypeOK, Good, NEW t \in GuiThreads, inGui[t] # "out", Free(t)
    PROVE  t # "handler" => Needs(t) \subseteq alive
<1> USE DEF TypeOK, ControlTypes
<1>1. t = "main" => hits = {}
  BY DEF Good, InTheGui, Stopped
<1>2. CASE hits = {}
  <2>1. t # "handler" => "gui" \in alive
    BY <1>2 DEF Good, InTheGui, Started, Made, IsDone, GuiThreads
  <2> QED BY <1>2, <2>1 DEF Good, Started, Made, Needs, GuiThreads, Objects
<1>3. CASE hits # {}
  <2>1. t # "handler" => "gui" \in alive
    BY <1>1, <1>3 DEF Good, InTheGui, Stopped, IsDone, GuiThreads
  <2>2. "gui" \in alive => alive = Objects
    BY <1>3, AllOrNoGui DEF Good, Stopped
  <2> QED BY <2>1, <2>2 DEF Needs, GuiThreads, Objects
<1> QED BY <1>2, <1>3

\* A thread goes on in the gui.
LEMMA GoodGuiStep ==
    ASSUME TypeOK, Good, NEW t \in GuiThreads, GuiStep(t)
    PROVE  Good'
<1> USE DEF TypeOK, ControlTypes
<1>1. UNCHANGED <<hits, main, worker, cleanup, alive, sniffing, running, open, resizes, above, source>>
  BY DEF GuiStep, signalVars, setup
<1>2. inGui[t] # "out" /\ \E place : Enters(t, place)
  BY DEF GuiStep, Attached, Detach, Update, OnResize
<1>3. dangling' => resizes > 0 /\ "gui" \notin alive
  <2>1. CASE t = "handler"
    <3>1. dangling' => "gui" \notin alive
      BY <2>1, Zenon DEF GuiStep, Uses, Needs, Free, Live, Undefined
    <3> QED BY <1>2, <2>1, <3>1 DEF Good, InTheGui
  <2>2. CASE t # "handler"
    <3>1. Free(t) /\ Uses(Needs(t)) /\ Live
      BY DEF GuiStep, Free
    <3> QED BY <1>2, <2>2, <3>1, GuiIsThere, UsesWhatIsThere
  <2> QED BY <2>1, <2>2
<1>4. InTheGui'
  BY <1>1, <1>2 DEF Good, InTheGui, Enters, GuiTypes, GuiThreads
<1> QED BY <1>1, <1>3, <1>4, ZenonT(60) DEF Good, Started, Stopped, IsDone

\* A thread comes out of the gui: a worker sleeps or ends, and what main() makes
\* next is in order.
LEMMA GoodLeaveGui ==
    ASSUME TypeOK, Good, NEW t \in GuiThreads, LeaveGui(t)
    PROVE  Good'
<1> USE DEF TypeOK, ControlTypes
<1>1. UNCHANGED <<hits, cleanup, alive, sniffing, running, open, resizes, source>>
  BY DEF LeaveGui, setup
<1>2. inGui[t] # "out" /\ Enters(t, "out")
  BY DEF LeaveGui, Release, Drawing
<1>3. dangling' => resizes > 0 /\ "gui" \notin alive
  <2>1. CASE t = "handler"
    <3>1. dangling' => "gui" \notin alive
      BY <2>1, Zenon DEF LeaveGui, Uses, Needs, Free, Live, Undefined
    <3> QED BY <1>2, <2>1, <3>1 DEF Good, InTheGui
  <2>2. CASE t # "handler"
    <3>1. Free(t) /\ Uses(Needs(t)) /\ Live
      BY DEF LeaveGui, Free
    <3> QED BY <1>2, <2>2, <3>1, GuiIsThere, UsesWhatIsThere
  <2> QED BY <2>1, <2>2
<1>4. t = "main" => /\ hits = {} /\ main \in {"model", "show"} /\ main' = After[main]
                    /\ UNCHANGED worker
  BY <1>2 DEF Good, InTheGui, Stopped, LeaveGui
<1>5. t # "main" => UNCHANGED main
  BY DEF LeaveGui
<1>6. worker' \in [Workers -> {"off", "idle", "busy", "ended"}] /\ \A w \in Workers : w # t => worker'[w] = worker[w]
  BY DEF LeaveGui, AfterKey, Workers
<1>7. t \in Workers => worker[t] = "busy"
  BY <1>2 DEF Good, InTheGui, GuiThreads, Workers
<1>12. (\A w \in Workers : IsDone(w) => IsDone(w)') /\ worker'["exporter"] = worker["exporter"]
  BY <1>6, <1>7 DEF IsDone, GuiThreads, Workers
<1>8. above' = above \/ t = "handler"
  BY Zenon DEF LeaveGui
<1>9. InTheGui'
  BY <1>1, <1>2, <1>4, <1>5, <1>6, <1>8 DEF Good, InTheGui, Enters, GuiTypes, GuiThreads, Workers
<1>10. hits = {} => Started'
  <2> SUFFICES ASSUME hits = {} PROVE Started'
    OBVIOUS
  <2>1. main' \notin InSource \cup {"leaving", "exited"} \/ main' = main
    BY <1>4, <1>5 DEF After, InSource
  <2>2. main \in {"model", "show"} => main' \in {"model", "show", "exporters"}
    BY <1>4, <1>5 DEF After
  <2>3. Made(main') = Made(main)
    BY <1>4, <1>5, <2>2 DEF Made
  <2> QED BY <1>1, <1>4, <1>5, <1>6, <1>7, <1>12, <2>1, <2>2, <2>3 DEF Good, Started, InSource, Workers, Objects
<1>11. hits # {} => Stopped'
  BY <1>1, <1>4, <1>5, <1>12 DEF Good, Stopped, Workers
<1> QED BY <1>1, <1>3, <1>9, <1>10, <1>11 DEF Good

\* start(), the callbacks of the source and the end of main(): all objects are
\* there until a signal came, after which the source gives nothing more.
LEMMA GoodMain ==
    ASSUME TypeOK, Good, Run \/ Receive \/ Received \/ Return \/ Leave
    PROVE  Good'
<1> USE DEF TypeOK, ControlTypes
<1>1. UNCHANGED <<hits, alive, inGui, resizes, above, source, running>> /\ Live
  BY DEF Run, Receive, Received, Return, Leave, Free, setup, signalVars, guiVars
<1>2. main \in {"start", "reading", "called", "waiting"} /\ cleanup["main"] = "none"
  BY DEF Run, Receive, Received, Return, Leave, Free, Interrupted
<1>3. hits = {} => Started /\ alive = Objects
  BY <1>2 DEF Good, Started, Made
<1>4. hits # {} => Stopped /\ alive = {} /\ ~running /\ ~sniffing
  BY <1>2 DEF Good, Stopped, Left
<1>5. ~dangling
  BY <1>1 DEF Live, Undefined
<1>6. ~dangling' /\ (hits # {} => Return \/ Leave)
  <2>1. CASE hits = {}
    <3>1. Leave => UNCHANGED dangling
      BY DEF Leave
    <3>2. ASSUME NEW objects \in SUBSET Objects, Uses(objects) PROVE ~dangling'
      BY <1>1, <1>3, <2>1, <3>2, UsesWhatIsThere
    <3> QED BY <1>5, <2>1, <3>1, <3>2 DEF Run, Receive, Received, Return, Objects
  <2>2. CASE hits # {}
    <3>1. main \in {"reading", "waiting"} /\ (main = "reading" => source = "sniffer")
      BY <1>2, <1>4, <2>2 DEF Stopped
    <3>2. ~Run /\ ~Receive /\ ~Received
      BY <1>4, <2>2, <3>1 DEF Run, Receive, Received
    <3>3. Return => Uses({})
      BY <3>1 DEF Return
    <3>4. Leave => UNCHANGED dangling
      BY DEF Leave
    <3>5. Return => ~dangling'
      BY <1>1, <3>3, UsesWhatIsThere
    <3> QED BY <1>5, <3>2, <3>4, <3>5
  <2> QED BY <2>1, <2>2
<1>7. /\ inGui["main"] = "out"
      /\ \A w \in Workers : cleanup'[w] = "none"
      /\ cleanup'["main"] \in {"none", "gui"}
      /\ \A w \in {"key", "update"} : worker'[w] = worker[w]
  BY <1>2 DEF Good, InTheGui, Run, Receive, Received, Return, Leave, Free, Interrupted, Workers, Threads
<1>8. inGui["handler"] = "out"
  BY DEF Run, Receive, Received, Return, Leave, Free, Interrupted
<1>9. InTheGui'
  BY <1>1, <1>7, <1>8 DEF Good, InTheGui
<1>10. hits = {} => Started'
  <2> SUFFICES ASSUME hits = {} PROVE Started'
    OBVIOUS
  <2>1. ~Leave
    BY <1>3 DEF Leave, Started
  <2>2. main' \in InSource /\ Made(main') = Objects
    BY <2>1 DEF Run, Receive, Received, Return, InSource, Made
  <2>3. cleanup'["main"] = "none" /\ sniffing' /\ worker'["exporter"] # "off"
    BY <1>2, <1>3, <2>1 DEF Run, Receive, Received, Return, InSource, Started, Workers
  <2>4. main' = "waiting" => source = "folder"
    BY <1>3, <2>1, <1>2 DEF Run, Receive, Received, Return, InSource, Started
  <2>5. main' \notin {"reading", "called"} => open' = 0
    BY <1>3, <2>1, <1>2 DEF Run, Receive, Received, Return, InSource, Started
  <2> QED BY <1>1, <1>3, <1>7, <2>2, <2>3, <2>4, <2>5 DEF Started, InSource, Objects, IsDone
<1>11. hits # {} => Stopped'
  <2> SUFFICES ASSUME hits # {} PROVE Stopped'
    OBVIOUS
  <2>1. Return \/ Leave
    BY <1>6
  <2>2. UNCHANGED <<worker, sniffing, open>>
    BY <2>1 DEF Return, Leave
  <2>3. CASE Return
    <3>1. main' = "waiting" /\ UNCHANGED cleanup
      BY <2>3 DEF Return
    <3>2. alive' \in Left(cleanup'["main"])
      BY <1>1, <1>4, <3>1 DEF Stopped
    <3> QED BY <1>1, <1>2, <1>4, <2>2, <3>1, <3>2 DEF Stopped, IsDone
  <2>4. CASE Leave
    <3>1. main' = "leaving" /\ cleanup'["main"] = "gui"
      BY <2>4 DEF Leave, Threads
    <3>2. alive' \in Left(cleanup'["main"])
      BY <1>1, <1>4, <3>1 DEF Left
    <3> QED BY <1>1, <1>4, <2>2, <3>1, <3>2 DEF Stopped, IsDone
  <2> QED BY <2>1, <2>3, <2>4
<1> QED BY <1>1, <1>6, <1>7, <1>9, <1>10, <1>11 DEF Good

\* What a thread uses that has not ended is there.
LEMMA WorkersAreServed ==
    ASSUME TypeOK, Good, NEW w \in Workers, ~IsDone(w)
    PROVE  Needs(w) \subseteq alive
<1> USE DEF TypeOK, ControlTypes
<1>1. CASE hits = {} /\ w = "exporter"
  <2>1. alive = Objects
    BY <1>1 DEF Good, Started, Made, IsDone, InSource
  <2> QED BY <1>1, <2>1 DEF Needs, Objects
<1>2. CASE hits = {} /\ w # "exporter"
  <2>1. "gui" \in alive
    BY <1>2 DEF Good, Started, Workers
  <2>2. "analyzer" \in alive
    BY <1>2, <2>1 DEF Good, Started, Made, Objects
  <2> QED BY <1>2, <2>1, <2>2 DEF Needs, Workers
<1>3. CASE hits # {} /\ w # "exporter"
  <2>1. "gui" \in alive
    BY <1>3 DEF Good, Stopped, Workers
  <2>2. alive = Objects
    BY <1>3, <2>1, AllOrNoGui DEF Good, Stopped
  <2> QED BY <1>3, <2>2 DEF Needs, Workers, Objects
<1>4. CASE hits # {} /\ w = "exporter"
  <2>1. "analyzer" \in alive
    BY <1>4 DEF Good, Stopped
  <2>2. {"expThread", "exporters"} \subseteq alive
    BY <1>4, <2>1, WithAnalyzer DEF Good, Stopped
  <2> QED BY <1>4, <2>1, <2>2 DEF Needs
<1> QED BY <1>1, <1>2, <1>3, <1>4

\* A worker wakes, ends, or goes on.
LEMMA GoodWorker ==
    ASSUME TypeOK, Good, NEW w \in Workers, ~IsDone(w), Live,
           UNCHANGED <<hits, main, cleanup, alive, sniffing, running, open, resizes, above, source>>,
           Uses(Needs(w)) \/ UNCHANGED dangling,
           worker' \in [Workers -> {"off", "idle", "busy", "ended"}],
           \A v \in Workers : v # w => worker'[v] = worker[v],
           worker'[w] # "off",
           \A t \in GuiThreads : t # w => inGui'[t] = inGui[t],
           w \in GuiThreads /\ inGui'[w] # "out" => worker'[w] = "busy"
    PROVE  Good'
<1> USE DEF TypeOK, ControlTypes
<1>1. ~dangling'
  <2>1. CASE Uses(Needs(w))
    BY <2>1, WorkersAreServed, UsesWhatIsThere
  <2>2. CASE UNCHANGED dangling
    BY <2>2 DEF Live, Undefined
  <2> QED BY <2>1, <2>2
<1>2. InTheGui'
  BY DEF Good, InTheGui, GuiThreads, Workers
<1>3. (\A v \in Workers : IsDone(v) => IsDone(v)') /\ (worker'["exporter"] = "off" <=> worker["exporter"] = "off")
  BY DEF IsDone, Workers
<1>4. hits = {} => Started'
  BY <1>3 DEF Good, Started, Workers
<1>5. hits # {} => Stopped'
  BY <1>3 DEF Good, Stopped, Workers
<1> QED BY <1>1, <1>2, <1>4, <1>5 DEF Good

\* The threads beside the main thread do what they do of their own accord, and keys.
LEMMA GoodWorkers ==
    ASSUME TypeOK, Good,
           \/ \E w \in {"exporter", "update"} : Wake(w)
           \/ Exported
           \/ \E key \in Keys : Press(key)
    PROVE  Good'
<1> USE DEF TypeOK, ControlTypes, GuiTypes
<1>0. UNCHANGED <<hits, main, cleanup, alive, sniffing, running, open, resizes, above, source>> /\ Live
  BY DEF Wake, Exported, Press, Free, signalVars, setup
<1>1. ASSUME NEW w \in {"exporter", "update"}, Wake(w) PROVE Good'
  <2>1. /\ w \in Workers /\ ~IsDone(w)
        /\ worker' = [worker EXCEPT ![w] = IF w \in enabled THEN "busy" ELSE "ended"]
        /\ \A v \in Workers : v # w => worker'[v] = worker[v]
        /\ worker' \in [Workers -> {"off", "idle", "busy", "ended"}]
        /\ worker'[w] # "off"
    BY <1>1 DEF Wake, IsDone, Workers
  <2>2. Uses(Needs(w)) \/ UNCHANGED dangling
    BY <1>1, Zenon DEF Wake, Uses
  <2>3. w = "update" => inGui["update"] = "out"
    BY <1>1 DEF Wake, Good, InTheGui
  <2>4. \A t \in GuiThreads : t # w => inGui'[t] = inGui[t]
    BY <1>1 DEF Wake, Enters, GuiThreads
  <2>5. w \in GuiThreads /\ inGui'[w] # "out" => worker'[w] = "busy"
    BY <1>1, <2>1, <2>3 DEF Wake, Workers, GuiThreads
  <2> QED BY <1>0, <2>1, <2>2, <2>4, <2>5, GoodWorker
<1>2. ASSUME Exported PROVE Good'
  <2>1. /\ ~IsDone("exporter")
        /\ \A v \in Workers : v # "exporter" => worker'[v] = worker[v]
        /\ worker' \in [Workers -> {"off", "idle", "busy", "ended"}]
        /\ worker'["exporter"] # "off"
    BY <1>2 DEF Exported, IsDone, Workers
  <2>2. Uses(Needs("exporter")) /\ UNCHANGED inGui
    BY <1>2 DEF Exported, guiVars
  <2>3. "exporter" \in Workers /\ "exporter" \notin GuiThreads
    BY DEF Workers, GuiThreads
  <2> QED BY <1>0, <2>1, <2>2, <2>3, GoodWorker
<1>3. ASSUME NEW key \in Keys, Press(key) PROVE Good'
  <2>1. /\ "key" \in Workers /\ ~IsDone("key")
        /\ \A v \in Workers : v # "key" => worker'[v] = worker[v]
        /\ worker' \in [Workers -> {"off", "idle", "busy", "ended"}]
        /\ worker'["key"] # "off"
    BY <1>3 DEF Press, AfterKey, IsDone, Workers
  <2>2. Uses(Needs("key"))
    BY <1>3 DEF Press
  <2>3. inGui["key"] = "out"
    BY <1>3 DEF Press, Good, InTheGui
  <2>4. CASE UNCHANGED inGui
    BY <1>0, <2>1, <2>2, <2>3, <2>4, GoodWorker DEF GuiThreads
  <2>5. CASE OnKey(key) /\ worker' = [worker EXCEPT !["key"] = "busy"]
    <3>1. \E place : Enters("key", place)
      BY <2>5 DEF OnKey, Attach
    <3>2. \A t \in GuiThreads : t # "key" => inGui'[t] = inGui[t]
      BY <3>1 DEF Enters, GuiThreads
    <3>3. worker'["key"] = "busy"
      BY <2>5 DEF Workers
    <3> QED BY <1>0, <2>1, <2>2, <3>2, <3>3, GoodWorker
  <2> QED BY <1>3, <2>4, <2>5 DEF Press, guiVars
<1> QED BY <1>1, <1>2, <1>3

\* The main thread cleans up: each object goes when its threads have ended, and
\* in the order in which what uses it goes first.
LEMMA GoodCleanup ==
    ASSUME TypeOK, Good, NEW t \in Threads, Cleanup(t)
    PROVE  Good'
<1> USE DEF TypeOK, ControlTypes
<1>1. cleanup[t] # "none" /\ Live
  BY DEF Cleanup, StopKeys, StopUpdates, DeleteGui, StopExporting, DeleteAnalyzer, DeleteSource,
     DeleteExporters, End, At
<1>2. t = "main" /\ hits # {} /\ Stopped
  BY <1>1 DEF Good, Started, Threads, Workers
<1>3. inGui["handler"] = "out"
  BY <1>1, <1>2 DEF Good, InTheGui, Cleanup, StopKeys, StopUpdates, DeleteGui, StopExporting,
     DeleteAnalyzer, DeleteSource, DeleteExporters, End, At
<1>4. UNCHANGED <<worker, inGui, hits, resizes, above, source>>
  BY DEF Cleanup, StopKeys, StopUpdates, DeleteGui, StopExporting, DeleteAnalyzer, DeleteSource,
     DeleteExporters, End, guiVars, signalVars, setup
<1>5. ~dangling /\ main # "exited"
  BY <1>1 DEF Live, Undefined
<1>6. inGui["main"] = "out"
  BY <1>2 DEF Good, InTheGui, Stopped
<1>7. ASSUME NEW place, Goes(t, place)
      PROVE  cleanup'["main"] = place /\ \A w \in Workers : cleanup'[w] = "none"
  BY <1>2, <1>7 DEF Goes, Good, Threads, Workers
<1>8. InTheGui'
  BY <1>3, <1>4, <1>6 DEF Good, InTheGui
<1>9. ASSUME Stopped', ~dangling', \A w \in Workers : cleanup'[w] = "none" PROVE Good'
  BY <1>2, <1>4, <1>8, <1>9 DEF Good
<1> DEFINE same == UNCHANGED <<main, alive, sniffing, running, open, dangling>>
<1>10. CASE StopKeys(t)
  <2>1. alive \in {Objects, {}} /\ same
    BY <1>2, <1>10 DEF StopKeys, At, Stopped, Left, signalVars
  <2>2. cleanup'["main"] = (IF "gui" \in alive THEN "join key" ELSE "expThread")
    BY <1>7, <1>10 DEF StopKeys
  <2>3. alive' \in Left(cleanup'["main"])
    BY <2>1, <2>2 DEF Left, Objects
  <2>4. \A w \in Workers : cleanup'[w] = "none"
    BY <1>7, <1>10 DEF StopKeys
  <2> QED BY <1>2, <1>4, <1>5, <1>9, <2>1, <2>2, <2>3, <2>4 DEF Stopped, IsDone
<1>11. CASE StopUpdates(t)
  <2>1. alive = Objects /\ same /\ IsDone("key")
    BY <1>2, <1>11 DEF StopUpdates, At, Stopped, Left, signalVars, Joins, IsDone
  <2>2. cleanup'["main"] = "join update" /\ \A w \in Workers : cleanup'[w] = "none"
    BY <1>7, <1>11 DEF StopUpdates
  <2>3. alive' \in Left(cleanup'["main"])
    BY <2>1, <2>2 DEF Left
  <2> QED BY <1>2, <1>4, <1>5, <1>9, <2>1, <2>2, <2>3 DEF Stopped, IsDone
<1>12. CASE DeleteGui(t)
  <2>1. alive = Objects /\ IsDone("key") /\ IsDone("update") /\ UNCHANGED <<main, sniffing, running, open>>
    BY <1>2, <1>12 DEF DeleteGui, At, Stopped, Left, Joins, IsDone
  <2>2. cleanup'["main"] = "expThread" /\ \A w \in Workers : cleanup'[w] = "none"
    BY <1>7, <1>12 DEF DeleteGui
  <2>3. alive' = Objects \ {"gui"}
    BY <1>12, <2>1 DEF DeleteGui
  <2>4. alive' \in Left(cleanup'["main"])
    BY <2>2, <2>3 DEF Left
  <2>5. ~dangling'
    BY <1>1, <1>12, <2>1, UsesWhatIsThere DEF DeleteGui, Objects
  <2> QED BY <1>2, <1>4, <1>9, <2>1, <2>2, <2>3, <2>4, <2>5 DEF Stopped, IsDone, Objects
<1>13. CASE StopExporting(t)
  <2>1. alive \in {Objects \ {"gui"}, {}} /\ same
    BY <1>2, <1>13 DEF StopExporting, At, Stopped, Left, signalVars
  <2>2. worker["exporter"] = "off" => alive = {}
    BY <1>2, <2>1 DEF Stopped, Objects
  <2>3. cleanup'["main"] = (IF "expThread" \in alive THEN "join exporter" ELSE "analyzer")
    BY <1>7, <1>13, <2>2 DEF StopExporting
  <2>4. alive' \in Left(cleanup'["main"])
    BY <2>1, <2>3 DEF Left, Objects
  <2>5. \A w \in Workers : cleanup'[w] = "none"
    BY <1>7, <1>13 DEF StopExporting
  <2> QED BY <1>2, <1>4, <1>5, <1>9, <2>1, <2>3, <2>4, <2>5 DEF Stopped, IsDone
<1>14. CASE DeleteAnalyzer(t)
  <2>1. cleanup["main"] = "analyzer" \/ (cleanup["main"] = "join exporter" /\ IsDone("exporter"))
    BY <1>2, <1>14 DEF DeleteAnalyzer, At, Joins, IsDone
  <2>2. alive = {} \/ (alive = Objects \ {"gui"} /\ IsDone("exporter"))
    BY <1>2, <2>1 DEF Stopped, Left
  <2>3. cleanup'["main"] = "httpSrc" /\ \A w \in Workers : cleanup'[w] = "none"
    BY <1>7, <1>14 DEF DeleteAnalyzer
  <2>4. alive' = alive \ {"analyzer"} /\ UNCHANGED <<main, sniffing, running, open, dangling>>
    BY <1>14 DEF DeleteAnalyzer
  <2>5. alive' = {} \/ (alive' = {"httpSrc", "exporters", "expThread"} /\ IsDone("exporter"))
    BY <2>2, <2>4 DEF Objects
  <2>6. alive' \in Left(cleanup'["main"])
    BY <2>3, <2>5 DEF Left
  <2>7. IsDone("exporter")
    BY <1>2, <2>2 DEF Stopped
  <2>8. "gui" \notin alive
    BY <2>2
  <2>9. ("httpSrc" \in alive' <=> "httpSrc" \in alive) /\ "gui" \notin alive'
    BY <2>4, <2>8
  <2> QED BY <1>2, <1>4, <1>5, <1>9, <2>3, <2>4, <2>6, <2>7, <2>8, <2>9 DEF Stopped, IsDone
<1>15. CASE DeleteSource(t)
  <2>1. alive \in {{"httpSrc", "exporters", "expThread"}, {}}
    BY <1>2, <1>15 DEF DeleteSource, At, Stopped, Left
  <2>2. sniffing <=> "httpSrc" \in alive
    BY <1>2 DEF Stopped
  <2>3. /\ sniffing' = (sniffing /\ "httpSrc" \notin alive)
        /\ IF "httpSrc" \in alive /\ source = "sniffer"
            THEN open' = 0 /\ Uses(IF open > 0 THEN {"exporters"} ELSE {})
            ELSE UNCHANGED <<open, dangling>>
        /\ alive' = alive \ {"httpSrc"}
        /\ Goes(t, "exporters")
        /\ UNCHANGED <<main, running>>
    BY <1>15, <2>2, Zenon DEF DeleteSource
  <2>4. cleanup'["main"] = "exporters" /\ \A w \in Workers : cleanup'[w] = "none"
    BY <1>7, <2>3
  <2>5. alive' \in {{"exporters", "expThread"}, {}}
    BY <2>1, <2>3
  <2>6. alive' \in Left(cleanup'["main"])
    BY <2>4, <2>5 DEF Left
  <2>7. ~sniffing' /\ "httpSrc" \notin alive' /\ "gui" \notin alive /\ "gui" \notin alive'
        /\ "analyzer" \notin alive
    BY <2>1, <2>2, <2>3
  <2>8. open' = 0
    BY <1>2, <2>3 DEF Stopped
  <2>9. ~dangling'
    <3>1. CASE "httpSrc" \in alive /\ source = "sniffer"
      <4>1. (IF open > 0 THEN {"exporters"} ELSE {}) \subseteq alive
        BY <2>1, <3>1
      <4> QED BY <1>1, <2>3, <3>1, <4>1, UsesWhatIsThere
    <3> QED BY <1>5, <2>3, <3>1
  <2>10. sniffing' <=> "httpSrc" \in alive'
    BY <2>7
  <2> QED BY <1>2, <1>4, <1>5, <1>9, <2>3, <2>4, <2>6, <2>7, <2>8, <2>9, <2>10 DEF Stopped, IsDone
<1>16. CASE DeleteExporters(t)
  <2>1. alive \in {{"exporters", "expThread"}, {}}
    BY <1>2, <1>16 DEF DeleteExporters, At, Stopped, Left
  <2>2. alive' \in {{"expThread"}, {}} /\ UNCHANGED <<main, sniffing, running, open, dangling>>
    BY <1>16, <2>1 DEF DeleteExporters
  <2>3. cleanup'["main"] = "thread" /\ \A w \in Workers : cleanup'[w] = "none"
    BY <1>7, <1>16 DEF DeleteExporters
  <2>4. alive' \in Left(cleanup'["main"])
    BY <2>2, <2>3 DEF Left
  <2>5. /\ "gui" \notin alive /\ "httpSrc" \notin alive /\ "analyzer" \notin alive
        /\ "gui" \notin alive' /\ "httpSrc" \notin alive' /\ "analyzer" \notin alive'
    BY <2>1, <2>2
  <2> QED BY <1>2, <1>4, <1>5, <1>9, <2>2, <2>3, <2>4, <2>5 DEF Stopped, IsDone
<1>17. CASE End(t)
  <2>1. alive \in {{"expThread"}, {}}
    BY <1>2, <1>17 DEF End, At, Stopped, Left
  <2>2. alive' = {} /\ ~running' /\ UNCHANGED <<sniffing, open, dangling>>
    BY <1>17, <2>1 DEF End
  <2>3. cleanup'["main"] = "none" /\ \A w \in Workers : cleanup'[w] = "none"
    BY <1>7, <1>17 DEF End
  <2>4. alive' \in Left(cleanup'["main"])
    BY <2>2, <2>3 DEF Left
  <2>5. "gui" \notin alive /\ "httpSrc" \notin alive /\ "analyzer" \notin alive
    BY <2>1
  <2>6. main' = (IF main = "leaving" THEN "exited" ELSE main)
    BY <1>2, <1>17 DEF End
  <2> QED BY <1>2, <1>4, <1>5, <1>9, <2>2, <2>3, <2>4, <2>5, <2>6 DEF Stopped, IsDone
<1> QED BY <1>10, <1>11, <1>12, <1>13, <1>14, <1>15, <1>16, <1>17 DEF Cleanup

\* A signal that does no harm finds the main thread.
LEMMA OnlyMain ==
    ASSUME NEW t, NEW place, Interrupt(t, place), (hits \subseteq Harmless)'
    PROVE  t = "main" /\ (place = "waiting" \/ (place = "reading" /\ source = "sniffer"))
BY DEF Interrupt, Harmless, setup

\* SIGINT comes where it does no harm: to the main thread, when all was made, or
\* when all is gone already.
LEMMA GoodCtrlC ==
    ASSUME TypeOK, Good, CtrlC, (hits \subseteq Harmless)'
    PROVE  Good'
<1> USE DEF TypeOK, ControlTypes
<1>1. ASSUME NEW t, NEW place, Interrupt(t, place)
      PROVE  t = "main" /\ (place = "waiting" \/ (place = "reading" /\ source = "sniffer"))
  BY <1>1, OnlyMain
<1>2. \A w \in Workers : ~Interrupt(w, worker[w])
  BY <1>1 DEF Workers
<1>3. Interrupt("main", IF inGui["handler"] = "out" THEN main ELSE "handler") /\ UNCHANGED <<worker, inGui>>
  BY <1>2, Zenon DEF CtrlC
<1>4. inGui["handler"] = "out" /\ main \in {"waiting", "reading"} /\ (main = "reading" => source = "sniffer")
  BY <1>1, <1>3
<1>5. /\ Live /\ cleanup["main"] = "none" /\ hits' # {}
      /\ cleanup'["main"] = "gui" /\ \A w \in Workers : cleanup'[w] = cleanup[w]
      /\ UNCHANGED <<main, alive, sniffing, open, resizes, above, dangling, source>>
  BY <1>3 DEF Interrupt, Goes, Threads, Workers, setup
<1>6. ~dangling'
  BY <1>5 DEF Live, Undefined
<1>7. InTheGui'
  BY <1>3, <1>4, <1>5 DEF Good, InTheGui
<1>8. CASE hits = {}
  <2>1. /\ alive = Objects /\ sniffing /\ (source = "folder" => open = 0)
        /\ worker["exporter"] # "off"
    BY <1>4, <1>8 DEF Good, Started, Made, InSource
  <2>2. alive' \in Left(cleanup'["main"])
    BY <1>5, <2>1 DEF Left
  <2>3. {"gui", "httpSrc", "analyzer"} \subseteq alive'
    BY <1>5, <2>1 DEF Objects
  <2>4. Stopped'
    BY <1>3, <1>4, <1>5, <2>1, <2>2, <2>3 DEF Stopped
  <2> QED BY <1>5, <1>6, <1>7, <2>4 DEF Good
<1>9. CASE hits # {}
  <2>1. Stopped /\ alive = {}
    BY <1>5, <1>9 DEF Good, Stopped, Left
  <2>2. alive' \in Left(cleanup'["main"])
    BY <1>5, <2>1 DEF Left
  <2>3. Stopped'
    BY <1>3, <1>4, <1>5, <2>1, <2>2 DEF Stopped, IsDone
  <2> QED BY <1>5, <1>6, <1>7, <2>3 DEF Good
<1> QED BY <1>8, <1>9

\* The terminal is resized: its handler is all that may use a gui that is gone.
LEMMA GoodResize ==
    ASSUME TypeOK, Good, Resize
    PROVE  Good'
<1> USE DEF TypeOK, ControlTypes
<1>1. /\ UNCHANGED <<hits, main, worker, cleanup, alive, sniffing, running, open, source>>
      /\ resizes' = resizes + 1 /\ (above' <=> cleanup["main"] # "none")
  BY DEF Resize, setup
<1>2. dangling' => "gui" \notin alive
  BY Zenon DEF Resize, Uses, Needs, Live, Undefined
<1>3. \A t \in GuiThreads : t # "handler" => inGui'[t] = inGui[t]
  BY DEF Resize, Enters, GuiTypes
<1>4. InTheGui'
  BY <1>1, <1>3 DEF Good, InTheGui, GuiThreads
<1>5. hits = {} => Started'
  BY <1>1 DEF Good, Started, IsDone
<1>6. hits # {} => Stopped'
  BY <1>1 DEF Good, Stopped, IsDone
<1>7. dangling' => resizes' > 0 /\ "gui" \notin alive'
  BY <1>1, <1>2
<1> QED BY <1>1, <1>4, <1>5, <1>6, <1>7 DEF Good

\* Signals are only added to those that came, and the source is chosen once.
LEMMA StepKeeps == Next => hits \subseteq hits' /\ UNCHANGED source
<1> USE DEF setup, signalVars
<1>1. MainStep => UNCHANGED <<hits, source>>
  BY DEF MainStep, Make, SetGUI, Run, Received, Return, Leave
<1>2. \A t : GuiStep(t) \/ LeaveGui(t) \/ Wake(t) \/ Exported => UNCHANGED <<hits, source>>
  BY DEF GuiStep, LeaveGui, Wake, Exported
<1>3. \A t : Cleanup(t) => UNCHANGED <<hits, source>>
  BY DEF Cleanup, StopKeys, StopUpdates, DeleteGui, StopExporting, DeleteAnalyzer, DeleteSource,
     DeleteExporters, End
<1>4. \A t \in Threads : Step(t) => UNCHANGED <<hits, source>>
  BY <1>1, <1>2, <1>3, Zenon DEF Step
<1>5. Receive \/ (\E key \in Keys : Press(key)) \/ Resize => UNCHANGED <<hits, source>>
  BY DEF Receive, Press, Resize
<1>6. CtrlC \/ PressF2 => hits \subseteq hits' /\ UNCHANGED source
  BY DEF CtrlC, PressF2, Interrupt
<1> QED BY <1>4, <1>5, <1>6 DEF Next

\* As long as signals do no harm, every step leads from good to good.
LEMMA CleanStep == TypeOK /\ CleanInv /\ [Next]_vars => CleanInv'
<1> SUFFICES ASSUME TypeOK, CleanInv, [Next]_vars, (hits \subseteq Harmless)'
             PROVE  Good'
  BY DEF CleanInv
<1>1. CASE UNCHANGED vars
  <2> USE <1>1 DEF vars, setup, signalVars, guiVars
  <2>1. hits \subseteq Harmless
    BY DEF Harmless
  <2>2. Good
    BY <2>1 DEF CleanInv
  <2>3. hits = {} => Started'
    BY <2>2 DEF Good, Started, IsDone
  <2>4. hits # {} => Stopped'
    BY <2>2 DEF Good, Stopped, IsDone
  <2>5. InTheGui'
    BY <2>2 DEF Good, InTheGui
  <2> QED BY <2>2, <2>3, <2>4, <2>5 DEF Good
<1>2. CASE Next
  <2>1. hits \subseteq hits' /\ UNCHANGED source
    BY <1>2, StepKeeps
  <2>2. Good
    BY <2>1 DEF CleanInv, Harmless
  <2>3. ASSUME NEW t \in Threads, Step(t) PROVE Good'
    <3>1. "handler" \in GuiThreads
      BY DEF GuiThreads
    <3>2. MainStep => Good'
      BY <2>2, GoodMake, GoodSetGUI, GoodMain, Zenon DEF MainStep
    <3>3. (t = "exporter" /\ (Wake(t) \/ Exported)) \/ (t = "update" /\ Wake(t)) => Good'
      BY <2>2, GoodWorkers
    <3> QED BY <2>2, <2>3, <3>1, <3>2, <3>3, GoodGuiStep, GoodLeaveGui, GoodCleanup, Zenon DEF Step
  <2>4. ~PressF2
    <3>1. PressF2 => Interrupt("key", "busy")
      BY DEF PressF2
    <3> QED BY <3>1, OnlyMain
  <2> QED BY <1>2, <2>2, <2>3, <2>4, GoodMain, GoodWorkers, GoodCtrlC, GoodResize, Zenon DEF Next
<1> QED BY <1>1, <1>2

\* Whenever signals find the main thread where they do no harm, be it again when
\* the cleanup for the one before is done, no thread uses what was deleted, and
\* when the program ends nothing is left and no connection is open:
\* globals_cleanup() joins each thread before it deletes what that uses, may be
\* called again by main(), and finds the sniffer running as long as that exists.
THEOREM ExitIsClean == Spec => []CleanExit
<1>1. Init => CleanInv
  <2> SUFFICES ASSUME Init PROVE Good
    BY DEF CleanInv
  <2>1. Started
    BY DEF Init, Started, Made, InSource, IsDone, Threads, Workers
  <2>2. InTheGui
    BY DEF Init, GuiInit, InTheGui, GuiThreads
  <2> QED BY <2>1, <2>2 DEF Init, Good, Threads
<1>2. CleanInv => CleanExit
  <2> SUFFICES ASSUME CleanInv, hits \subseteq Harmless
               PROVE  /\ dangling => resizes > 0 /\ "gui" \notin alive
                      /\ main = "exited" => alive = {} /\ open = 0
    BY DEF CleanExit, NothingDangles
  <2>1. Good
    BY DEF CleanInv
  <2>2. ASSUME main = "exited" PROVE alive = {} /\ open = 0
    BY <2>1, <2>2 DEF Good, Started, Stopped
  <2> QED BY <2>1, <2>2 DEF Good
<1>3. Spec => []TypeOK
  BY Typed
<1>4. Spec => []CleanInv
  BY <1>1, <1>3, CleanStep, PTL DEF Spec
<1> QED BY <1>2, <1>4, PTL

=============================================================================
