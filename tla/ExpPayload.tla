----------------------------- MODULE ExpPayload -----------------------------
(***************************************************************************)
(* ExpPayload (export/payload): writes the payload of each response of an  *)
(* exported content type to a file of its own. It keeps one open file for  *)
(* a connection, and listens to its decoder.                               *)
(***************************************************************************)
EXTENDS Integers, Sequences

CONSTANT Exported   \* contentTypes, the content types that are exported

VARIABLES
    openFile,   \* openFiles[dec], as an index of files; 0 if there is none
    files       \* every file: the response it was opened for, and its cells

exportVars == <<openFile, files>>

ExportInit == openFile = 0 /\ files = <<>>

\* onHttpResponse(), for the response with this number: a file that is still
\* open is closed, but only if the response is exported.
OpenFile(nr, type, isHead) ==
    IF type \notin Exported \/ isHead THEN UNCHANGED exportVars
    ELSE /\ openFile' = Len(files) + 1
         /\ files' = Append(files, [response |-> nr, cells |-> <<>>])

\* onHttpResponseTraffic(): whatever comes goes into the open file.
WriteFile(nr, b) ==
    IF openFile = 0 THEN UNCHANGED exportVars
    ELSE /\ files' = [files EXCEPT ![openFile].cells = Append(@, <<nr, b>>)]
         /\ UNCHANGED openFile

\* Mutant of CloseFile: the file stays open.
LeaveFile == UNCHANGED exportVars

\* onHttpDone() of any header, and onHttpClose()
CloseFile == openFile' = 0 /\ UNCHANGED files

=============================================================================
