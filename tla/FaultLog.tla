------------------------------ MODULE FaultLog ------------------------------
(***************************************************************************)
(* FrameToGlass with what the plugin's sink has written of the adapters'   *)
(* faults: LogSink.AdapterFaulted appends to a file, whatever is in it.  A *)
(* title has one cause to fault here.                                      *)
(***************************************************************************)
EXTENDS FrameToGlass, Sequences

CONSTANT MaxLog     \* bound: how many entries are followed

VARIABLE log        \* the titles of the entries of plugin-log.txt

LogInit == Init /\ log = <<>>

\* An entry is written when Build reports the fault.
UpdateAndLog ==
    \E source \in Readings :
        /\ DataUpdate(source)
        /\ log' = IF Reports(source, faultedTitle) THEN Append(log, Select(source)) ELSE log
        /\ Len(log') <= MaxLog

LogSpec == LogInit /\ [][UpdateAndLog \/ (Iterate /\ UNCHANGED log)]_<<vars, log>>

\* A fault has one entry: "A fault is logged once per distinct cause, never once
\* per update", architecture.md, PATTERN-FAULT-BOUNDARY.  FrameBuilder's latch is
\* reset by every frame that was built and by every pause, and AdapterFaulted has
\* no latch of its own, so an adapter that faults now and then is logged each time.
FaultIsLoggedOnce == \A i, j \in DOMAIN log : log[i] = log[j] => i = j
=============================================================================
