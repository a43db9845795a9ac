----------------------------- MODULE Lifecycle -----------------------------
(***************************************************************************)
(* From the first instruction of a compiled program to its rts: the code   *)
(* that emitStartup of codegen.js puts around proc_main.  A program is     *)
(* started from a shell or from Workbench, which sends it a message and    *)
(* waits for the reply; it opens libraries and makes a memory pool, any of *)
(* which may fail; main runs and ends in one of several ways; then         *)
(* everything is given back, in an order that matters.                     *)
(***************************************************************************)
EXTENDS Integers

CONSTANTS
  AutoLibs,     \* libraries every program opens: intuition, graphics, math
  ModuleLibs,   \* libraries the linked binary modules refer to
  Codes,        \* values of CleanUp and uncaught exceptions
  Fails,        \* what may fail: "dos", "pool", "libs" (startup's OpenLibrary
                \* and the program's)
  MostOwn       \* bound: how often the program has a library open itself

ASSUME LifecycleAssumption ==
  /\ Codes \subseteq Nat
  /\ AutoLibs \cap ModuleLibs = {}
  /\ Fails \subseteq {"dos", "pool", "libs"}
  /\ MostOwn \in Nat

Libs == AutoLibs \cup ModuleLibs

VARIABLES
  pc,         \* where the startup code is
  message,    \* Workbench's: "none" (shell), "unsent", "sent", "taken", "replied"
  d7,         \* D7: whether it holds the message
  d2,         \* D2, at exit
  a4,         \* whether A4 points to the globals
  wbmessage,  \* the global: whether it holds the message
  dos,        \* how often dos.library is open for the program
  opens,      \* how often each other library is
  slot,       \* the bases in the globals: whether they are non-NIL
  pool,       \* whether the string pool exists
  heap,       \* whether the program has blocks of its own
  exitcode,   \* the global __exitcode
  asked,      \* history: the exit code the program asked for
  started,    \* history: the libraries that startup has opened
  own,        \* history: the program's own openings of each library, less its closings
  forbidden,  \* multitasking is off
  result      \* D0 at rts: a code, or Garbage

mem  == <<wbmessage, slot, exitcode>>
sys  == <<dos, opens, pool, heap>>
programVars == <<pc, message, d7, d2, a4, mem, sys, asked, started, own, forbidden, result>>

Garbage == -1

ProgramInit ==
  /\ pc = "entry"
  /\ message \in {"none", "unsent"}
  /\ d7 = FALSE
  /\ d2 = FALSE
  /\ a4 = FALSE
  /\ wbmessage = FALSE
  /\ dos = 0
  /\ opens = [l \in Libs |-> 0]
  /\ slot = [l \in Libs |-> FALSE]
  /\ pool = FALSE
  /\ heap = FALSE
  /\ exitcode = 0
  /\ asked = 0
  /\ started = [l \in Libs |-> FALSE]
  /\ own = [l \in Libs |-> 0]
  /\ forbidden = FALSE
  /\ result = Garbage

Goto(from, to) == pc = from /\ pc' = to

\* Workbench sends the startup message after it has made the process.
WorkbenchSends ==
  /\ message = "unsent"
  /\ message' = "sent"
  /\ UNCHANGED <<pc, d7, d2, a4, mem, sys, asked, started, own, forbidden, result>>

-----------------------------------------------------------------------------
(* Startup.                                                                *)

FromCliWaiting ==
  /\ Goto("entry", "dos")
  /\ message = "sent"
  /\ message' = "taken"
  /\ d7' = TRUE
  /\ UNCHANGED <<d2, a4, mem, sys, asked, started, own, forbidden, result>>

\* pr_CLI tells who started the program: no message is waited for from a shell.
FromCli ==
  /\ Goto("entry", "dos")
  /\ message = "none"
  /\ UNCHANGED <<message, d7, d2, a4, mem, sys, asked, started, own, forbidden, result>>

\* WaitPort returns when the message is there; GetMsg takes it.
FromWorkbench ==
  /\ Goto("entry", "dos")
  /\ message = "sent"
  /\ message' = "taken"
  /\ d7' = TRUE
  /\ UNCHANGED <<d2, a4, mem, sys, asked, started, own, forbidden, result>>

\* The globals area is cleared by the loader; A4 and the first globals are set.
OpenDos ==
  /\ Goto("dos", "pool")
  /\ dos' = dos + 1
  /\ a4' = TRUE
  /\ wbmessage' = d7
  /\ UNCHANGED <<message, d7, d2, slot, exitcode, opens, pool, heap, asked, started, own, forbidden, result>>

\* __quit: D2 takes the message from D7, and the exit is cut short.
QuitLosesMessage ==
  /\ "dos" \in Fails
  /\ Goto("dos", "reply")
  /\ d2' = wbmessage
  /\ UNCHANGED <<message, d7, a4, mem, sys, asked, started, own, forbidden, result>>

Quit ==
  /\ "dos" \in Fails
  /\ Goto("dos", "reply")
  /\ d2' = d7
  /\ UNCHANGED <<message, d7, a4, mem, sys, asked, started, own, forbidden, result>>

CreatePool ==
  /\ Goto("pool", "libs")
  /\ pool' \in {TRUE} \cup IF "pool" \in Fails THEN {FALSE} ELSE {}
  /\ UNCHANGED <<message, d7, d2, a4, mem, dos, opens, heap, asked, started, own, forbidden, result>>

\* The automatic libraries and the modules', one after the other; a base that
\* cannot be had stays NIL and the program goes on.
OpenLibs ==
  /\ Goto("libs", "main")
  /\ \E got \in SUBSET Libs :
       /\ "libs" \notin Fails => got = Libs
       /\ opens' = [l \in Libs |-> opens[l] + (IF l \in got THEN 1 ELSE 0)]
       /\ slot' = [l \in Libs |-> l \in got]
       /\ started' = [l \in Libs |-> l \in got]
  /\ UNCHANGED <<message, d7, d2, a4, wbmessage, exitcode, dos, pool, heap, asked, own, forbidden, result>>

-----------------------------------------------------------------------------
(* What main may do, of the things startup and exit share with it.         *)

Allocates ==
  /\ pc = "main"
  /\ heap' = TRUE
  /\ UNCHANGED <<pc, message, d7, d2, a4, mem, dos, opens, pool, asked, started, own, forbidden, result>>

\* base := OpenLibrary(...): the program opens a library for itself, into the global that
\* startup has filled in or left NIL, and may fail where startup did not, or the reverse.
ProgramOpens(l) ==
  /\ pc = "main"
  /\ own[l] < MostOwn
  /\ \E got \in {TRUE} \cup IF "libs" \in Fails THEN {FALSE} ELSE {} :
       /\ slot' = [slot EXCEPT ![l] = got]
       /\ opens' = [opens EXCEPT ![l] = @ + (IF got THEN 1 ELSE 0)]
       /\ own' = [own EXCEPT ![l] = @ + (IF got THEN 1 ELSE 0)]
  /\ UNCHANGED <<pc, message, d7, d2, a4, wbmessage, exitcode, dos, pool, heap, asked, started, forbidden, result>>

\* CloseLibrary leaves the base as it is.  What the program closes is open, be it that
\* startup has opened it.
ProgramCloses(l) ==
  /\ pc = "main"
  /\ opens[l] > 0
  /\ opens' = [opens EXCEPT ![l] = @ - 1]
  /\ own' = [own EXCEPT ![l] = @ - 1]
  /\ UNCHANGED <<pc, message, d7, d2, a4, mem, dos, pool, heap, asked, started, forbidden, result>>

\* base := NIL
ProgramClears(l) ==
  /\ pc = "main"
  /\ slot' = [slot EXCEPT ![l] = FALSE]
  /\ UNCHANGED <<pc, message, d7, d2, a4, wbmessage, exitcode, sys, asked, started, own, forbidden, result>>

\* ENDPROC or RETURN of main: the value is not the exit code.
MainReturns ==
  /\ Goto("main", "freeall")
  /\ UNCHANGED <<message, d7, d2, a4, mem, sys, asked, started, own, forbidden, result>>

\* CleanUp(v), or an exception v that nothing handles: both set __exitcode.
MainQuits(v) ==
  /\ Goto("main", "freeall")
  /\ exitcode' = v
  /\ asked' = v
  /\ UNCHANGED <<message, d7, d2, a4, wbmessage, slot, sys, started, own, forbidden, result>>

-----------------------------------------------------------------------------
(* Exit.                                                                   *)

FreeAll ==
  /\ Goto("freeall", "closelibs")
  /\ heap' = FALSE
  /\ UNCHANGED <<message, d7, d2, a4, mem, dos, opens, pool, asked, started, own, forbidden, result>>

ClosableBlindly == ModuleLibs

\* The modules' libraries whose base is not NIL.
Closable == {l \in ModuleLibs : slot[l]}

CloseLibs ==
  /\ Goto("closelibs", "closedos")
  /\ opens' = [l \in Libs |-> opens[l] - (IF l \in Closable THEN 1 ELSE 0)]
  /\ UNCHANGED <<message, d7, d2, a4, mem, dos, pool, heap, asked, started, own, forbidden, result>>

CloseDos ==
  /\ Goto("closedos", "reply")
  /\ dos' = dos - 1
  /\ d2' = wbmessage
  /\ UNCHANGED <<message, d7, a4, mem, opens, pool, heap, asked, started, own, forbidden, result>>

\* __quit2: the message goes back with multitasking off, so that Workbench does not
\* unload the program before its last instruction.
ReplyUnprotected ==
  /\ Goto("reply", "return")
  /\ d2
  /\ message' = "replied"
  /\ UNCHANGED <<d7, d2, a4, mem, sys, asked, started, own, forbidden, result>>

Reply ==
  /\ Goto("reply", "return")
  /\ d2
  /\ forbidden' = TRUE
  /\ message' = "replied"
  /\ UNCHANGED <<d7, d2, a4, mem, sys, asked, started, own, result>>

NoReply ==
  /\ Goto("reply", "return")
  /\ ~d2
  /\ UNCHANGED <<message, d7, d2, a4, mem, sys, asked, started, own, forbidden, result>>

\* D0 is read through A4; while A4 was never set it is whatever is there.
ReturnsZero ==
  /\ Goto("return", "ended")
  /\ result' = 0
  /\ UNCHANGED <<message, d7, d2, a4, mem, sys, asked, started, own, forbidden>>

Return ==
  /\ Goto("return", "ended")
  /\ result' \in IF a4 THEN {exitcode} ELSE Codes \cup {0, Garbage}
  /\ UNCHANGED <<message, d7, d2, a4, mem, sys, asked, started, own, forbidden>>

\* Once it has the reply, and the processor, Workbench unloads the program.
WorkbenchUnloads ==
  /\ message = "replied"
  /\ ~forbidden \/ pc = "ended"
  /\ message' = "unloaded"
  /\ UNCHANGED <<pc, d7, d2, a4, mem, sys, asked, started, own, forbidden, result>>

-----------------------------------------------------------------------------
Startup == FromCli \/ FromWorkbench \/ OpenDos \/ Quit \/ CreatePool \/ OpenLibs

MainRuns == Allocates \/ \E l \in Libs : ProgramOpens(l) \/ ProgramCloses(l) \/ ProgramClears(l)

MainEnds == MainReturns \/ \E v \in Codes : MainQuits(v)

Leave == FreeAll \/ CloseLibs \/ CloseDos \/ Reply \/ NoReply \/ Return

Workbench == WorkbenchSends \/ WorkbenchUnloads

ProgramNext == Startup \/ MainRuns \/ MainEnds \/ Leave \/ Workbench

ProgramSpec == ProgramInit /\ [][ProgramNext]_programVars

\* The program is straight-line code outside main, and Workbench does send the message
\* it has made the process for.  main need not end.
FairSpec == ProgramSpec /\ WF_programVars(Startup) /\ WF_programVars(Leave) /\ WF_programVars(WorkbenchSends)
-----------------------------------------------------------------------------
(* Invariants.                                                             *)

TypeOK ==
  /\ pc \in {"entry", "dos", "pool", "libs", "main", "freeall", "closelibs",
             "closedos", "reply", "return", "ended"}
  /\ message \in {"none", "unsent", "sent", "taken", "replied", "unloaded"}
  /\ d7 \in BOOLEAN /\ d2 \in BOOLEAN /\ a4 \in BOOLEAN
  /\ wbmessage \in BOOLEAN
  /\ dos \in 0..1
  /\ opens \in [Libs -> -1 .. MostOwn + 1]
  /\ slot \in [Libs -> BOOLEAN]
  /\ pool \in BOOLEAN /\ heap \in BOOLEAN
  /\ exitcode \in Codes \cup {0} /\ asked \in Codes \cup {0}
  /\ started \in [Libs -> BOOLEAN]
  /\ own \in [Libs -> -1 .. MostOwn]
  /\ forbidden \in BOOLEAN
  /\ result \in Codes \cup {0, Garbage}

\* A program started from Workbench "MUST collect its startup message — and reply it at
\* exit": it has done so when it ends, whatever failed on the way.
MessageReplied == pc = "ended" => message \in {"none", "replied", "unloaded"}

\* "WB must not unload us early": the code is still there when its last instruction runs.
NotUnloadedEarly == message = "unloaded" => pc = "ended"

-----------------------------------------------------------------------------
\* What main has left of a library: it has closed what it opened, and the base is set if
\* startup opened the library.
LeftAlone(l) == own[l] = 0 /\ (slot[l] <=> started[l])

\* It has opened a library that startup could not open, and not closed it.
LeftToExit(l) == own[l] = 1 /\ slot[l] /\ ~started[l]

\* It has closed startup's opening as well, and cleared the base.
GivenUp(l) == own[l] = -1 /\ ~slot[l] /\ started[l]

\* The library is closed, and the base is set: OpenLibrary and CloseLibrary of what startup
\* could not open, or CloseLibrary of what it could.
BaseStale(l) == slot[l] /\ own[l] = IF started[l] THEN -1 ELSE 0

\* "close module libraries", by the bases: a library is given back, neither left open nor
\* closed once more than it was opened, exactly if main leaves it alone, open for exit to
\* close or given up; it is closed twice exactly if main leaves a stale base.
ModuleLibsClosed ==
  pc = "ended" => \A l \in ModuleLibs :
    /\ opens[l] = 0 <=> LeftAlone(l) \/ LeftToExit(l) \/ GivenUp(l)
    /\ opens[l] < 0 <=> BaseStale(l)

\* Exit closes the modules' libraries whose bases main has left right, and no others; the
\* program's blocks and dos.library are always given back ("auto-free at exit").
ExitReleases == ModuleLibsClosed /\ (pc = "ended" => dos = 0 /\ ~heap)

\* The program's own CleanUp or exception value is what the system sees, if the
\* program came so far that it had a globals area.
ExitCodeKept == pc = "ended" /\ a4 => result = asked

-----------------------------------------------------------------------------
\* Startup gets to main or gives up, and exit gets to the end: no one is waited for
\* who does not come.
GetsThrough == pc # "main" ~> pc \in {"main", "ended"}
=============================================================================
