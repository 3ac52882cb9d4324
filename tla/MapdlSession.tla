----------------------------- MODULE MapdlSession -----------------------------
(***************************************************************************)
(* The backend of the MCP server (ansys_mcp_server/backend.py): one MAPDL  *)
(* session, the analysis of the last solve that returned, which decides    *)
(* whether generic maxima may be read, and the Workbench processes of its  *)
(* calls.  What a method does under the backend's lock is one step; what   *)
(* it does outside (storing the result of a solve, testing it before a     *)
(* read) is a step of its own.  The server runs its tools one after the    *)
(* other: with one caller the model is the server, with more it is the     *)
(* backend as its lock means it to be used.                                *)
(***************************************************************************)
EXTENDS Integers, FiniteSets

CONSTANTS
    Callers,        \* calls that may be in progress at once
    Analyses,       \* analysis types callers ask for
    AllowRaw,       \* Settings.allow_raw_apdl
    AllowScripts,   \* Settings.allow_workbench_scripts
    LaunchBound,    \* bound of the model: launches
    DeathBound,     \* bound of the model: deaths of the server
    BenchBound      \* bound of the model: Workbench calls

AllAnalyses == {"STATIC", "MODAL", "TRANS", "BUCKLE", "HARMIC"}

ASSUME SessionAssumption ==
    /\ IsFiniteSet(Callers)
    /\ Analyses \subseteq AllAnalyses
    /\ {AllowRaw, AllowScripts} \subseteq BOOLEAN
    /\ {LaunchBound, DeathBound, BenchBound} \subseteq Nat

VARIABLES
    handle,     \* the launch behind _mapdl, 0 without one
    launches,   \* launches so far; each has a directory of its own
    alive,      \* launches whose MAPDL process lives
    left,       \* launches given up by a raising call or a death of the server
    rst,        \* result sets in each directory: of which launch, which analysis
    lastResult, \* analysis type of _last_result
    pc,         \* where each call is
    solved,     \* what a solve that returned has still to store
    reads,      \* reads that a call has still to make
    answer,     \* the scalar read last: by which launch, from which set
    excuses,    \* what may have parted lastResult from the result sets
    benches,    \* live Workbench processes
    journals,   \* generated journals on the disk
    spared,     \* Workbench calls cut off by deaths of the server
    cut,        \* Workbench calls cut off by an exception
    deaths, used    \* counters for the bounds

session == <<handle, launches, alive, left>>
results == <<rst, lastResult>>
calls == <<pc, solved, reads>>
workbench == <<benches, journals, spared, cut, used>>
vars == <<session, results, calls, answer, excuses, workbench, deaths>>

Launches == 1..LaunchBound
NonGeneric == {"MODAL", "BUCKLE", "HARMIC"}
Empty == [by |-> 0, of |-> "none"]
Sets == [by : Launches, of : AllAnalyses]
NoAnswer == [reader |-> 0, by |-> 0, of |-> "none"]
Stages == {"off", "store", "check", "read", "open", "script"}

Init ==
    /\ handle = 0 /\ launches = 0 /\ alive = {} /\ left = {}
    /\ rst = [n \in Launches |-> Empty]
    /\ lastResult = "none"
    /\ pc = [c \in Callers |-> "off"]
    /\ solved = [c \in Callers |-> "none"]
    /\ reads = [c \in Callers |-> 0]
    /\ answer = NoAnswer
    /\ excuses = {}
    /\ benches = 0 /\ journals = 0 /\ spared = 0 /\ cut = 0 /\ used = 0
    /\ deaths = 0

-----------------------------------------------------------------------------
\* Seeded fault: all launches run in run_location itself.
Directory_Shared(n) == 1

\* launch makes a fresh launch-<uuid> below run_location.
Directory(n) == n

\* A call arrives; with another in progress, what follows may interleave.
Arrives(c, extra) ==
    /\ pc[c] = "off"
    /\ excuses' = excuses \cup extra \cup
          (IF \E d \in Callers : pc[d] # "off" THEN {"overlap"} ELSE {})
    /\ answer' = NoAnswer

\* The connected session answers.
Connected == handle # 0 /\ handle \in alive

\* Seeded fault: the handle of a connected session is overwritten.
Launch_Again(c) ==
    /\ launches < LaunchBound
    /\ Arrives(c, {})
    /\ LET n == launches + 1 IN
        /\ launches' = n
        /\ \/ handle' = n /\ alive' = alive \cup {n} /\ left' = left
           \/ handle' = handle /\ alive' \in {alive, alive \cup {n}}
              /\ left' = left \cup {n}
    /\ UNCHANGED <<results, calls, workbench, deaths>>

\* launch, without a session: launch_mapdl connects, or raises and perhaps
\* leaves the process it started.  With a session it is reused.
Launch(c) ==
    /\ handle = 0 /\ launches < LaunchBound
    /\ Arrives(c, {})
    /\ LET n == launches + 1 IN
        /\ launches' = n
        /\ \/ handle' = n /\ alive' = alive \cup {n} /\ left' = left
           \/ handle' = handle /\ alive' \in {alive, alive \cup {n}}
              /\ left' = left \cup {n}
    /\ UNCHANGED <<results, calls, workbench, deaths>>

\* exit: the handle is dropped whether MAPDL ends or the call raises.
Exit(c) ==
    /\ handle # 0
    /\ Arrives(c, {})
    /\ \/ alive' = alive \ {handle} /\ left' = left
       \/ alive' = alive /\ left' = left \cup {handle}
    /\ handle' = 0
    /\ UNCHANGED <<launches, results, calls, workbench, deaths>>

\* solve under the lock: it returns, or raises before or after the solver has
\* begun a new result file or has written a set.
Solve(c, a) ==
    /\ Connected
    /\ \/ /\ Arrives(c, {})
          /\ rst' = [rst EXCEPT ![Directory(handle)] = [by |-> handle, of |-> a]]
          /\ pc' = [pc EXCEPT ![c] = "store"]
          /\ solved' = [solved EXCEPT ![c] = a]
       \/ /\ Arrives(c, {})
          /\ rst' = [rst EXCEPT ![Directory(handle)] = Empty]
          /\ UNCHANGED <<pc, solved>>
       \/ /\ Arrives(c, {"late"})
          /\ rst' = [rst EXCEPT ![Directory(handle)] = [by |-> handle, of |-> a]]
          /\ UNCHANGED <<pc, solved>>
    /\ UNCHANGED <<session, lastResult, reads, workbench, deaths>>

\* Seeded fault: only the first result is stored.
Store_First(c) ==
    /\ pc[c] = "store"
    /\ lastResult' = IF lastResult = "none" THEN solved[c] ELSE lastResult
    /\ pc' = [pc EXCEPT ![c] = "off"]
    /\ solved' = [solved EXCEPT ![c] = "none"]
    /\ excuses' = excuses \intersect {"overlap"}
    /\ UNCHANGED <<session, rst, reads, answer, workbench, deaths>>

\* solve, behind the lock: from here on the last result is the last set again.
Store(c) ==
    /\ pc[c] = "store"
    /\ lastResult' = solved[c]
    /\ pc' = [pc EXCEPT ![c] = "off"]
    /\ solved' = [solved EXCEPT ![c] = "none"]
    /\ excuses' = excuses \intersect {"overlap"}
    /\ UNCHANGED <<session, rst, reads, answer, workbench, deaths>>

\* live_smoke solves a static bar of its own and stores no result; it may raise
\* before it solves, while it does, or behind it.
LiveSmoke(c) ==
    /\ Connected
    /\ Arrives(c, {})
    /\ \/ UNCHANGED rst
       \/ rst' = [rst EXCEPT ![Directory(handle)] = Empty]
       \/ rst' = [rst EXCEPT ![Directory(handle)] = [by |-> handle, of |-> "STATIC"]]
    /\ UNCHANGED <<session, lastResult, calls, workbench, deaths>>

\* run_apdl: commands of the caller may solve anything.
RunApdl(c) ==
    /\ AllowRaw /\ Connected
    /\ Arrives(c, {"raw"})
    /\ \E a \in Analyses :
        rst' = [rst EXCEPT ![Directory(handle)] = [by |-> handle, of |-> a]]
    /\ UNCHANGED <<session, lastResult, calls, workbench, deaths>>

\* open_database and mesh change the model in memory; the result file and what
\* the server takes for the last result stay as they are.
ChangeModel(c) ==
    /\ Connected
    /\ Arrives(c, {})
    /\ UNCHANGED <<session, results, calls, workbench, deaths>>

-----------------------------------------------------------------------------
\* get_stress or get_displacement makes one read, export_results two.
Post(c) ==
    /\ Arrives(c, {})
    /\ pc' = [pc EXCEPT ![c] = "check"]
    /\ \E n \in {1, 2} : reads' = [reads EXCEPT ![c] = n]
    /\ UNCHANGED <<session, results, solved, workbench, deaths>>

\* A call raises, or returns.
Ends(c) ==
    /\ pc' = [pc EXCEPT ![c] = "off"]
    /\ reads' = [reads EXCEPT ![c] = 0]

\* _post_values looks at the last result before it takes the lock.
CheckType(c) ==
    /\ pc[c] = "check"
    /\ IF lastResult \in NonGeneric
         THEN Ends(c)
         ELSE pc' = [pc EXCEPT ![c] = "read"] /\ UNCHANGED reads
    /\ UNCHANGED <<session, results, solved, answer, excuses, workbench, deaths>>

\* The last set of the result file of the connected session.
Read(c) ==
    /\ pc[c] = "read"
    /\ Connected /\ rst[Directory(handle)] # Empty
    /\ answer' = [reader |-> handle, by |-> rst[Directory(handle)].by,
                  of |-> rst[Directory(handle)].of]
    /\ IF reads[c] = 1
         THEN Ends(c)
         ELSE /\ pc' = [pc EXCEPT ![c] = "check"]
              /\ reads' = [reads EXCEPT ![c] = @ - 1]
    /\ UNCHANGED <<session, results, solved, excuses, workbench, deaths>>

\* Not connected, no sets, no finite value, a broken connection.
ReadRaises(c) ==
    /\ pc[c] = "read"
    /\ Ends(c)
    /\ UNCHANGED <<session, results, solved, answer, excuses, workbench, deaths>>

-----------------------------------------------------------------------------
\* open_project writes a journal for Workbench, run_workbench_script has one; a
\* call refused before it starts a process removes its journal again.
Workbench(c) ==
    /\ used < BenchBound
    /\ Arrives(c, {})
    /\ \/ pc' = [pc EXCEPT ![c] = "open"] /\ journals' = journals + 1
       \/ AllowScripts /\ pc' = [pc EXCEPT ![c] = "script"] /\ journals' = journals
    /\ benches' = benches + 1
    /\ used' = used + 1
    /\ UNCHANGED <<session, results, solved, reads, spared, cut, deaths>>

\* Seeded fault: a timeout returns without the end of the process.
WorkbenchEnds_NotKilled(c) ==
    /\ pc[c] \in {"open", "script"}
    /\ journals' = IF pc[c] = "open" THEN journals - 1 ELSE journals
    /\ benches' \in {benches, benches - 1}
    /\ pc' = [pc EXCEPT ![c] = "off"]
    /\ UNCHANGED <<session, results, solved, reads, answer, excuses, spared, cut,
                   used, deaths>>

\* The process ends, or the timeout kills its tree and waits for it; the
\* journal goes whether the call returns or raises.
WorkbenchEnds(c) ==
    /\ pc[c] \in {"open", "script"}
    /\ journals' = IF pc[c] = "open" THEN journals - 1 ELSE journals
    /\ benches' = benches - 1
    /\ pc' = [pc EXCEPT ![c] = "off"]
    /\ UNCHANGED <<session, results, solved, reads, answer, excuses, spared, cut,
                   used, deaths>>

\* Reading its output raises, or the timeout cannot run taskkill: the journal
\* goes and the process goes on.
WorkbenchRaises(c) ==
    /\ pc[c] \in {"open", "script"}
    /\ journals' = IF pc[c] = "open" THEN journals - 1 ELSE journals
    /\ cut' = cut + 1
    /\ pc' = [pc EXCEPT ![c] = "off"]
    /\ UNCHANGED <<session, results, solved, reads, answer, excuses, benches, spared,
                   used, deaths>>

-----------------------------------------------------------------------------
\* MAPDL ends by itself, or loses its license; the handle stays.
MapdlDies(n) ==
    /\ n \in alive
    /\ alive' = alive \ {n}
    /\ UNCHANGED <<handle, launches, left, results, calls, answer, excuses,
                   workbench, deaths>>

\* The server is killed and started again: its processes stay, its memory not.
ServerDies ==
    /\ deaths < DeathBound
    /\ deaths' = deaths + 1
    /\ left' = left \cup alive
    /\ handle' = 0
    /\ lastResult' = "none"
    /\ spared' = spared + Cardinality({c \in Callers : pc[c] \in {"open", "script"}})
    /\ pc' = [c \in Callers |-> "off"]
    /\ solved' = [c \in Callers |-> "none"]
    /\ reads' = [c \in Callers |-> 0]
    /\ excuses' = {}
    /\ answer' = NoAnswer
    /\ UNCHANGED <<launches, alive, rst, benches, journals, cut, used>>

Call(c) ==
    \/ Launch(c) \/ Exit(c) \/ LiveSmoke(c) \/ RunApdl(c)
    \/ ChangeModel(c)
    \/ \E a \in Analyses : Solve(c, a)
    \/ Store(c)
    \/ Post(c) \/ CheckType(c) \/ Read(c) \/ ReadRaises(c)
    \/ Workbench(c) \/ WorkbenchEnds(c) \/ WorkbenchRaises(c)

Next ==
    \/ \E c \in Callers : Call(c)
    \/ \E n \in Launches : MapdlDies(n)
    \/ ServerDies

Spec == Init /\ [][Next]_vars

-----------------------------------------------------------------------------
(* The type of every variable, and which call carries what.                *)
TypeOK ==
    /\ launches \in 0..LaunchBound
    /\ handle \in 0..launches
    /\ alive \subseteq 1..launches /\ left \subseteq 1..launches
    /\ rst \in [Launches -> Sets \cup {Empty}]
    /\ lastResult \in AllAnalyses \cup {"none"}
    /\ pc \in [Callers -> Stages]
    /\ solved \in [Callers -> AllAnalyses \cup {"none"}]
    /\ reads \in [Callers -> 0..2]
    /\ \A c \in Callers :
        /\ pc[c] = "store" <=> solved[c] # "none"
        /\ pc[c] \in {"check", "read"} <=> reads[c] # 0
    /\ answer \in [reader : Launches, by : Launches, of : AllAnalyses] \cup {NoAnswer}
    /\ excuses \subseteq {"late", "raw", "overlap"}
    /\ benches \in Int /\ journals \in Int /\ spared \in Int /\ cut \in Int
    /\ deaths \in 0..DeathBound /\ used \in 0..BenchBound

(* README_KO.md and the instructions of the server: generic maxima support *)
(* static and transient results only.  The guard looks at the last solve   *)
(* that returned in this server, whatever session it was in; it keeps the  *)
(* promise unless a later solve raised behind its result sets, raw         *)
(* commands solved something since, or two calls have overlapped.          *)
ScalarsAreGeneric ==
    [][answer' # answer /\ excuses = {} => answer'.of \notin NonGeneric]_vars

(* A scalar is computed from what the connected session solved itself, and *)
(* never from what an earlier one left in its directory.                   *)
ScalarsAreOfSession == answer.by = answer.reader

(* No MAPDL process is forgotten: one that is not the connected session    *)
(* was given up by a call that raised, or by a death of the server.  A     *)
(* Workbench process outlives its call only where that was cut off in the  *)
(* same way, and a generated journal only where the server died.           *)
ProcessesAreAccounted ==
    /\ alive \subseteq left \cup {handle}
    /\ benches = spared + cut + Cardinality({c \in Callers : pc[c] \in {"open", "script"}})
    /\ journals <= spared + Cardinality({c \in Callers : pc[c] = "open"})

=============================================================================
