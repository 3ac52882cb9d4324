-------------------------- MODULE MapdlSessionProofs --------------------------
(***************************************************************************)
(* What the backend of the MCP server promises, for any number of callers, *)
(* launches, deaths and Workbench calls.                                   *)
(***************************************************************************)
EXTENDS MapdlSession, TLAPS, FiniteSetTheorems

\* As long as no two calls overlapped, at most one is in progress.
Alone ==
    "overlap" \notin excuses =>
        \A c, d \in Callers : pc[c] # "off" /\ pc[d] # "off" => c = d

\* A directory holds what its own launch solved; those to come are empty.
DirectoriesAreOwn ==
    \A n \in Launches :
        /\ n > launches => rst[n] = Empty
        /\ rst[n] # Empty => rst[n].by = n

\* What a solve has still to store is what it has left on the disk.
ToStore ==
    "overlap" \notin excuses =>
        \A c \in Callers : pc[c] = "store" => handle # 0 /\ rst[handle].of = solved[c]

\* While nothing parted them, the last result, or the one about to be stored,
\* is refused whenever the set on the disk has to be.
Refused ==
    excuses = {} /\ handle # 0 /\ rst[handle].of \in NonGeneric =>
        /\ lastResult \in NonGeneric \/ \E c \in Callers : pc[c] = "store"
        /\ \A c \in Callers : pc[c] # "read"

SessionInv ==
    TypeOK /\ Alone /\ DirectoriesAreOwn /\ ToStore /\ Refused /\ ScalarsAreOfSession

Benching == {c \in Callers : pc[c] \in {"open", "script"}}
Opening == {c \in Callers : pc[c] = "open"}

LEMMA SessionInit == Init => SessionInv
  BY SessionAssumption DEF Init, SessionInv, TypeOK, Alone, DirectoriesAreOwn, ToStore, Refused,
     ScalarsAreOfSession, Launches, Empty, Sets, NoAnswer, Stages, AllAnalyses, NonGeneric

\* A call that arrives without an overlap finds every other one over.
LEMMA ArrivesAlone ==
  ASSUME NEW c \in Callers, NEW extra, Arrives(c, extra), "overlap" \notin excuses'
  PROVE  "overlap" \notin excuses /\ \A d \in Callers : pc[d] = "off"
  BY DEF Arrives

LEMMA ArrivesTyped ==
  ASSUME NEW c \in Callers, NEW extra \in SUBSET {"late", "raw"}, Arrives(c, extra),
         excuses \subseteq {"late", "raw", "overlap"}
  PROVE  excuses' \subseteq {"late", "raw", "overlap"} /\ answer' = NoAnswer /\ pc[c] = "off"
  BY DEF Arrives

\* The numbers of the launches stay in range.
LEMMA LaunchTyped ==
  ASSUME launches \in 0..LaunchBound, handle \in 0..launches,
         alive \subseteq 1..launches, left \subseteq 1..launches,
         NEW c \in Callers, Launch(c) \/ Exit(c)
  PROVE  /\ launches' \in 0..LaunchBound /\ handle' \in 0..launches'
         /\ alive' \subseteq 1..launches' /\ left' \subseteq 1..launches'
  <1>1. LaunchBound \in Nat /\ launches \in Nat
    BY SessionAssumption
  <1>2. CASE Launch(c)
    <2>1. launches' = launches + 1 /\ launches < LaunchBound
      BY <1>2 DEF Launch
    <2>2. handle' \in {handle, launches + 1}
      BY <1>2 DEF Launch
    <2>3. /\ alive' \subseteq alive \cup {launches + 1}
          /\ left' \subseteq left \cup {launches + 1}
      BY <1>2, Zenon DEF Launch
    <2>4. 1..launches \cup {launches + 1} \subseteq 1..(launches + 1)
      BY <1>1
    <2> QED
      BY <1>1, <2>1, <2>2, <2>3, <2>4
  <1>3. CASE Exit(c)
    <2>1. launches' = launches /\ handle' = 0 /\ handle # 0
      BY <1>3 DEF Exit
    <2>2. /\ alive' \subseteq alive
          /\ left' \subseteq left \cup {handle}
      BY <1>3 DEF Exit
    <2>3. handle \in 1..launches
      BY <1>1, <2>1
    <2> QED
      BY <1>1, <2>1, <2>2, <2>3
  <1> QED
    BY <1>2, <1>3

\* A connected session is one of the launches.
LEMMA ConnectedLaunch ==
  ASSUME TypeOK, Connected
  PROVE  handle \in Launches /\ \A a \in AllAnalyses : [by |-> handle, of |-> a] \in Sets
  <1>1. handle \in 0..launches /\ handle # 0 /\ launches \in 0..LaunchBound
    BY DEF TypeOK, Connected
  <1>2. handle \in Launches
    BY <1>1, SessionAssumption DEF Launches
  <1> QED
    BY <1>2 DEF Sets

LEMMA SessionType == TypeOK /\ [Next]_vars => TypeOK'
  <1> SUFFICES ASSUME TypeOK, [Next]_vars PROVE TypeOK'
    OBVIOUS
  <1> USE SessionAssumption DEF TypeOK, Launches, Stages
  <1>1. ASSUME NEW c \in Callers, Launch(c) PROVE TypeOK'
    <2>1. excuses' \subseteq {"late", "raw", "overlap"} /\ answer' = NoAnswer
      BY <1>1, ArrivesTyped DEF Launch
    <2>2. /\ launches' \in 0..LaunchBound /\ handle' \in 0..launches'
          /\ alive' \subseteq 1..launches' /\ left' \subseteq 1..launches'
      BY <1>1, LaunchTyped
    <2>3. UNCHANGED <<results, calls, workbench, deaths>>
      BY <1>1 DEF Launch
    <2> QED
      BY <2>1, <2>2, <2>3 DEF results, calls, workbench
  <1>2. ASSUME NEW c \in Callers, Exit(c) PROVE TypeOK'
    <2>1. excuses' \subseteq {"late", "raw", "overlap"} /\ answer' = NoAnswer
      BY <1>2, ArrivesTyped DEF Exit
    <2>2. /\ launches' \in 0..LaunchBound /\ handle' \in 0..launches'
          /\ alive' \subseteq 1..launches' /\ left' \subseteq 1..launches'
      BY <1>2, LaunchTyped
    <2>3. UNCHANGED <<results, calls, workbench, deaths>>
      BY <1>2 DEF Exit
    <2> QED
      BY <2>1, <2>2, <2>3 DEF results, calls, workbench
  <1>3. ASSUME NEW c \in Callers, LiveSmoke(c) \/ RunApdl(c) \/ ChangeModel(c)
        PROVE TypeOK'
    <2>5. Connected
      BY <1>3 DEF LiveSmoke, RunApdl, ChangeModel
    <2>1. \A a \in Analyses \cup {"STATIC"} :
            handle \in Launches /\ [by |-> handle, of |-> a] \in Sets
      BY <2>5, ConnectedLaunch DEF AllAnalyses
    <2>2. rst' \in [Launches -> Sets \cup {Empty}]
      BY <1>3, <2>1 DEF LiveSmoke, RunApdl, ChangeModel, Directory, results
    <2>3. excuses' \subseteq {"late", "raw", "overlap"} /\ answer' = NoAnswer
      BY <1>3, ArrivesTyped DEF LiveSmoke, RunApdl, ChangeModel
    <2>4. UNCHANGED <<session, lastResult, calls, workbench, deaths>>
      BY <1>3 DEF LiveSmoke, RunApdl, ChangeModel, results
    <2> QED
      BY <2>2, <2>3, <2>4 DEF session, calls, workbench
  <1>4. ASSUME NEW c \in Callers, NEW a \in Analyses, Solve(c, a) PROVE TypeOK'
    <2>6. a \in AllAnalyses /\ a # "none" /\ Connected
      BY <1>4 DEF Solve, AllAnalyses
    <2>1. a \in AllAnalyses /\ a # "none" /\ [by |-> handle, of |-> a] \in Sets
      BY <2>6, ConnectedLaunch
    <2>2. rst' \in [Launches -> Sets \cup {Empty}]
      BY <1>4, <2>1 DEF Solve, Directory
    <2>3. /\ excuses' \subseteq {"late", "raw", "overlap"} /\ answer' = NoAnswer
          /\ pc[c] = "off"
      BY <1>4, ArrivesTyped DEF Solve
    <2>4. /\ pc' \in [Callers -> Stages]
          /\ solved' \in [Callers -> AllAnalyses \cup {"none"}]
          /\ \A d \in Callers : /\ pc'[d] = "store" <=> solved'[d] # "none"
                                /\ pc'[d] \in {"check", "read"} <=> reads[d] # 0
      BY <1>4, <2>1, <2>3 DEF Solve
    <2>5. UNCHANGED <<session, lastResult, reads, workbench, deaths>>
      BY <1>4 DEF Solve
    <2> QED
      BY <2>2, <2>3, <2>4, <2>5 DEF session, workbench
  <1>5. ASSUME NEW c \in Callers, Store(c) PROVE TypeOK'
    BY <1>5 DEF Store, session, workbench
  <1>6. ASSUME NEW c \in Callers, Post(c) PROVE TypeOK'
    <2>1. /\ excuses' \subseteq {"late", "raw", "overlap"} /\ answer' = NoAnswer
          /\ pc[c] = "off"
      BY <1>6, ArrivesTyped DEF Post
    <2> QED
      BY <1>6, <2>1 DEF Post, session, results, workbench
  <1>7. ASSUME NEW c \in Callers, CheckType(c) \/ ReadRaises(c) PROVE TypeOK'
    <2>1. pc[c] \in {"check", "read"} /\ reads[c] # 0 /\ solved[c] = "none"
      BY <1>7 DEF CheckType, ReadRaises
    <2>2. \/ pc' = [pc EXCEPT ![c] = "off"] /\ reads' = [reads EXCEPT ![c] = 0]
          \/ pc' = [pc EXCEPT ![c] = "read"] /\ reads' = reads
      BY <1>7 DEF CheckType, ReadRaises, Ends
    <2>3. UNCHANGED <<session, results, solved, answer, excuses, workbench, deaths>>
      BY <1>7 DEF CheckType, ReadRaises
    <2> QED
      BY <2>1, <2>2, <2>3 DEF session, results, workbench
  <1>8. ASSUME NEW c \in Callers, Read(c) PROVE TypeOK'
    <2>1. rst[handle] \in Sets /\ handle \in Launches
      BY <1>8 DEF Read, Connected, Directory
    <2>2. answer' \in [reader : Launches, by : Launches, of : AllAnalyses]
      BY <1>8, <2>1 DEF Read, Directory, Sets
    <2>3. /\ pc' \in [Callers -> Stages] /\ reads' \in [Callers -> 0..2]
          /\ \A d \in Callers : pc'[d] \in {"check", "read"} <=> reads'[d] # 0
          /\ \A d \in Callers : pc'[d] = "store" <=> solved[d] # "none"
      BY <1>8 DEF Read, Ends
    <2> QED
      BY <1>8, <2>2, <2>3 DEF Read, session, results, workbench
  <1>9. ASSUME NEW c \in Callers, Workbench(c) PROVE TypeOK'
    <2>1. /\ solved[c] = "none" /\ reads[c] = 0
          /\ excuses' \subseteq {"late", "raw", "overlap"} /\ answer' = NoAnswer
      BY <1>9, ArrivesTyped DEF Workbench
    <2>2. /\ pc' = [pc EXCEPT ![c] = "open"] \/ pc' = [pc EXCEPT ![c] = "script"]
          /\ journals' \in Int
      BY <1>9 DEF Workbench
    <2>3. /\ benches' = benches + 1 /\ used' = used + 1 /\ used < BenchBound
          /\ UNCHANGED <<session, results, solved, reads, spared, cut, deaths>>
      BY <1>9 DEF Workbench
    <2> QED
      BY <2>1, <2>2, <2>3 DEF session, results
  <1>13. ASSUME NEW c \in Callers, WorkbenchEnds(c) \/ WorkbenchRaises(c) PROVE TypeOK'
    <2>1. solved[c] = "none" /\ reads[c] = 0
      BY <1>13 DEF WorkbenchEnds, WorkbenchRaises
    <2>2. /\ pc' = [pc EXCEPT ![c] = "off"]
          /\ benches' \in Int /\ journals' \in Int /\ spared' \in Int /\ cut' \in Int
          /\ UNCHANGED <<session, results, solved, reads, answer, excuses, used, deaths>>
      BY <1>13 DEF WorkbenchEnds, WorkbenchRaises
    <2> QED
      BY <2>1, <2>2 DEF session, results
  <1>10. ASSUME NEW n \in Launches, MapdlDies(n) PROVE TypeOK'
    BY <1>10 DEF MapdlDies, results, calls, workbench
  <1>11. ASSUME ServerDies PROVE TypeOK'
    <2>1. Cardinality({c \in Callers : pc[c] \in {"open", "script"}}) \in Nat
      BY FS_Subset, FS_CardinalityType
    <2> QED
      BY <1>11, <2>1 DEF ServerDies
  <1>12. ASSUME UNCHANGED vars PROVE TypeOK'
    BY <1>12 DEF vars, session, results, calls, workbench
  <1> QED
    BY <1>1, <1>2, <1>3, <1>4, <1>5, <1>6, <1>7, <1>8, <1>9, <1>10, <1>11, <1>12,
       <1>13 DEF Next, Call

-----------------------------------------------------------------------------
\* A call in progress moves only itself, and one that arrives without an
\* overlap is alone.
LEMMA CallMoves ==
  ASSUME TypeOK, NEW c \in Callers, Call(c)
  PROVE  /\ \A d \in Callers : d # c => pc'[d] = pc[d]
         /\ "overlap" \notin excuses' =>
               "overlap" \notin excuses /\ (pc[c] # "off" \/ \A d \in Callers : pc[d] = "off")
  <1> USE DEF TypeOK
  <1>1. CASE Launch(c) \/ Exit(c) \/ LiveSmoke(c) \/ RunApdl(c) \/ ChangeModel(c)
    BY <1>1, ArrivesAlone DEF Launch, Exit, LiveSmoke, RunApdl, ChangeModel, calls
  <1>2. CASE \E a \in Analyses : Solve(c, a)
    BY <1>2, ArrivesAlone DEF Solve
  <1>3. CASE Post(c) \/ Workbench(c)
    BY <1>3, ArrivesAlone DEF Post, Workbench
  <1>4. CASE Store(c) \/ CheckType(c) \/ Read(c) \/ ReadRaises(c) \/ WorkbenchEnds(c) \/ WorkbenchRaises(c)
    BY <1>4 DEF Store, CheckType, Read, ReadRaises, WorkbenchEnds, WorkbenchRaises, Ends
  <1> QED
    BY <1>1, <1>2, <1>3, <1>4 DEF Call

LEMMA AloneStep == TypeOK /\ Alone /\ [Next]_vars => Alone'
  <1> SUFFICES ASSUME TypeOK, Alone, [Next]_vars PROVE Alone'
    OBVIOUS
  <1>1. ASSUME NEW c \in Callers, Call(c) PROVE Alone'
    BY <1>1, CallMoves DEF Alone
  <1>2. CASE \E n \in Launches : MapdlDies(n)
    BY <1>2 DEF MapdlDies, calls, Alone
  <1>3. CASE ServerDies
    BY <1>3 DEF ServerDies, Alone
  <1>4. CASE UNCHANGED vars
    BY <1>4 DEF vars, calls, Alone
  <1> QED
    BY <1>1, <1>2, <1>3, <1>4 DEF Next

\* Result sets change only in the directory of the connected session.
LEMMA CallResults ==
  ASSUME TypeOK, NEW c \in Callers, Call(c)
  PROVE  \/ rst' = rst /\ launches' \in {launches, launches + 1}
         \/ /\ Connected /\ launches' = launches
            /\ \E v \in {Empty} \cup {[by |-> handle, of |-> a] : a \in AllAnalyses} :
                  rst' = [rst EXCEPT ![handle] = v]
  <1> USE SessionAssumption DEF session, results
  <1>1. CASE Launch(c)
    BY <1>1 DEF Launch
  <1>2. CASE Exit(c)
    BY <1>2 DEF Exit
  <1>3. CASE LiveSmoke(c)
    <2>1. Connected /\ launches' = launches
      BY <1>3 DEF LiveSmoke
    <2>2. "STATIC" \in AllAnalyses
      BY DEF AllAnalyses
    <2>3. CASE UNCHANGED rst
      BY <2>1, <2>3
    <2>4. CASE rst' = [rst EXCEPT ![handle] = Empty]
      BY <2>1, <2>4
    <2>5. CASE rst' = [rst EXCEPT ![handle] = [by |-> handle, of |-> "STATIC"]]
      BY <2>1, <2>2, <2>5
    <2> QED
      BY <1>3, <2>3, <2>4, <2>5 DEF LiveSmoke, Directory
  <1>4. CASE RunApdl(c)
    BY <1>4 DEF RunApdl, Directory
  <1>5. CASE \E a \in Analyses : Solve(c, a)
    BY <1>5 DEF Solve, Directory
  <1>6. CASE ChangeModel(c) \/ Store(c) \/ Post(c) \/ CheckType(c) \/ Read(c)
             \/ ReadRaises(c) \/ Workbench(c) \/ WorkbenchEnds(c) \/ WorkbenchRaises(c)
    BY <1>6 DEF ChangeModel, Store, Post, CheckType, Read, ReadRaises, Workbench, WorkbenchEnds, WorkbenchRaises
  <1> QED
    BY <1>1, <1>2, <1>3, <1>4, <1>5, <1>6 DEF Call

LEMMA DirectoriesStep == TypeOK /\ DirectoriesAreOwn /\ [Next]_vars => DirectoriesAreOwn'
  <1> SUFFICES ASSUME TypeOK, DirectoriesAreOwn, [Next]_vars PROVE DirectoriesAreOwn'
    OBVIOUS
  <1>0. launches \in Nat /\ handle \in 0..launches /\ Launches \subseteq Nat
    BY SessionAssumption DEF TypeOK, Launches
  <1>1. ASSUME NEW c \in Callers, Call(c) PROVE DirectoriesAreOwn'
    <2>1. CASE rst' = rst /\ launches' \in {launches, launches + 1}
      <3>1. \A n \in Launches : n > launches' => n > launches
        BY <1>0, <2>1
      <3> QED
        BY <2>1, <3>1 DEF DirectoriesAreOwn
    <2>2. CASE /\ Connected /\ launches' = launches
               /\ \E v \in {Empty} \cup {[by |-> handle, of |-> a] : a \in AllAnalyses} :
                     rst' = [rst EXCEPT ![handle] = v]
      <3>1. rst \in [Launches -> Sets \cup {Empty}] /\ ~ (handle > launches)
        BY <1>0 DEF TypeOK
      <3> QED
        BY <2>2, <3>1 DEF DirectoriesAreOwn
    <2> QED
      BY <1>1, <2>1, <2>2, CallResults
  <1>2. CASE \E n \in Launches : MapdlDies(n)
    BY <1>2 DEF MapdlDies, results, DirectoriesAreOwn
  <1>3. CASE ServerDies
    BY <1>3 DEF ServerDies, DirectoriesAreOwn
  <1>4. CASE UNCHANGED vars
    BY <1>4 DEF vars, session, results, DirectoriesAreOwn
  <1> QED
    BY <1>1, <1>2, <1>3, <1>4 DEF Next

\* An answer is of the set that is read, and there is none as a call arrives.
LEMMA CallAnswers ==
  ASSUME NEW c \in Callers, Call(c)
  PROVE  \/ answer' = NoAnswer
         \/ answer' = answer
         \/ Read(c)
  BY DEF Call, Launch, Exit, LiveSmoke, RunApdl, ChangeModel, Solve, Store, Post, CheckType,
     ReadRaises, Workbench, WorkbenchEnds, WorkbenchRaises, Arrives

LEMMA OfSessionStep ==
  TypeOK /\ DirectoriesAreOwn /\ ScalarsAreOfSession /\ [Next]_vars => ScalarsAreOfSession'
  <1> SUFFICES ASSUME TypeOK, DirectoriesAreOwn, ScalarsAreOfSession, [Next]_vars
               PROVE  ScalarsAreOfSession'
    OBVIOUS
  <1>1. ASSUME NEW c \in Callers, Read(c) PROVE ScalarsAreOfSession'
    <2>1. Connected /\ rst[handle] # Empty
      BY <1>1 DEF Read, Directory
    <2>2. rst[handle].by = handle
      BY <2>1, ConnectedLaunch DEF DirectoriesAreOwn
    <2> QED
      BY <1>1, <2>2 DEF Read, Directory, ScalarsAreOfSession
  <1>2. ASSUME NEW c \in Callers, Call(c) PROVE ScalarsAreOfSession'
    BY <1>1, <1>2, CallAnswers DEF ScalarsAreOfSession, NoAnswer
  <1>3. CASE (\E n \in Launches : MapdlDies(n)) \/ ServerDies \/ UNCHANGED vars
    BY <1>3 DEF MapdlDies, ServerDies, vars, ScalarsAreOfSession, NoAnswer
  <1> QED
    BY <1>2, <1>3 DEF Next

-----------------------------------------------------------------------------
\* A call that had nothing to hide and now begins finds a clean state.
LEMMA ArrivesClean ==
  ASSUME NEW c \in Callers, NEW extra, Arrives(c, extra), excuses' = {}
  PROVE  excuses = {} /\ extra = {} /\ \A d \in Callers : pc[d] = "off"
  BY DEF Arrives

LEMMA ToStoreStep == TypeOK /\ Alone /\ ToStore /\ [Next]_vars => ToStore'
  <1> SUFFICES ASSUME TypeOK, Alone, ToStore, [Next]_vars, "overlap" \notin excuses',
                      NEW d \in Callers, pc'[d] = "store"
               PROVE  handle' # 0 /\ rst'[handle'].of = solved'[d]
    BY DEF ToStore
  <1>0. pc \in [Callers -> Stages] /\ solved \in [Callers -> AllAnalyses \cup {"none"}]
        /\ rst \in [Launches -> Sets \cup {Empty}]
    BY DEF TypeOK
  <1>1. ASSUME NEW c \in Callers, Call(c) PROVE handle' # 0 /\ rst'[handle'].of = solved'[d]
    <2>1. pc'[c] = "store"
      BY <1>1, CallMoves DEF Alone
    <2>2. pc[c] # "store" => \E a \in Analyses : Solve(c, a)
      BY <1>0, <1>1, <2>1 DEF Call, Launch, Exit, LiveSmoke, RunApdl, ChangeModel, Store, Post,
         CheckType, Read, ReadRaises, Workbench, WorkbenchEnds, WorkbenchRaises, Ends, calls
    <2>3. pc[c] # "store"
      BY <1>0, <1>1, <2>1 DEF Call, Launch, Exit, LiveSmoke, RunApdl, ChangeModel, Solve, Store,
         Post, CheckType, Read, ReadRaises, Workbench, WorkbenchEnds, WorkbenchRaises, Ends, Arrives
    <2>4. PICK a \in Analyses : Solve(c, a)
      BY <2>2, <2>3
    <2>5. d = c
      BY <1>1, CallMoves, <2>3 DEF Alone, Solve, Arrives
    <2>6. Connected /\ handle' = handle /\ handle \in Launches
      BY <2>4, ConnectedLaunch DEF Solve, session
    <2>7. /\ rst' = [rst EXCEPT ![handle] = [by |-> handle, of |-> a]]
          /\ solved' = [solved EXCEPT ![c] = a]
      BY <1>0, <2>1, <2>3, <2>4 DEF Solve, Directory
    <2> QED
      BY <1>0, <2>5, <2>6, <2>7 DEF Connected
  <1>2. CASE \E n \in Launches : MapdlDies(n)
    BY <1>2 DEF MapdlDies, results, calls, ToStore
  <1>3. CASE ServerDies
    BY <1>3 DEF ServerDies
  <1>4. CASE UNCHANGED vars
    BY <1>4 DEF vars, session, results, calls, ToStore
  <1> QED
    BY <1>1, <1>2, <1>3, <1>4 DEF Next

LEMMA RefusedStep ==
  TypeOK /\ Alone /\ DirectoriesAreOwn /\ ToStore /\ Refused /\ [Next]_vars => Refused'
  <1> SUFFICES ASSUME TypeOK, Alone, DirectoriesAreOwn, ToStore, Refused, [Next]_vars,
                      excuses' = {}, handle' # 0, rst'[handle'].of \in NonGeneric
               PROVE  /\ lastResult' \in NonGeneric \/ \E d \in Callers : pc'[d] = "store"
                      /\ \A d \in Callers : pc'[d] # "read"
    BY DEF Refused
  <1> DEFINE Goal == /\ lastResult' \in NonGeneric \/ \E d \in Callers : pc'[d] = "store"
                     /\ \A d \in Callers : pc'[d] # "read"
  <1>0. /\ pc \in [Callers -> Stages] /\ solved \in [Callers -> AllAnalyses \cup {"none"}]
        /\ rst \in [Launches -> Sets \cup {Empty}]
        /\ handle \in 0..launches /\ launches \in 0..LaunchBound /\ LaunchBound \in Nat
    BY SessionAssumption DEF TypeOK
  <1>1. ASSUME NEW c \in Callers, Launch(c) PROVE Goal
    <2>1. handle' = launches + 1 /\ launches + 1 \in Launches /\ rst' = rst
      BY <1>0, <1>1 DEF Launch, results, Launches
    <2>2. rst[launches + 1] = Empty
      BY <1>0, <2>1 DEF DirectoriesAreOwn
    <2> QED
      BY <2>1, <2>2 DEF Empty, NonGeneric
  <1>2. ASSUME NEW c \in Callers, Exit(c) PROVE Goal
    BY <1>2 DEF Exit
  <1>3. ASSUME NEW c \in Callers, LiveSmoke(c) PROVE Goal
    <2>1. handle' = handle /\ Connected
      BY <1>3 DEF LiveSmoke, session
    <2>2. CASE UNCHANGED rst
      <3>1. excuses = {} /\ UNCHANGED <<lastResult, pc>>
        BY <1>3, ArrivesClean DEF LiveSmoke, calls
      <3> QED
        BY <2>1, <2>2, <3>1 DEF Refused
    <2>3. ASSUME NEW v \in {Empty, [by |-> handle, of |-> "STATIC"]}, rst' = [rst EXCEPT ![handle] = v]
          PROVE  Goal
      BY <1>0, <2>1, <2>3, ConnectedLaunch DEF Empty, NonGeneric
    <2> QED
      BY <1>3, <2>2, <2>3 DEF LiveSmoke, Directory
  <1>4. ASSUME NEW c \in Callers, RunApdl(c) PROVE Goal
    BY <1>4, ArrivesClean DEF RunApdl
  <1>5. ASSUME NEW c \in Callers, NEW a \in Analyses, Solve(c, a) PROVE Goal
    <2>1. \A d \in Callers : pc[d] = "off"
      BY <1>5, ArrivesClean DEF Solve
    <2>2. ~ Arrives(c, {"late"})
      BY ArrivesClean
    <2>3. CASE pc' = [pc EXCEPT ![c] = "store"]
      BY <1>0, <2>1, <2>3
    <2>4. CASE rst' = [rst EXCEPT ![handle] = Empty]
      <3>1. handle' = handle /\ handle \in Launches
        BY <1>5, ConnectedLaunch DEF Solve, session
      <3> QED
        BY <1>0, <2>4, <3>1 DEF Empty, NonGeneric
    <2> QED
      BY <1>5, <2>2, <2>3, <2>4 DEF Solve, Directory
  <1>6. ASSUME NEW c \in Callers, ChangeModel(c) \/ Post(c) \/ Workbench(c) PROVE Goal
    <2>1. excuses = {} /\ \A d \in Callers : pc[d] = "off"
      BY <1>6, ArrivesClean DEF ChangeModel, Post, Workbench
    <2>2. UNCHANGED <<handle, rst, lastResult>>
      BY <1>6 DEF ChangeModel, Post, Workbench, session, results
    <2>3. \A d \in Callers : pc'[d] # "read"
      BY <1>0, <1>6, <2>1 DEF ChangeModel, Post, Workbench, calls
    <2> QED
      BY <2>1, <2>2, <2>3 DEF Refused
  <1>7. ASSUME NEW c \in Callers, Store(c) PROVE Goal
    <2>1. /\ "overlap" \notin excuses /\ pc[c] = "store" /\ lastResult' = solved[c]
          /\ UNCHANGED <<handle, rst>> /\ pc' = [pc EXCEPT ![c] = "off"]
      BY <1>7 DEF Store, session
    <2>2. rst[handle].of = solved[c] /\ \A d \in Callers : pc[d] # "off" => d = c
      BY <2>1 DEF ToStore, Alone
    <2> QED
      BY <1>0, <2>1, <2>2
  <1>8. ASSUME NEW c \in Callers, CheckType(c) \/ Read(c) \/ ReadRaises(c) \/ WorkbenchEnds(c) \/ WorkbenchRaises(c)
        PROVE  Goal
    <2>1. UNCHANGED <<excuses, handle, rst, lastResult>>
      BY <1>8 DEF CheckType, Read, ReadRaises, WorkbenchEnds, WorkbenchRaises, session, results
    <2>2. pc[c] \in {"check", "read", "open", "script"}
      BY <1>8 DEF CheckType, Read, ReadRaises, WorkbenchEnds, WorkbenchRaises
    <2>3. lastResult \in NonGeneric /\ \A d \in Callers : pc[d] # "read"
      BY <2>1, <2>2 DEF Refused, Alone
    <2>4. pc' = [pc EXCEPT ![c] = "off"]
      BY <1>8, <2>3 DEF CheckType, Read, ReadRaises, WorkbenchEnds, WorkbenchRaises, Ends
    <2> QED
      BY <1>0, <2>1, <2>3, <2>4
  <1>9. CASE \E n \in Launches : MapdlDies(n)
    BY <1>9 DEF MapdlDies, results, calls, Refused
  <1>10. CASE ServerDies
    BY <1>10 DEF ServerDies
  <1>11. CASE UNCHANGED vars
    BY <1>11 DEF vars, session, results, calls, Refused
  <1> QED
    BY <1>1, <1>2, <1>3, <1>4, <1>5, <1>6, <1>7, <1>8, <1>9, <1>10, <1>11 DEF Next, Call

-----------------------------------------------------------------------------
\* A call that neither starts nor ends Workbench leaves its processes alone.
LEMMA CallKeepsBenching ==
  ASSUME TypeOK, NEW c \in Callers, Call(c), ~ Workbench(c), ~ WorkbenchEnds(c), ~ WorkbenchRaises(c)
  PROVE  Benching' = Benching /\ Opening' = Opening /\ UNCHANGED <<benches, journals, spared, cut>>
  <1>1. pc \in [Callers -> Stages]
    BY DEF TypeOK
  <1>2. UNCHANGED <<benches, journals, spared, cut>>
    BY DEF Call, Launch, Exit, LiveSmoke, RunApdl, ChangeModel, Solve, Store, Post, CheckType,
       Read, ReadRaises, workbench
  <1>3. /\ pc[c] \notin {"open", "script"}
        /\ pc' = pc \/ \E s \in {"off", "store", "check", "read"} : pc' = [pc EXCEPT ![c] = s]
    BY <1>1 DEF Call, Launch, Exit, LiveSmoke, RunApdl, ChangeModel, Solve, Store, Post, CheckType,
       Read, ReadRaises, Ends, Arrives, calls
  <1>4. \A d \in Callers : /\ pc'[d] = "open" <=> pc[d] = "open"
                           /\ pc'[d] = "script" <=> pc[d] = "script"
    BY <1>1, <1>3
  <1> QED
    BY <1>2, <1>4 DEF Benching, Opening

LEMMA BenchingFinite ==
  /\ IsFiniteSet(Benching) /\ IsFiniteSet(Opening)
  /\ Cardinality(Benching) \in Nat /\ Cardinality(Opening) \in Nat
  /\ Cardinality(Opening) <= Cardinality(Benching)
  <1>1. Opening \subseteq Benching /\ Benching \subseteq Callers
    BY DEF Benching, Opening
  <1>2. IsFiniteSet(Benching) /\ IsFiniteSet(Opening)
    BY <1>1, SessionAssumption, FS_Subset
  <1> QED
    BY <1>1, <1>2, FS_Subset, FS_CardinalityType

\* The process of every MAPDL that lives is known.
MapdlAccounted == alive \subseteq left \cup {handle}

LEMMA MapdlAccountedStep == TypeOK /\ MapdlAccounted /\ [Next]_vars => MapdlAccounted'
  <1> SUFFICES ASSUME TypeOK, MapdlAccounted, [Next]_vars PROVE MapdlAccounted'
    OBVIOUS
  <1>1. ASSUME NEW c \in Callers, Launch(c) PROVE MapdlAccounted'
    <2>1. 0 \notin alive /\ handle = 0
      BY <1>1 DEF TypeOK, Launch
    <2> QED
      BY <1>1, <2>1 DEF Launch, MapdlAccounted
  <1>2. ASSUME NEW c \in Callers, Exit(c) PROVE MapdlAccounted'
    BY <1>2 DEF Exit, MapdlAccounted
  <1>3. ASSUME NEW c \in Callers, Call(c), ~ Launch(c), ~ Exit(c) PROVE MapdlAccounted'
    <2>1. UNCHANGED session
      BY <1>3 DEF Call, LiveSmoke, RunApdl, ChangeModel, Solve, Store, Post, CheckType,
         Read, ReadRaises, Workbench, WorkbenchEnds, WorkbenchRaises
    <2> QED
      BY <2>1 DEF session, MapdlAccounted
  <1>4. CASE \E n \in Launches : MapdlDies(n)
    BY <1>4 DEF MapdlDies, MapdlAccounted
  <1>5. CASE ServerDies
    BY <1>5 DEF ServerDies, MapdlAccounted
  <1>6. CASE UNCHANGED vars
    BY <1>6 DEF vars, session, MapdlAccounted
  <1> QED
    BY <1>1, <1>2, <1>3, <1>4, <1>5, <1>6 DEF Next

\* So are the process and the journal of every Workbench call.
WorkbenchAccounted ==
    /\ benches = spared + cut + Cardinality(Benching)
    /\ journals <= spared + Cardinality(Opening)

LEMMA WorkbenchAccountedStep == TypeOK /\ WorkbenchAccounted /\ [Next]_vars => WorkbenchAccounted'
  <1> SUFFICES ASSUME TypeOK, WorkbenchAccounted, [Next]_vars PROVE WorkbenchAccounted'
    OBVIOUS
  <1>0. /\ pc \in [Callers -> Stages] /\ solved \in [Callers -> AllAnalyses \cup {"none"}]
        /\ benches \in Int /\ journals \in Int /\ spared \in Int /\ cut \in Int
    BY DEF TypeOK
  <1>1. ASSUME NEW c \in Callers, Workbench(c) PROVE WorkbenchAccounted'
    <2>1. pc[c] = "off" /\ benches' = benches + 1 /\ spared' = spared /\ cut' = cut
      BY <1>1 DEF Workbench, Arrives
    <2>2. c \notin Benching /\ c \notin Opening
      BY <2>1 DEF Benching, Opening
    <2>3. CASE pc' = [pc EXCEPT ![c] = "open"] /\ journals' = journals + 1
      <3>1. Benching' = Benching \cup {c} /\ Opening' = Opening \cup {c}
        BY <1>0, <2>1, <2>3 DEF Benching, Opening
      <3>2. /\ Cardinality(Benching') = Cardinality(Benching) + 1
            /\ Cardinality(Opening') = Cardinality(Opening) + 1
        BY <2>2, <3>1, BenchingFinite, FS_AddElement
      <3> QED
        BY <1>0, <2>1, <2>3, <3>2, BenchingFinite DEF WorkbenchAccounted
    <2>4. CASE pc' = [pc EXCEPT ![c] = "script"] /\ journals' = journals
      <3>1. Benching' = Benching \cup {c} /\ Opening' = Opening
        BY <1>0, <2>1, <2>4 DEF Benching, Opening
      <3>2. /\ Cardinality(Benching') = Cardinality(Benching) + 1
            /\ Cardinality(Opening') = Cardinality(Opening)
        BY <2>2, <3>1, BenchingFinite, FS_AddElement
      <3> QED
        BY <1>0, <2>1, <2>4, <3>2, BenchingFinite DEF WorkbenchAccounted
    <2> QED
      BY <1>1, <2>3, <2>4 DEF Workbench
  <1>2. ASSUME NEW c \in Callers, WorkbenchEnds(c) \/ WorkbenchRaises(c) PROVE WorkbenchAccounted'
    <2>1. /\ c \in Benching /\ (c \in Opening <=> pc[c] = "open")
          /\ pc' = [pc EXCEPT ![c] = "off"] /\ benches' - cut' = benches - cut - 1
          /\ benches' \in Int /\ cut' \in Int /\ spared' = spared
          /\ journals' = IF pc[c] = "open" THEN journals - 1 ELSE journals
      BY <1>0, <1>2 DEF WorkbenchEnds, WorkbenchRaises, Benching, Opening, workbench
    <2>4. pc[c] \in {"open", "script"} /\ pc'[c] = "off" /\ \A d \in Callers : d # c => pc'[d] = pc[d]
      BY <1>0, <1>2, <2>1 DEF WorkbenchEnds, WorkbenchRaises
    <2>2. Benching' = Benching \ {c} /\ Opening' = Opening \ {c}
      BY <2>4 DEF Benching, Opening
    <2>3. /\ Cardinality(Benching') = Cardinality(Benching) - 1
          /\ Cardinality(Opening') =
                IF c \in Opening THEN Cardinality(Opening) - 1 ELSE Cardinality(Opening)
      BY <2>1, <2>2, BenchingFinite, FS_RemoveElement
    <2> QED
      BY <1>0, <2>1, <2>3, BenchingFinite DEF WorkbenchAccounted
  <1>3. ASSUME NEW c \in Callers, Call(c), ~ Workbench(c), ~ WorkbenchEnds(c), ~ WorkbenchRaises(c)
        PROVE  WorkbenchAccounted'
    BY <1>3, CallKeepsBenching DEF WorkbenchAccounted
  <1>4. CASE \E n \in Launches : MapdlDies(n)
    BY <1>4 DEF MapdlDies, calls, workbench, WorkbenchAccounted, Benching, Opening
  <1>5. CASE ServerDies
    <2>1. /\ spared' = spared + Cardinality(Benching) /\ benches' = benches /\ journals' = journals
          /\ cut' = cut
          /\ \A c \in Callers : pc'[c] = "off"
      BY <1>5 DEF ServerDies, Benching
    <2>2. Benching' = {} /\ Opening' = {}
      BY <2>1 DEF Benching, Opening
    <2>3. Cardinality(Benching') = 0 /\ Cardinality(Opening') = 0
      BY <2>2, FS_EmptySet
    <2> QED
      BY <1>0, <2>1, <2>3, BenchingFinite DEF WorkbenchAccounted
  <1>6. CASE UNCHANGED vars
    BY <1>6 DEF vars, calls, workbench, WorkbenchAccounted, Benching, Opening
  <1> QED
    BY <1>1, <1>2, <1>3, <1>4, <1>5, <1>6 DEF Next

-----------------------------------------------------------------------------
LEMMA SessionStep == SessionInv /\ [Next]_vars => SessionInv'
  BY SessionType, AloneStep, DirectoriesStep, ToStoreStep, RefusedStep, OfSessionStep
     DEF SessionInv

(* Every variable keeps its type, for any bounds.                          *)
THEOREM MapdlTypeOK == Spec => []TypeOK
  BY SessionInit, SessionStep, PTL DEF Spec, SessionInv

(* backend.py:63 and 216: launches have directories of their own, so what  *)
(* is read was solved by the connected session.                            *)
THEOREM ScalarsOfSession == Spec => []ScalarsAreOfSession
  BY SessionInit, SessionStep, PTL DEF Spec, SessionInv

LEMMA GenericStep ==
  SessionInv /\ [Next]_vars =>
      [answer' # answer /\ excuses = {} => answer'.of \notin NonGeneric]_vars
  <1> SUFFICES ASSUME SessionInv, [Next]_vars, answer' # answer, excuses = {}
               PROVE  answer'.of \notin NonGeneric
    OBVIOUS
  <1>1. NoAnswer.of \notin NonGeneric
    BY DEF NoAnswer, NonGeneric
  <1>2. ASSUME NEW c \in Callers, Read(c) PROVE answer'.of \notin NonGeneric
    <2>1. handle # 0 /\ pc[c] = "read" /\ answer'.of = rst[handle].of
      BY <1>2 DEF Read, Connected, Directory
    <2> QED
      BY <2>1 DEF SessionInv, Refused
  <1>3. ASSUME NEW c \in Callers, Call(c) PROVE answer'.of \notin NonGeneric
    BY <1>1, <1>2, <1>3, CallAnswers
  <1>4. CASE (\E n \in Launches : MapdlDies(n)) \/ ServerDies \/ UNCHANGED vars
    BY <1>1, <1>4 DEF MapdlDies, ServerDies, vars
  <1> QED
    BY <1>3, <1>4 DEF Next

(* backend.py:209: the test of the last result keeps generic maxima to     *)
(* static and transient sets, but for the excuses the model names.         *)
THEOREM ScalarsGeneric == Spec => ScalarsAreGeneric
  BY SessionInit, SessionStep, GenericStep, PTL DEF Spec, ScalarsAreGeneric

LEMMA AccountedInit == Init => MapdlAccounted /\ WorkbenchAccounted
  <1> SUFFICES ASSUME Init PROVE MapdlAccounted /\ WorkbenchAccounted
    OBVIOUS
  <1>1. Benching = {} /\ Opening = {}
    BY DEF Init, Benching, Opening
  <1>2. Cardinality(Benching) = 0 /\ Cardinality(Opening) = 0
    BY <1>1, FS_EmptySet
  <1> QED
    BY <1>2 DEF Init, MapdlAccounted, WorkbenchAccounted

(* backend.py:51, 111 and 283: no process and no journal is forgotten.     *)
THEOREM ProcessesAccounted == Spec => []ProcessesAreAccounted
  <1>1. MapdlAccounted /\ WorkbenchAccounted => ProcessesAreAccounted
    BY DEF MapdlAccounted, WorkbenchAccounted, Benching, Opening, ProcessesAreAccounted
  <1> QED
    BY <1>1, AccountedInit, SessionInit, SessionStep, MapdlAccountedStep, WorkbenchAccountedStep,
       PTL DEF Spec, SessionInv

=============================================================================
